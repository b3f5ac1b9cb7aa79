--------------------------- MODULE MCHttpClient ---------------------------
(***************************************************************************)
(* Small instances of HttpClient: a mode fixes the protocol, the requests  *)
(* and what the server, the callers and the clock may do.                  *)
(***************************************************************************)
EXTENDS HttpClient

CONSTANTS r1, r2, r3, Chosen

Calm(proto, asks) == [proto |-> proto, asks |-> asks, aborts |-> {}, odd |-> 0, may |-> Oddities,
                      closes |-> 0, expires |-> 0]

\* Connections are kept and reused, and the server ends one; dials fail, and
\* answers are odd.
Reuse == [Calm("http1", {r1, r2}) EXCEPT !.odd = 1, !.may = {"end"}]
Oddly == [Calm("http1", {r1}) EXCEPT !.odd = 1]

\* The client is closed, and idle connections expire, while requests are asked.
Life == [Calm("http1", {r1, r2}) EXCEPT !.closes = 1, !.expires = 1]

\* A request is abandoned.
Abandon == [Calm("http1", {r1}) EXCEPT !.aborts = {r1}, !.odd = 1]

\* TLS, with HTTP/1 and with HTTP/2 behind it.
Secure1 == Calm("tls1", {r1, r2})
Secure2 == Calm("h2", {r1, r2})
Shaking == [Calm("tls1", {r1}) EXCEPT !.odd = 1, !.may = {"end"}]
Shaking2 == [Calm("h2", {r1}) EXCEPT !.odd = 1, !.may = {"end"}]

\* Streams that are refused, reset, cut off or abandoned; connections that retire,
\* expire or have no room.
Streams == [Calm("h2c", {r1, r2}) EXCEPT !.odd = 1, !.may = {"goaway", "refuse", "end"}]
Broken == [Calm("h2c", {r1}) EXCEPT !.odd = 1]
Cancels == [Calm("h2c", {r1, r2}) EXCEPT !.aborts = {r1}]
Retires == [Calm("h2c", {r1}) EXCEPT !.odd = 1, !.may = {"goaway"}, !.aborts = {r1}]
Expiry == [Calm("h2c", {r1, r2}) EXCEPT !.closes = 1, !.expires = 1]
Crowd == Calm("h2c", {r1, r2, r3})

\* A connection with a stream on it ends twice.
Again == [Calm("h2c", {r1}) EXCEPT !.odd = 2, !.may = {"end"}]

\* Bytes come that nobody asked for, while a connection is idle, too.
Unasked == [Calm("http1", {r1, r2}) EXCEPT !.odd = 1, !.may = {"speak"}]

\* A request is abandoned on HTTP/1 while another waits for its connection.
Race == [Calm("http1", {r1, r2}) EXCEPT !.aborts = {r1}]

AllModes ==
  CASE Chosen = "all" -> {Reuse, Oddly, Life, Abandon, Secure1, Secure2, Shaking, Shaking2, Streams, Broken,
                          Cancels, Retires, Expiry, Crowd, Again, Unasked, Race}
    [] Chosen = "race" -> {Race}
    [] Chosen = "unasked" -> {Unasked}
    [] Chosen = "handshake" -> {Shaking}
=============================================================================
