------------------------------- MODULE Http2 -------------------------------
(***************************************************************************)
(* One HTTP/2 connection: the server (http/h2_server.go, h2_push.go,       *)
(* h2_upgrade.go) and the client (http/h2_client.go) exchange frames       *)
(* (http/h2_frame.go) over the two directions of a connection.             *)
(*                                                                         *)
(* A frame is handled in one step: the handlers change the connection      *)
(* under its mutex, and what they touch outside it belongs to the reader.  *)
(* An endpoint is a record; a handler is a function from record to record  *)
(* that leaves what it sent in out.  Bodies are counted in units, the size *)
(* of which the windows are small multiples of.                            *)
(***************************************************************************)
EXTENDS Integers, Sequences, FiniteSets, SequencesExt

CONSTANTS Plans,               \* what is asked and answered, one of these
          DefaultWindow,       \* h2DefaultWindow
          StreamWindow,        \* h2StreamWindow
          ConnWindow,          \* h2ConnWindow
          MaxFrame,            \* h2DefaultMaxFrameSize
          InitialMaxStreams,   \* h2InitialMaxStreams
          MaxStreams,          \* Config.MaxConcurrentStreams
          MaxBody,             \* Config.MaxBodyBytes
          MaxResponseBody,     \* ClientConfig.MaxResponseBodyBytes
          MaxWindow            \* h2MaxWindow

ASSUME Http2Assumption ==
  /\ {DefaultWindow, MaxFrame, InitialMaxStreams, MaxStreams, MaxBody, MaxResponseBody} \subseteq Nat \ {0}
  /\ DefaultWindow <= StreamWindow /\ StreamWindow <= ConnWindow /\ ConnWindow <= MaxWindow

VARIABLES
  plan,      \* what the client, the application and the network may still do
  server,    \* h2ServerConn
  client,    \* h2ClientConn
  up, down,  \* frames on their way to the server, to the client
  log        \* what became of each stream

vars == <<plan, server, client, up, down, log>>

-----------------------------------------------------------------------------
(* Frames.  n is a length, an increment or a stream, end is END_STREAM,     *)
(* x the header block, the settings or the error code, more is a header    *)
(* block without END_HEADERS.                                              *)

Frame(t, id, n, end, x) == [t |-> t, id |-> id, n |-> n, end |-> end, x |-> x, more |-> FALSE]
Fin == Frame("FIN", 0, 0, FALSE, "")
h2AppendWindowUpdate(id, n) == Frame("WINDOW_UPDATE", id, n, FALSE, "")
h2AppendRSTStream(id, code) == Frame("RST_STREAM", id, 0, FALSE, code)
h2AppendGoAway(last) == Frame("GOAWAY", 0, last, FALSE, "")
h2AppendSettings(window, enablePush, streams) ==
  Frame("SETTINGS", 0, window, FALSE, [push |-> enablePush, streams |-> streams])
SettingsAck == Frame("SETTINGS_ACK", 0, 0, FALSE, "")

\* n is the Content-Length, or -1.  A long block takes a CONTINUATION frame too.
h2AppendHeaderBlock(id, n, x, end, long) ==
  LET f == Frame("HEADERS", id, n, end, x)
  IN IF long THEN <<[f EXCEPT !.more = TRUE], [f EXCEPT !.t = "CONTINUATION"]>> ELSE <<f>>

h2AppendPushPromise(id, promised) == Frame("PUSH_PROMISE", id, promised, FALSE, "")

\* sendLocked, and CloseAfterSend, after which the engine takes nothing more.
sendLocked(e, frames) ==
  IF e.closed \/ e.fin THEN e ELSE [e EXCEPT !.out = @ \o frames]
CloseAfterSend(e) ==
  IF e.fin THEN e ELSE [e EXCEPT !.out = Append(@, Fin), !.fin = TRUE]

Without(streams, id) == [i \in DOMAIN streams \ {id} |-> streams[i]]
Put(streams, id, st) == [i \in DOMAIN streams \union {id} |-> IF i = id THEN st ELSE streams[i]]
Nothing == [i \in {} |-> 0]

Overflows(e) == e.sendWindow > MaxWindow \/ \E id \in DOMAIN e.streams : e.streams[id].sendWindow > MaxWindow

\* Both sides start from the defaults of the protocol.
Endpoint ==
  [gotSettings |-> FALSE, cont |-> 0, contEnd |-> FALSE, recvWindow |-> ConnWindow, recvUnacked |-> 0,
   streams |-> Nothing, peerWindow |-> DefaultWindow, sendWindow |-> DefaultWindow,
   goAway |-> FALSE, closed |-> FALSE, out |-> <<>>, fin |-> FALSE, open |-> TRUE, blames |-> {}]

-----------------------------------------------------------------------------
(* Sending bodies as the windows allow.  buf is the local out of the       *)
(* callers, which is not sent before they say so.                          *)

endStreamLocked(e, id) ==
  LET st == e.streams[id]
  IN [e EXCEPT !.streams[id].localDone = TRUE, !.streams[id].trailer = FALSE,
               !.buf = IF st.trailer THEN @ \o h2AppendHeaderBlock(id, -1, st.fields, TRUE, FALSE) ELSE @]

RECURSIVE flushStreamLocked(_, _)
flushStreamLocked(e, id) ==
  LET st == e.streams[id]
      n == Min({st.pending, e.sendWindow, st.sendWindow, MaxFrame})
      last == n = st.pending
      sent == [e EXCEPT !.streams[id].pending = @ - n, !.streams[id].sendWindow = @ - n,
                        !.sendWindow = @ - n,
                        !.buf = Append(@, Frame("DATA", id, n, last /\ ~st.trailer, ""))]
  IN IF st.pending = 0 \/ n <= 0 THEN e
     ELSE IF last THEN endStreamLocked(sent, id) ELSE flushStreamLocked(sent, id)

\* The orders in which a loop over the streams may meet them.
Orders(e) == SetToSeqs({id \in DOMAIN e.streams : e.streams[id].pending > 0})

-----------------------------------------------------------------------------
(* The server: streams come and go.                                        *)

newH2ServerConn ==
  Endpoint @@ [maxClientID |-> 0, peerGoingAway |-> FALSE, lastStreamID |-> 0, pushEnabled |-> TRUE,
               nextPushID |-> 2, peerMaxPush |-> 2 * MaxStreams, pushedStreams |-> 0,
               buf |-> <<>>, served |-> <<>>]

start(s) ==
  sendLocked(s, <<h2AppendSettings(StreamWindow, FALSE, MaxStreams),
                  h2AppendWindowUpdate(0, ConnWindow - DefaultWindow)>>)

\* h2ServerStream, of a request or of a promise.
h2ServerStream(s, pushed) ==
  [fields |-> "trailer", pushed |-> pushed, req |-> FALSE, remoteDone |-> pushed, responded |-> FALSE, localDone |-> FALSE,
   trailer |-> FALSE, sendWindow |-> s.peerWindow, pending |-> 0,
   recvWindow |-> StreamWindow, recvUnacked |-> 0, body |-> 0, declared |-> -1]

forgetLockedMutant(s, id) ==
  IF id \notin DOMAIN s.streams THEN s ELSE [s EXCEPT !.streams = Without(@, id)]

forgetLocked(s, id) ==
  IF id \notin DOMAIN s.streams THEN s
  ELSE [s EXCEPT !.streams = Without(@, id),
                 !.pushedStreams = IF s.streams[id].pushed THEN @ - 1 ELSE @]

closeFinishedLocked(s) ==
  IF s.closed \/ ~(s.goAway \/ s.peerGoingAway) \/ s.streams # Nothing THEN s
  ELSE CloseAfterSend([s EXCEPT !.closed = TRUE])

finishStreamLocked(s, id) ==
  LET st == s.streams[id]
  IN IF ~st.localDone THEN s
     ELSE closeFinishedLocked(forgetLocked(
            IF st.remoteDone THEN s ELSE sendLocked(s, <<h2AppendRSTStream(id, "NO_ERROR")>>), id))

\* flushLocked, and then the callers' sendLocked of what it gave them.
flushLocked(s, order) ==
  LET one(e, id) == IF e.sendWindow <= 0 THEN e ELSE finishStreamLocked(flushStreamLocked(e, id), id)
  IN FoldLeft(one, s, order)
sendBuf(s) == [sendLocked(s, s.buf) EXCEPT !.buf = <<>>]

resetStream(s, id, code) ==
  closeFinishedLocked(sendLocked(forgetLocked([s EXCEPT !.blames = @ \union {code}], id),
                                 <<h2AppendRSTStream(id, code)>>))

fail(s, code) ==
  IF s.closed THEN s
  ELSE LET t == sendLocked(s, <<h2AppendGoAway(s.lastStreamID)>>)
       IN CloseAfterSend([t EXCEPT !.closed = TRUE, !.goAway = TRUE, !.streams = Nothing,
                                   !.blames = @ \union {code}])

shutdown(s) == [s EXCEPT !.closed = TRUE, !.streams = Nothing]

\* The response to a stream: r.body units, a trailer or not, and whether the
\* connection is to close.
respond(s, id, r) ==
  IF s.closed \/ id \notin DOMAIN s.streams \/ s.streams[id].responded THEN s
  ELSE LET head == [s EXCEPT !.streams[id].responded = TRUE, !.streams[id].trailer = r.trailer,
                             !.streams[id].pending = r.body,
                             !.buf = h2AppendHeaderBlock(id, r.body, "response", r.body = 0 /\ ~r.trailer, r.long)]
           body == IF r.body = 0 THEN endStreamLocked(head, id) ELSE flushStreamLocked(head, id)
           bye == IF r.close /\ ~s.goAway
                  THEN [body EXCEPT !.goAway = TRUE, !.buf = Append(@, h2AppendGoAway(s.lastStreamID))]
                  ELSE body
       IN closeFinishedLocked(finishStreamLocked(sendBuf(bye), id))

reject(s, id) ==
  respond([s EXCEPT !.streams[id].body = 0], id, [body |-> 1, trailer |-> FALSE, long |-> FALSE, close |-> FALSE])

\* The request is whole: the handler runs, if there is still someone to answer.
finishRequest(s, id) ==
  LET st == s.streams[id]
      t == [s EXCEPT !.streams[id].remoteDone = TRUE]
  IN IF st.declared >= 0 /\ st.declared # st.body THEN resetStream(s, id, "PROTOCOL_ERROR")
     ELSE IF st.localDone THEN forgetLocked(t, id)
     ELSE IF ~st.req THEN t
     ELSE [t EXCEPT !.served = Append(@, [id |-> id, body |-> st.body]), !.streams[id].body = 0]

-----------------------------------------------------------------------------
(* The server: frames arrive.                                              *)

\* The fields of a request that newRequest tells apart: method (CONNECT apart),
\* scheme, authority and path, an unknown pseudo-header, a hop-by-hop or TE field,
\* any other.
Pseudo == {"method", "CONNECT", "scheme", "authority", "path", "unknown"}
newRequest(fields) ==
  LET has(f) == Contains(fields, f)
      n == Len(fields)
      slot(i) == IF fields[i] = "CONNECT" THEN "method" ELSE fields[i]
  IN /\ \A i, j \in 1..n : i < j /\ fields[j] \in Pseudo => fields[i] \in Pseudo /\ slot(i) # slot(j)
     /\ ~has("unknown") /\ ~has("hop")
     /\ \/ has("CONNECT") /\ has("authority") /\ ~has("scheme") /\ ~has("path")
        \/ has("method") /\ has("scheme") /\ has("path")

applySettingsLockedMutant(s, f) ==
  [s EXCEPT !.pushEnabled = f.x.push, !.peerMaxPush = f.x.streams, !.peerWindow = f.n]

applySettingsLocked(s, f) ==
  [s EXCEPT !.pushEnabled = f.x.push, !.peerMaxPush = f.x.streams, !.peerWindow = f.n,
            !.streams = [i \in DOMAIN @ |-> [@[i] EXCEPT !.sendWindow = @ + f.n - s.peerWindow]]]

handleSettings(s, f, order) ==
  LET t == applySettingsLocked(s, f)
  IN IF f.n > MaxWindow \/ Overflows(t) THEN fail(t, "FLOW_CONTROL_ERROR")
     ELSE closeFinishedLocked(sendBuf(flushLocked([t EXCEPT !.buf = <<SettingsAck>>], order)))

idleLocked(s, id) == IF id % 2 = 0 THEN id >= s.nextPushID ELSE id > s.maxClientID

handleWindowUpdate(s, f, order) ==
  LET t == IF f.id = 0 THEN [s EXCEPT !.sendWindow = @ + f.n]
           ELSE [s EXCEPT !.streams[f.id].sendWindow = @ + f.n]
      blamed(e, code) == IF f.id = 0 THEN fail(e, code) ELSE resetStream(e, f.id, code)
  IN IF f.id # 0 /\ idleLocked(s, f.id) THEN fail(s, "PROTOCOL_ERROR")
     ELSE IF f.id # 0 /\ f.id \notin DOMAIN s.streams THEN s
     ELSE IF f.n = 0 THEN blamed(s, "PROTOCOL_ERROR")
     ELSE IF Overflows(t) THEN blamed(t, "FLOW_CONTROL_ERROR")
     ELSE closeFinishedLocked(sendBuf(flushLocked(t, order)))

handleRSTStream(s, f) ==
  IF idleLocked(s, f.id) THEN fail(s, "PROTOCOL_ERROR") ELSE closeFinishedLocked(forgetLocked(s, f.id))

connGrantMutant(e) ==
  IF e.recvUnacked <= ConnWindow \div 2 THEN e
  ELSE [sendLocked(e, <<h2AppendWindowUpdate(0, ConnWindow \div 2)>>)
          EXCEPT !.recvWindow = @ + e.recvUnacked, !.recvUnacked = 0]

\* Half a window has arrived since it was last granted.
connGrant(e) ==
  IF e.recvUnacked < ConnWindow \div 2 THEN e
  ELSE [sendLocked(e, <<h2AppendWindowUpdate(0, e.recvUnacked)>>)
          EXCEPT !.recvWindow = @ + e.recvUnacked, !.recvUnacked = 0]
streamGrant(e, id) ==
  LET st == e.streams[id]
  IN IF st.recvUnacked < StreamWindow \div 2 THEN e
     ELSE [sendLocked(e, <<h2AppendWindowUpdate(id, st.recvUnacked)>>)
             EXCEPT !.streams[id].recvWindow = @ + st.recvUnacked, !.streams[id].recvUnacked = 0]

handleData(s, f) ==
  LET taken == [s EXCEPT !.recvWindow = @ - f.n, !.recvUnacked = @ + f.n]
      t == connGrant(taken)
      st == t.streams[f.id]
      u == [t EXCEPT !.streams[f.id].recvWindow = @ - f.n, !.streams[f.id].recvUnacked = @ + f.n]
      v == [u EXCEPT !.streams[f.id].body = @ + f.n]
  IN IF f.n > s.recvWindow THEN fail(s, "FLOW_CONTROL_ERROR")
     ELSE IF f.id % 2 = 0 \/ f.id > s.maxClientID THEN fail(taken, "PROTOCOL_ERROR")
     ELSE IF f.id \notin DOMAIN t.streams THEN t
     ELSE IF st.remoteDone THEN resetStream(t, f.id, "STREAM_CLOSED")
     ELSE IF f.n > st.recvWindow THEN resetStream(t, f.id, "FLOW_CONTROL_ERROR")
     ELSE IF st.body + f.n > MaxBody THEN reject(u, f.id)
     ELSE IF f.end THEN finishRequest(v, f.id)
     ELSE streamGrant(v, f.id)

handleTrailers(s, id, x, end) ==
  LET st == s.streams[id]
  IN IF st.remoteDone THEN resetStream(s, id, "STREAM_CLOSED")
     ELSE IF ~end \/ ~st.req THEN resetStream(s, id, "PROTOCOL_ERROR")
     ELSE IF x.large THEN reject(s, id)
     ELSE IF \E i \in 1..Len(x.fields) : x.fields[i] \in Pseudo THEN resetStream(s, id, "PROTOCOL_ERROR")
     ELSE finishRequest(s, id)

\* n is the Content-Length, or -1.
openRequest(s, id, n, x, end) ==
  LET known == [s EXCEPT !.streams = Put(@, id, h2ServerStream(s, FALSE)), !.lastStreamID = id]
      t == [known EXCEPT !.streams[id].req = TRUE]
      u == [t EXCEPT !.streams[id].declared = n]
  IN IF x.large THEN reject(known, id)
     ELSE IF ~newRequest(x.fields) THEN resetStream(known, id, "MALFORMED")
     ELSE IF n > MaxBody THEN reject(t, id)
     ELSE IF end THEN finishRequest(u, id)
     ELSE IF Contains(x.fields, "expect") THEN sendLocked(u, h2AppendHeaderBlock(id, -1, "interim", FALSE, FALSE))
     ELSE u

\* Streams the client has open, which is what MaxConcurrentStreams limits.
openStreams(s) == Cardinality(DOMAIN s.streams) - s.pushedStreams

takesNoMoreMutant(s) == s.closed \/ s.peerGoingAway
takesNoMore(s) == s.closed \/ s.goAway \/ s.peerGoingAway

handleHeaderBlock(s, id, n, x, end) ==
  LET t == [s EXCEPT !.maxClientID = id]
  IN IF id \in DOMAIN s.streams THEN handleTrailers(s, id, x, end)
     ELSE IF id <= s.maxClientID THEN s
     ELSE IF takesNoMore(s) THEN t
     ELSE IF openStreams(s) >= MaxStreams
     THEN sendLocked(t, <<h2AppendRSTStream(id, "REFUSED_STREAM")>>)
     ELSE openRequest(t, id, n, x, end)

handleHeaders(s, f) ==
  IF f.id = 0 \/ f.id % 2 = 0 THEN fail(s, "PROTOCOL_ERROR")
  ELSE IF f.more THEN [s EXCEPT !.cont = f.id, !.contEnd = f.end]
  ELSE handleHeaderBlock(s, f.id, f.n, f.x, f.end)

handleContinuation(s, f) ==
  IF s.cont = 0 THEN fail(s, "PROTOCOL_ERROR")
  ELSE handleHeaderBlock([s EXCEPT !.cont = 0], s.cont, f.n, f.x, s.contEnd)

handleGoAway(s) == closeFinishedLocked([s EXCEPT !.peerGoingAway = TRUE])

handleFrame(s0, f, order) ==
  LET s == [s0 EXCEPT !.gotSettings = TRUE]
  IN IF s.cont # 0 /\ (f.t # "CONTINUATION" \/ f.id # s.cont) THEN fail(s0, "PROTOCOL_ERROR")
     ELSE IF ~s0.gotSettings /\ f.t # "SETTINGS" THEN fail(s0, "PROTOCOL_ERROR")
     ELSE CASE f.t = "DATA" -> handleData(s, f)
            [] f.t = "HEADERS" -> handleHeaders(s, f)
            [] f.t = "CONTINUATION" -> handleContinuation(s, f)
            [] f.t = "RST_STREAM" -> handleRSTStream(s, f)
            [] f.t = "SETTINGS" -> handleSettings(s, f, order)
            [] f.t = "SETTINGS_ACK" -> s
            [] f.t = "GOAWAY" -> handleGoAway(s)
            [] f.t = "WINDOW_UPDATE" -> handleWindowUpdate(s, f, order)
            [] f.t = "PUSH_PROMISE" -> fail(s, "PROTOCOL_ERROR")

\* push, up to the call of the handler for the promised request.
push(s, id) ==
  LET p == s.nextPushID
      t == [s EXCEPT !.nextPushID = @ + 2, !.pushedStreams = @ + 1,
                     !.streams = Put(@, p, [h2ServerStream(s, TRUE) EXCEPT !.req = TRUE])]
  IN IF \/ ~s.pushEnabled
        \/ s.closed \/ s.goAway \/ s.peerGoingAway \/ id \notin DOMAIN s.streams
        \/ s.streams[id].pushed \/ s.streams[id].localDone
        \/ s.pushedStreams >= s.peerMaxPush
     THEN s
     ELSE [sendLocked(t, <<h2AppendPushPromise(id, p)>>) EXCEPT !.served = Append(@, [id |-> p, body |-> 0])]

-----------------------------------------------------------------------------
(* The client.  told holds the settings it announced that the server has   *)
(* not acknowledged, and window the last one it has.                       *)

startH2(enablePush) ==
  LET c == Endpoint @@ [nextID |-> 1, maxStreams |-> InitialMaxStreams, buf |-> <<>>, ended |-> <<>>,
                        window |-> StreamWindow, told |-> <<[window |-> StreamWindow, limit |-> 2 * MaxStreams]>>,
                        pushLimit |-> 2 * MaxStreams]
  IN sendLocked(c, <<h2AppendSettings(StreamWindow, enablePush, 2 * MaxStreams),
                     h2AppendWindowUpdate(0, ConnWindow - DefaultWindow)>>)

\* A stream is over: how it ended is left for the caller in HttpClient.
Ends(c, id, how) ==
  [c EXCEPT !.streams = Without(@, id),
            !.ended = Append(@, [id |-> id, how |-> how, body |-> c.streams[id].body])]

closeIfDoneLocked(c) ==
  IF c.goAway /\ ~c.closed /\ c.streams = Nothing THEN CloseAfterSend(c) ELSE c

h2ClientStream(c, q) ==
  [recvWindow |-> c.window, recvUnacked |-> 0, sendWindow |-> c.peerWindow, pending |-> q.body,
   localDone |-> FALSE, trailer |-> q.trailer, fields |-> [fields |-> <<"other">>, large |-> FALSE],
   resp |-> FALSE, body |-> 0, declared |-> -1]

clientSendBuf(c) == [sendLocked(c, c.buf) EXCEPT !.buf = <<>>]

send(c, q) ==
  LET id == c.nextID
      t == [c EXCEPT !.nextID = @ + 2, !.streams = Put(@, id, h2ClientStream(c, q)),
                     !.buf = h2AppendHeaderBlock(id, q.declared, q.x, q.body = 0 /\ ~q.trailer, q.long)]
  IN clientSendBuf(IF q.body = 0 THEN endStreamLocked(t, id) ELSE flushStreamLocked(t, id))

clientFlushLocked(c, order) ==
  FoldLeft(LAMBDA e, id : IF e.sendWindow <= 0 THEN e ELSE flushStreamLocked(e, id), c, order)

endStream(c, id, retry) ==
  closeIfDoneLocked(IF id \in DOMAIN c.streams THEN Ends(c, id, IF retry THEN "retry" ELSE "failed") ELSE c)

clientReset(c, id, code) ==
  endStream(sendLocked([c EXCEPT !.blames = @ \union {code}], <<h2AppendRSTStream(id, code)>>), id, FALSE)

clientFail(c, code) ==
  CloseAfterSend([sendLocked(c, <<h2AppendGoAway(0)>>) EXCEPT !.goAway = TRUE, !.blames = @ \union {code}])

clientSettings(c, f, order) ==
  LET t == [c EXCEPT !.peerWindow = f.n, !.maxStreams = f.x.streams, !.buf = <<SettingsAck>>,
                     !.streams = [i \in DOMAIN @ |-> [@[i] EXCEPT !.sendWindow = @ + f.n - c.peerWindow]]]
  IN IF f.n > MaxWindow \/ Overflows(t) THEN clientFail(t, "FLOW_CONTROL_ERROR")
     ELSE clientSendBuf(clientFlushLocked(t, order))

clientWindowUpdateMutant(c, f, order) ==
  IF f.id = 0 THEN [c EXCEPT !.sendWindow = @ + f.n]
  ELSE IF f.id \in DOMAIN c.streams THEN [c EXCEPT !.streams[f.id].sendWindow = @ + f.n]
  ELSE c

clientWindowUpdate(c, f, order) ==
  LET t == IF f.id = 0 THEN [c EXCEPT !.sendWindow = @ + f.n]
           ELSE IF f.id \in DOMAIN c.streams THEN [c EXCEPT !.streams[f.id].sendWindow = @ + f.n]
           ELSE c
      blamed(e, code) == IF f.id = 0 THEN clientFail(e, code) ELSE clientReset(e, f.id, code)
  IN IF f.n = 0 /\ f.id \in {0} \union DOMAIN c.streams THEN blamed(c, "PROTOCOL_ERROR")
     ELSE IF Overflows(t) THEN blamed(t, "FLOW_CONTROL_ERROR")
     ELSE clientSendBuf(clientFlushLocked(t, order))

\* resetStream with a response that is larger than the client wants.
tooLarge(c, id) == endStream(sendLocked(c, <<h2AppendRSTStream(id, "CANCEL")>>), id, FALSE)

complete(c, id) ==
  LET st == c.streams[id]
  IN IF st.declared >= 0 /\ st.declared # st.body THEN clientReset(c, id, "PROTOCOL_ERROR")
     ELSE closeIfDoneLocked(Ends(IF st.localDone THEN c
                                 ELSE sendLocked(c, <<h2AppendRSTStream(id, "CANCEL")>>), id, "done"))

clientGoAway(c, last) ==
  LET gone == {id \in DOMAIN c.streams : id > last}
  IN closeIfDoneLocked(FoldLeft(LAMBDA e, id : Ends(e, id, "retry"), [c EXCEPT !.goAway = TRUE],
                                SetToSortSeq(gone, <)))

clientData(c, f) ==
  LET t == connGrant([c EXCEPT !.recvWindow = @ - f.n, !.recvUnacked = @ + f.n])
      st == t.streams[f.id]
      u == [t EXCEPT !.streams[f.id].recvWindow = @ - f.n, !.streams[f.id].recvUnacked = @ + f.n,
                     !.streams[f.id].body = @ + f.n]
  IN IF f.n > c.recvWindow THEN clientFail(c, "FLOW_CONTROL_ERROR")
     ELSE IF f.id \notin DOMAIN t.streams THEN t
     ELSE IF ~st.resp THEN clientReset(t, f.id, "PROTOCOL_ERROR")
     ELSE IF f.n > st.recvWindow THEN clientReset(t, f.id, "FLOW_CONTROL_ERROR")
     ELSE IF st.body + f.n > MaxResponseBody THEN tooLarge(u, f.id)
     ELSE IF f.end THEN complete(u, f.id)
     ELSE streamGrant(u, f.id)

clientHeaderBlock(c, f, end) ==
  LET t == [c EXCEPT !.streams[f.id].resp = TRUE, !.streams[f.id].declared = f.n]
  IN IF f.id \notin DOMAIN c.streams THEN c
     ELSE IF c.streams[f.id].resp
     THEN IF end THEN complete(c, f.id) ELSE clientReset(c, f.id, "PROTOCOL_ERROR")
     ELSE IF f.x = "interim" THEN IF end THEN clientReset(c, f.id, "PROTOCOL_ERROR") ELSE c
     ELSE IF f.n > MaxResponseBody THEN tooLarge(c, f.id)
     ELSE IF end THEN complete(t, f.id) ELSE t

cancel(c, id) ==
  closeIfDoneLocked(sendLocked(Ends(c, id, "cancelled"), <<h2AppendRSTStream(id, "CANCEL")>>))

clientShutdown(c) ==
  [FoldLeft(LAMBDA e, id : Ends(e, id, "lost"), c, SetToSortSeq(DOMAIN c.streams, <)) EXCEPT !.closed = TRUE]

\* A client that allows pushes counts them against its limit; this one charges the
\* server.
Promised(c, f) ==
  IF ~plan.foreign THEN clientFail(c, "PROTOCOL_ERROR")
  ELSE IF Cardinality({id \in DOMAIN c.streams : id % 2 = 0}) >= c.pushLimit
  THEN clientFail(c, "PUSH_LIMIT")
  ELSE LET st == h2ClientStream(c, [body |-> 0, trailer |-> FALSE])
       IN [c EXCEPT !.streams = Put(@, f.n, [st EXCEPT !.localDone = TRUE])]

\* The server has the settings told first: from here on they bind it.
Acknowledged(c) ==
  [c EXCEPT !.told = Tail(@), !.window = Head(c.told).window, !.pushLimit = Head(c.told).limit,
            !.streams = [i \in DOMAIN @ |-> [@[i] EXCEPT !.recvWindow = @ + Head(c.told).window - c.window]]]

clientFrame(c0, f, order) ==
  LET c == [c0 EXCEPT !.gotSettings = TRUE]
  IN IF c.cont # 0 /\ (f.t # "CONTINUATION" \/ f.id # c.cont) THEN clientFail(c0, "PROTOCOL_ERROR")
     ELSE IF ~c0.gotSettings /\ f.t # "SETTINGS" THEN clientFail(c0, "PROTOCOL_ERROR")
     ELSE CASE f.t = "DATA" -> clientData(c, f)
            [] f.t = "HEADERS" -> IF f.more THEN [c EXCEPT !.cont = f.id, !.contEnd = f.end]
                                  ELSE clientHeaderBlock(c, f, f.end)
            [] f.t = "CONTINUATION" -> IF c.cont = 0 THEN clientFail(c, "PROTOCOL_ERROR")
                                       ELSE clientHeaderBlock([c EXCEPT !.cont = 0], f, c.contEnd)
            [] f.t = "RST_STREAM" -> endStream(c, f.id, f.x = "REFUSED_STREAM")
            [] f.t = "SETTINGS" -> clientSettings(c, f, order)
            [] f.t = "SETTINGS_ACK" -> Acknowledged(c)
            [] f.t = "GOAWAY" -> clientGoAway(c, f.n)
            [] f.t = "WINDOW_UPDATE" -> clientWindowUpdate(c, f, order)
            [] f.t = "PUSH_PROMISE" -> Promised(c, f)

-----------------------------------------------------------------------------
(* The connection.                                                         *)

\* upgradeH2C: the request of HTTP/1.1 becomes stream 1, and its settings count.
upgradeH2C ==
  LET s == start(applySettingsLocked(newH2ServerConn, h2AppendSettings(StreamWindow, TRUE, 2 * MaxStreams)))
      st == [h2ServerStream(s, FALSE) EXCEPT !.req = TRUE, !.remoteDone = TRUE]
  IN [s EXCEPT !.maxClientID = 1, !.lastStreamID = 1, !.streams = Put(@, 1, st)]

\* The client that asked for it has its connection preface on the way.
UpgradedClient ==
  LET c == startH2(TRUE)
      st == h2ClientStream(c, [body |-> 0, trailer |-> FALSE])
  IN [c EXCEPT !.nextID = 3, !.streams = Put(@, 1, [st EXCEPT !.localDone = TRUE])]

Init ==
  /\ plan \in Plans
  /\ \E s \in {IF plan.upgrade THEN upgradeH2C ELSE start(newH2ServerConn)} :
     \E c \in {IF plan.upgrade THEN UpgradedClient ELSE startH2(plan.foreign)} :
       /\ server = [s EXCEPT !.out = <<>>] /\ down = s.out
       /\ client = [c EXCEPT !.out = <<>>] /\ up = c.out
  /\ log = [served |-> {}, app |-> IF plan.upgrade THEN {1} ELSE {}, ended |-> <<>>]

Spend(field) == plan[field] > 0 /\ plan' = [plan EXCEPT ![field] = @ - 1]

\* The server goes on to s, and in is what is left for it to read.  Nobody reads what
\* is sent to an end that has closed.
Server(s, in) ==
  /\ server' = [s EXCEPT !.out = <<>>, !.served = <<>>]
  /\ down' = IF client.open THEN down \o s.out ELSE <<>>
  /\ up' = in
  /\ UNCHANGED client

Client(c, in) ==
  /\ client' = [c EXCEPT !.out = <<>>, !.ended = <<>>]
  /\ up' = IF server.open THEN up \o c.out ELSE <<>>
  /\ down' = in
  /\ log' = [log EXCEPT !.ended = @ \o c.ended]
  /\ UNCHANGED server

\* The handlers started in s run.
Serves(s, app) ==
  log' = [log EXCEPT !.served = @ \union Range(s.served), !.app = app \union {q.id : q \in Range(s.served)}]

\* OnData, for one frame.
ServerReads ==
  /\ up # <<>> /\ Head(up).t # "FIN"
  /\ \E order \in Orders(server) : \E s \in {handleFrame(server, Head(up), order)} :
       Server(s, Tail(up)) /\ Serves(s, log.app)
  /\ UNCHANGED plan

ClientReads ==
  /\ down # <<>> /\ Head(down).t # "FIN"
  /\ \E order \in Orders(client) : Client(clientFrame(client, Head(down), order), Tail(down))
  /\ UNCHANGED plan

\* OnClose: the other side has closed, or everything is written after CloseAfterSend.
ServerCloses ==
  /\ server.open /\ (server.fin \/ (up # <<>> /\ Head(up).t = "FIN"))
  /\ Server([shutdown(CloseAfterSend(server)) EXCEPT !.open = FALSE], <<>>)
  /\ UNCHANGED <<plan, log>>

ClientCloses ==
  /\ client.open /\ (client.fin \/ (down # <<>> /\ Head(down).t = "FIN"))
  /\ Client([clientShutdown(CloseAfterSend(client)) EXCEPT !.open = FALSE], <<>>)
  /\ UNCHANGED plan

\* The connection breaks: both ends close, and what was on its way is lost.
Break ==
  /\ server.open /\ client.open /\ Spend("breaks")
  /\ \E c \in {clientShutdown(client)} :
       /\ client' = [c EXCEPT !.open = FALSE, !.ended = <<>>]
       /\ log' = [log EXCEPT !.ended = @ \o c.ended]
  /\ server' = [shutdown(server) EXCEPT !.open = FALSE]
  /\ up' = <<>> /\ down' = <<>>

\* A handler answers, in its own time; what it still may do then changes nothing.
Respond(id) ==
  /\ \E r \in plan.replies : \E s \in {respond(server, id, r)} :
       Server(s, up) /\ Serves(s, log.app \ {id})
  /\ UNCHANGED plan

Push(id) ==
  /\ Spend("pushes")
  /\ \E s \in {push(server, id)} : Server(s, up) /\ Serves(s, log.app)

\* The client has room for another request, or gives one up.
Ask ==
  /\ plan.asks # <<>> /\ Cardinality(DOMAIN client.streams) < client.maxStreams
  /\ client.open /\ ~client.goAway /\ ~client.closed
  /\ Client(send(client, Head(plan.asks)), down)
  /\ plan' = [plan EXCEPT !.asks = Tail(@)]

Cancel(id) == Spend("cancels") /\ Client(cancel(client, id), down)

\* What a client of another make does: it changes its settings and goes away.  Its
\* windows may be small: the constants keep half a StreamWindow at one byte at most.
Retune ==
  /\ plan.tunes # <<>> /\ client.open /\ ~client.fin
  /\ LET t == Head(plan.tunes)
     IN Client([sendLocked(client, <<h2AppendSettings(t.window, TRUE, t.limit)>>)
                  EXCEPT !.told = Append(@, t)], down)
  /\ plan' = [plan EXCEPT !.tunes = Tail(@)]

Leaves ==
  /\ client.open /\ Spend("leaves")
  /\ Client(closeIfDoneLocked([sendLocked(client, <<h2AppendGoAway(0)>>) EXCEPT !.goAway = TRUE]), down)

Working ==
  \/ ServerReads \/ ClientReads \/ ServerCloses \/ ClientCloses
  \/ \E id \in log.app : Respond(id)
  \/ Ask \/ Retune

Next ==
  \/ Working
  \/ Break
  \/ \E id \in log.app : Push(id)
  \/ \E id \in DOMAIN client.streams : Cancel(id)
  \/ Leaves

Spec == Init /\ [][Next]_vars

\* Frames are read and closes noticed by the engine, handlers answer: while one of
\* these can happen, a step is taken.  This is WF_vars(Working), for the plan
\* allows only so many of the other steps.
CanWork ==
  \/ up # <<>> \/ down # <<>> \/ log.app # {}
  \/ server.open /\ server.fin
  \/ client.open /\ client.fin
  \/ /\ plan.asks # <<>> /\ Cardinality(DOMAIN client.streams) < client.maxStreams
     /\ client.open /\ ~client.goAway /\ ~client.closed
  \/ plan.tunes # <<>> /\ client.open /\ ~client.fin

FairSpec == Spec /\ ([]<>~CanWork \/ []<><<TRUE>>_vars)

-----------------------------------------------------------------------------
(* Properties.                                                             *)

Flight(ch, t, ids) ==
  LET sum[i \in 0..Len(ch)] ==
        IF i = 0 THEN 0 ELSE sum[i - 1] + (IF ch[i].t = t /\ ch[i].id \in ids THEN ch[i].n ELSE 0)
  IN sum[Len(ch)]
Ids == 0..20

Up == server.open /\ client.open /\ ~server.fin /\ ~client.fin

\* Neither end ever charges the other with a violation of the protocol: whatever
\* the order of frames, answers, cancellations, new settings and pushes, no frame
\* exceeds a window, meets an idle stream or interrupts a header block.  Only a
\* request that is malformed is.
NeitherAtFault ==
  /\ server.blames \subseteq (IF plan.malformed THEN {"MALFORMED"} ELSE {})
  /\ client.blames = {}

\* Both ends count the same window: what the sender may still send, with what is on
\* its way in DATA, WINDOW_UPDATE and SETTINGS, is what the receiver still takes; and
\* the server counts the streams it pushed and keeps those of the client within
\* MaxConcurrentStreams (handleData, applySettingsLocked, push, forgetLocked).
CountsAgree ==
  /\ server.pushedStreams = Cardinality({id \in DOMAIN server.streams : server.streams[id].pushed})
  /\ Cardinality({id \in DOMAIN server.streams : id % 2 = 1}) <= MaxStreams
  /\ Up =>
       /\ server.sendWindow + Flight(down, "DATA", Ids) + Flight(up, "WINDOW_UPDATE", {0}) = client.recvWindow
       /\ client.sendWindow + Flight(up, "DATA", Ids) + Flight(down, "WINDOW_UPDATE", {0}) = server.recvWindow
       /\ \A id \in DOMAIN server.streams \cap DOMAIN client.streams :
            LET st == server.streams[id]
                ct == client.streams[id]
            IN st.sendWindow - server.peerWindow + Flight(down, "DATA", {id}) + Flight(up, "WINDOW_UPDATE", {id})
                 = ct.recvWindow - client.window

\* A handler runs once for a stream, on a request that has arrived whole, and never
\* for one that the client was told it may send again (handleHeaderBlock,
\* finishRequest, handleGoAway of the client).
ServedWhole ==
  /\ \A a, b \in log.served : a.id = b.id => a = b
  /\ \A a \in log.served : a.id % 2 = 1 => a.body = plan.bodies[a.id]
  /\ \A i \in 1..Len(log.ended) :
       log.ended[i].how = "retry" => \A a \in log.served : a.id # log.ended[i].id

\* Every stream of the client ends: windows are granted for what is blocked, and
\* connections that retire close.
StreamsEnd ==
  LET waits == client.streams # Nothing
  IN waits ~> ~waits

\* A connection that retires gracefully finishes what is open (respond): closed by
\* closeFinishedLocked, it has sent every response to its end.
RetiresGracefully ==
  \A i \in 1..Len(log.ended) : log.ended[i].how # "lost"
=============================================================================
