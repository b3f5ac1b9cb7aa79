----------------------------- MODULE HttpClient -----------------------------
(***************************************************************************)
(* The HTTP client (http/client.go) with its HTTP/2 connections            *)
(* (http/h2_client.go): requests wait for a connection, connections are    *)
(* dialed, kept idle, reused, shared by streams, retired and forgotten,    *)
(* and every request is called back once.                                  *)
(*                                                                         *)
(* A goroutine is a sequence of jobs: what it has still to do before the   *)
(* calls it is in return.  A step takes the first job and carries out one  *)
(* critical section (of Client.mu, clientConn.mu, clientRequest.mu or      *)
(* h2ClientConn.mu) or one call into the engine, and puts the calls that   *)
(* follow in front of the rest.  One host is modelled, for hosts share     *)
(* nothing but the lock.  The engine, TLS and the server are external.     *)
(***************************************************************************)
EXTENDS Integers, Sequences, FiniteSets, SequencesExt

CONSTANTS Requests, Conns, None,
          Idempotent,           \* the requests whose method may be repeated
          MaxConnsPerHost, MaxIdleConnsPerHost,
          InitialMaxStreams,    \* h2InitialMaxStreams
          Modes                 \* what the world may do, one of these

\* What can go wrong around the client: a request or its fields are rejected, a
\* dial or a connect fails, a response ends the connection or comes in parts, a
\* stream is refused, a connection goes away, bytes are unasked for, it ends.
Oddities == {"reject", "dial", "connect", "reply", "part", "refuse", "goaway", "speak", "end"}

ASSUME ModesAssumption ==
  \A m \in Modes :
    /\ m.proto \in {"http1", "tls1", "h2", "h2c"}
    /\ m.asks \subseteq Requests
    /\ {m.odd, m.closes, m.expires} \subseteq Nat /\ m.aborts \subseteq Requests /\ m.may \subseteq Oddities

VARIABLES
  mode,       \* the protocol, and what the world may still do
  closed,     \* Client.closed
  host,       \* hostPool
  cc,         \* clientConn, by connection; stranded is history: it keeps its place
  hc,         \* h2ClientConn, by connection
  rq,         \* clientRequest, by request; lost is history: how it lost its way
  jobs,       \* by goroutine, what it still has to do
  net,        \* the engine's connection and the server's end
  processed   \* by request, how often the server acted on it

vars == <<mode, closed, host, cc, hc, rq, jobs, net, processed>>

\* The goroutines: callers of Do, timers and contexts, those started with go,
\* workers, idle timers, TLS handshakes, the event loop and the caller of Close.
Procs == ({"do", "timer", "late"} \X Requests)
           \union ({"worker", "idle", "hand"} \X Conns)
           \union ({"loop", "closer"} \X {None})
Loop == <<"loop", None>>

Job(op, c, r, x) == [op |-> op, c |-> c, r |-> r, x |-> x]
At(p, op) == jobs[p] # <<>> /\ Head(jobs[p]).op = op
Todo(p) == Head(jobs[p])

\* The first job of p is done, and s is what it leads to.
Then(p, s) == jobs' = [jobs EXCEPT ![p] = s \o Tail(@)]
Start(p, s) == jobs[p] = <<>> /\ jobs' = [jobs EXCEPT ![p] = s]

Secure == mode.proto \in {"tls1", "h2"}
mayMultiplex == mode.proto \in {"h2", "h2c", "tls1"}

NewConn == [current |-> None, sent |-> FALSE, reused |-> FALSE, received |-> FALSE,
            closed |-> FALSE, idleTimer |-> FALSE, settled |-> FALSE, h2 |-> FALSE,
            streams |-> 0, maxStreams |-> 0, untilClose |-> FALSE, stranded |-> FALSE]
NewH2 == [streams |-> {}, received |-> {}, nextID |-> 1, goAway |-> FALSE, closed |-> FALSE]

\* The engine's side of a connection: link is the socket, wire the requests on
\* their way as <<stream, request>>, inbox what the server sent and no worker has
\* read, reads whether workers read from it yet, last the highest stream the server
\* takes, clean how it ended.
NewNet == [link |-> "none", wire |-> <<>>, inbox |-> <<>>, reads |-> FALSE, last |-> None, clean |-> TRUE]

Init ==
  /\ mode \in Modes
  /\ closed = FALSE
  /\ host = [open |-> 0, dialing |-> 0, idle |-> <<>>, waiting |-> <<>>, h2 |-> <<>>,
             multiplexed |-> FALSE, probed |-> FALSE]
  /\ cc = [c \in Conns |-> NewConn]
  /\ hc = [c \in Conns |-> NewH2]
  /\ rq = [r \in Requests |-> [asked |-> FALSE, done |-> FALSE, conn |-> None,
                               retried |-> FALSE, streamID |-> 0, got |-> None, calls |-> 0,
                               lost |-> {}]]
  /\ jobs = [p \in Procs |-> <<>>]
  /\ net = [c \in Conns |-> NewNet]
  /\ processed = [r \in Requests |-> 0]

Spend(field) == mode[field] > 0 /\ mode' = [mode EXCEPT ![field] = @ - 1]
Odd(what) == what \in mode.may /\ Spend("odd")

-----------------------------------------------------------------------------
(* Matching requests with connections, under Client.mu.                    *)

Has(s, e) == \E i \in 1..Len(s) : s[i] = e
removeConn(s, c) == SelectSeq(s, LAMBDA m : m # c)

Live(w) == SelectSeq(w, LAMBDA r : ~rq[r].done)
Backwards(s) == [i \in 1..Len(s) |-> s[Len(s) + 1 - i]]

room(k) == k.maxStreams - k.streams

\* The connections that can take requests, in the order the loop over h.waiting
\* gives them out: the HTTP/2 ones, each as often as it has room, then the idle
\* ones from the last.
Slots(h, k) ==
  LET shared[n \in 0..Len(h.h2)] ==
        IF n = 0 THEN <<>> ELSE shared[n - 1] \o [i \in 1..room(k[h.h2[n]]) |-> h.h2[n]]
  IN shared[Len(h.h2)] \o Backwards(h.idle)

Least(a, b) == IF a < b THEN a ELSE b
Most(a, b) == IF a > b THEN a ELSE b

\* How many connections to dial for the requests left over.
dials(h) ==
  LET need == Len(h.waiting) - h.dialing
      fewer == IF h.multiplexed \/ (~h.probed /\ mayMultiplex)
               THEN Least(need, 1 - h.dialing) ELSE need
  IN Most(0, IF MaxConnsPerHost > 0 THEN Least(fewer, MaxConnsPerHost - h.open) ELSE fewer)

\* The pool once the first n requests of live, those that are not settled, have the
\* slots in turn and connections are being dialed for the rest; settled requests
\* before the first that got none are dropped.  work is what carryOut will do.
Dispatched(h, k, slots, live, n) ==
  LET sends == [i \in 1..n |-> Job("send", slots[i], live[i], None)]
      cut == Cardinality({i \in 1..Len(h.waiting) : Len(Live(SubSeq(h.waiting, 1, i))) <= n})
      given == [c \in Conns |-> Cardinality({i \in 1..n : slots[i] = c})]
      left == [h EXCEPT !.waiting = SubSeq(@, cut + 1, Len(@)),
                        !.idle = SelectSeq(@, LAMBDA c : given[c] = 0)]
      new == dials(left)
  IN [host |-> [left EXCEPT !.open = @ + new, !.dialing = @ + new],
      cc |-> [c \in Conns |->
                IF given[c] = 0 THEN k[c]
                ELSE [k[c] EXCEPT !.idleTimer = FALSE,
                                  !.streams = @ + (IF k[c].h2 THEN given[c] ELSE 0)]],
      work |-> sends \o [i \in 1..new |-> Job("dial", None, None, None)]]

\* The one outcome, as a set: a step takes it from there.
dispatchLocked(h, k) ==
  {Dispatched(g, j, slots, live, Least(Len(slots), Len(live))) :
     g \in {h}, j \in {k}, slots \in {Slots(h, k)}, live \in {Live(h.waiting)}}

\* An HTTP/2 connection left without streams: surplus ones are closed, and the
\* idle clock of the others starts.  The result says what dispatchLocked's does.
idleH2Locked(s, c) ==
  LET idle == Cardinality({m \in Conns : Has(s.host.h2, m) /\ s.cc[m].streams = 0})
      surplus == closed \/ idle > MaxIdleConnsPerHost
  IN IF s.cc[c].streams > 0 \/ s.cc[c].idleTimer THEN s
     ELSE IF ~surplus THEN [s EXCEPT !.cc[c].idleTimer = TRUE]
     ELSE IF ~Has(s.host.h2, c) THEN s
     ELSE [s EXCEPT !.host.h2 = removeConn(@, c),
                    !.work = <<Job("discard", c, None, None)>> \o @]

Pool(p, s) == \E new \in {s} : host' = new.host /\ cc' = new.cc /\ Then(p, new.work)

-----------------------------------------------------------------------------
(* Asking, and what follows under Client.mu.                               *)

Go(op, c) == Job(op, c, None, None)
Say(op, r) == Job(op, None, r, None)
Finish(r, answer) == Job("finish", None, r, answer)

\* Do.  A request that cannot be sent is called back at once.
Do(r) ==
  /\ r \in mode.asks /\ ~rq[r].asked
  /\ \/ /\ rq' = [rq EXCEPT ![r].asked = TRUE]
        /\ Start(<<"do", r>>, <<Job("enqueue", None, r, FALSE)>>)
        /\ UNCHANGED mode
     \/ /\ rq' = [rq EXCEPT ![r].asked = TRUE, ![r].done = TRUE, ![r].calls = 1]
        /\ Odd("reject") /\ UNCHANGED jobs
  /\ UNCHANGED <<closed, host, cc, hc, net, processed>>

refuses == closed

enqueue(p) ==
  LET r == Todo(p).r
      h == [host EXCEPT !.waiting = IF Todo(p).x THEN <<r>> \o @ ELSE Append(@, r)]
  IN /\ At(p, "enqueue")
     /\ IF refuses THEN Then(p, <<Finish(r, None)>>) /\ UNCHANGED <<host, cc>>
        ELSE \E s \in dispatchLocked(h, cc) : Pool(p, s)
     /\ UNCHANGED <<mode, closed, hc, rq, net, processed>>

\* A clientConn nobody refers to any more stands for a new one.
Unused(c) ==
  /\ net[c].link \in {"none", "closed"} /\ ~cc[c].stranded /\ ~Has(host.idle, c) /\ ~Has(host.h2, c)
  /\ \A r \in Requests : rq[r].conn # c
  /\ \A p \in Procs : \A i \in 1..Len(jobs[p]) : jobs[p][i].c # c

\* dial.  DialWithHandler may fail on the spot.
dial(p) ==
  /\ At(p, "dial")
  /\ \E c \in Conns : Unused(c)
  /\ LET c == CHOOSE c \in Conns : Unused(c) IN
     /\ cc' = [cc EXCEPT ![c] = NewConn]
     /\ hc' = [hc EXCEPT ![c] = NewH2]
     /\ \/ net' = [net EXCEPT ![c] = [NewNet EXCEPT !.link = "dialing"]]
           /\ Then(p, <<>>) /\ UNCHANGED mode
        \/ net' = [net EXCEPT ![c] = [NewNet EXCEPT !.link = "closed"]]
           /\ Then(p, <<Job("dialed", c, None, FALSE)>>) /\ Odd("dial")
  /\ UNCHANGED <<closed, host, rq, processed>>

\* dialed, under clientConn.mu: only the first report of a dial counts.  A
\* failure that comes second strands the connection: it was taken for open, and
\* nobody forgets it.
dialed(p) ==
  LET c == Todo(p).c IN
  /\ At(p, "dialed")
  /\ Then(p, IF cc[c].settled THEN <<>> ELSE <<Job("settle", c, None, Todo(p).x)>>)
  /\ cc' = [cc EXCEPT ![c].settled = TRUE, ![c].stranded = @ \/ (cc[c].settled /\ ~Todo(p).x)]
  /\ UNCHANGED <<mode, closed, host, hc, rq, net, processed>>

\* A failed dial fails the request that waited longest; settled ones before it go.
Oldest(w) ==
  LET live == {i \in 1..Len(w) : ~rq[w[i]].done}
  IN IF live = {} THEN Len(w) + 1 ELSE CHOOSE i \in live : \A j \in live : i <= j

\* mutant: a failed dial keeps its place.
placesMutant(open) == open
places(open) == open - 1

\* dialed, under Client.mu.
settle(p) ==
  LET c == Todo(p).c
      ok == Todo(p).x
      h == [host EXCEPT !.dialing = @ - 1, !.probed = @ \/ ok]
      shared == [h EXCEPT !.multiplexed = TRUE,
                          !.h2 = IF cc[c].closed THEN @ ELSE Append(@, c)]
      n == Oldest(h.waiting)
      lost == dispatchLocked([h EXCEPT !.open = places(@),
                                       !.waiting = SubSeq(@, n + 1, Len(@))], cc)
      failed == IF n <= Len(h.waiting) THEN <<Say("go", h.waiting[n])>> ELSE <<>>
  IN /\ At(p, "settle")
     /\ IF ok /\ cc[c].h2 THEN \E s \in dispatchLocked(shared, cc) : Pool(p, idleH2Locked(s, c))
        ELSE IF ok THEN host' = h /\ Then(p, <<Go("release", c)>>) /\ UNCHANGED cc
        ELSE \E s \in lost : Pool(p, [s EXCEPT !.work = failed \o @])
     /\ UNCHANGED <<mode, closed, hc, rq, net, processed>>

\* History: how the requests of S lose their way.
Loses(S, how) == [r \in Requests |-> IF r \in S THEN [rq[r] EXCEPT !.lost = @ \union {how}] ELSE rq[r]]

\* go r.finish(...): the callback gets a goroutine of its own.
go(p) ==
  LET r == Todo(p).r IN
  /\ At(p, "go")
  /\ jobs' = [jobs EXCEPT ![p] = Tail(@), ![<<"late", r>>] = Append(@, Finish(r, Todo(p).x))]
  /\ UNCHANGED <<mode, closed, host, cc, hc, rq, net, processed>>

\* The requests that release leaves waiting for a new connection that closed already.
Forsaken(c) == IF cc[c].closed /\ ~cc[c].sent THEN Range(host.waiting) ELSE {}

\* release: the connection goes to the next request, or is kept, or is closed.
release(p) ==
  LET c == Todo(p).c
      n == Oldest(host.waiting)
      left == SubSeq(host.waiting, n + 1, Len(host.waiting))
      keep == ~closed /\ Len(host.idle) < MaxIdleConnsPerHost
  IN /\ At(p, "release")
     /\ IF cc[c].closed THEN Then(p, <<>>) /\ UNCHANGED <<host, cc>>
        ELSE IF n <= Len(host.waiting)
        THEN /\ Then(p, <<Job("send", c, host.waiting[n], None)>>)
             /\ host' = [host EXCEPT !.waiting = left] /\ UNCHANGED cc
        ELSE /\ Then(p, IF keep THEN <<>> ELSE <<Go("discard", c)>>)
             /\ host' = [host EXCEPT !.waiting = <<>>, !.idle = IF keep THEN Append(@, c) ELSE @]
             /\ cc' = [cc EXCEPT ![c].idleTimer = keep]
     /\ rq' = Loses(Forsaken(c), "waiting")
     /\ UNCHANGED <<mode, closed, hc, net, processed>>

\* The idle timer fires: it was armed, but may find the connection in use.
IdleTimer(c) ==
  /\ cc[c].idleTimer /\ Start(<<"idle", c>>, <<Go("expireIdle", c)>>) /\ Spend("expires")
  /\ UNCHANGED <<closed, host, cc, hc, rq, net, processed>>

\* mutant: the connection is closed without being looked for in the pool.
stillIdleMutant(c) == TRUE
stillIdle(c) == IF cc[c].h2 THEN cc[c].streams = 0 /\ cc[c].idleTimer /\ Has(host.h2, c)
                ELSE Has(host.idle, c)

expireIdle(p) ==
  LET c == Todo(p).c IN
  /\ At(p, "expireIdle")
  /\ Then(p, IF stillIdle(c) THEN <<Go("discard", c)>> ELSE <<>>)
  /\ host' = IF cc[c].h2 THEN (IF stillIdle(c) THEN [host EXCEPT !.h2 = removeConn(@, c)] ELSE host)
             ELSE [host EXCEPT !.idle = removeConn(@, c)]
  /\ UNCHANGED <<mode, closed, cc, hc, rq, net, processed>>

streamDone(p) ==
  LET c == Todo(p).c
      k == [cc EXCEPT ![c].streams = @ - 1]
  IN /\ At(p, "streamDone")
     /\ \E s \in dispatchLocked(host, k) : Pool(p, idleH2Locked(s, c))
     /\ UNCHANGED <<mode, closed, hc, rq, net, processed>>

retire(p) ==
  /\ At(p, "retire") /\ Then(p, <<>>)
  /\ host' = [host EXCEPT !.h2 = removeConn(@, Todo(p).c)]
  /\ UNCHANGED <<mode, closed, cc, hc, rq, net, processed>>

forget(p) ==
  LET c == Todo(p).c
      h == [host EXCEPT !.idle = removeConn(@, c), !.h2 = removeConn(@, c), !.open = @ - 1]
  IN /\ At(p, "forget")
     /\ \E s \in dispatchLocked(h, [cc EXCEPT ![c].idleTimer = FALSE]) : Pool(p, s)
     /\ UNCHANGED <<mode, closed, hc, rq, net, processed>>

\* Close: idle connections are closed, waiting requests are turned away.
Close ==
  LET shared == SelectSeq(host.h2, LAMBDA c : cc[c].streams = 0)
      idle == host.idle \o shared
      waiting == host.waiting
  IN /\ ~closed /\ closed' = TRUE /\ Spend("closes")
     /\ host' = [host EXCEPT !.idle = <<>>, !.waiting = <<>>]
     /\ Start(<<"closer", None>>, [i \in 1..Len(idle) |-> Go("discard", idle[i])]
                                  \o [i \in 1..Len(waiting) |-> Finish(waiting[i], None)])
     /\ UNCHANGED <<cc, hc, rq, net, processed>>

-----------------------------------------------------------------------------
(* A request.                                                              *)

\* finish: whoever swaps done first calls back, with the answer to x or an error.
finish(p) ==
  LET r == Todo(p).r IN
  /\ At(p, "finish") /\ Then(p, <<>>)
  /\ rq' = IF rq[r].done THEN rq
           ELSE [rq EXCEPT ![r].done = TRUE, ![r].calls = @ + 1, ![r].got = Todo(p).x]
  /\ UNCHANGED <<mode, closed, host, cc, hc, net, processed>>

\* The timeout or the context fires: abort, up to the callback.
Abort(r) ==
  /\ rq[r].asked /\ ~rq[r].done /\ r \in mode.aborts
  /\ rq' = [rq EXCEPT ![r].done = TRUE, ![r].calls = @ + 1]
  /\ Start(<<"timer", r>>, <<Say("abandon", r)>>)
  /\ UNCHANGED <<mode, closed, host, cc, hc, net, processed>>

\* abort, under clientRequest.mu: the exchange is abandoned with the request.
abandon(p) ==
  LET r == Todo(p).r
      c == rq[r].conn
  IN /\ At(p, "abandon")
     /\ rq' = [rq EXCEPT ![r].conn = None]
     /\ Then(p, IF c = None THEN <<>>
                ELSE IF cc[c].h2 THEN <<Job("cancel", c, r, None)>> ELSE <<Job("discard", c, r, "seen")>>)
     /\ UNCHANGED <<mode, closed, host, cc, hc, net, processed>>

detach(p) ==
  /\ At(p, "detach") /\ Then(p, <<>>)
  /\ rq' = [rq EXCEPT ![Todo(p).r].conn = None]
  /\ UNCHANGED <<mode, closed, host, cc, hc, net, processed>>

retryable(r) == r \in Idempotent /\ ~rq[r].retried

-----------------------------------------------------------------------------
(* A connection that speaks HTTP/1.                                        *)

\* send.  On HTTP/2 the stream was counted already, and attach comes first.
send(p) ==
  LET c == Todo(p).c
      r == Todo(p).r
  IN /\ At(p, "send")
     /\ IF cc[c].h2
        THEN IF rq[r].done THEN Then(p, <<Go("streamDone", c)>>) /\ UNCHANGED <<cc, rq>>
             ELSE /\ rq' = [rq EXCEPT ![r].conn = c] /\ UNCHANGED cc
                  /\ Then(p, <<Job("openStream", c, r, None)>>)
        ELSE IF cc[c].closed
        THEN Then(p, <<Job("enqueue", None, r, TRUE)>>) /\ UNCHANGED <<cc, rq>>
        ELSE /\ cc' = [cc EXCEPT ![c].current = r, ![c].reused = cc[c].sent, ![c].sent = TRUE,
                                 ![c].received = FALSE, ![c].untilClose = FALSE]
             /\ Then(p, <<Job("attach", c, r, None)>>) /\ UNCHANGED rq
     /\ UNCHANGED <<mode, closed, host, hc, net, processed>>

attaches(r) == ~rq[r].done

attach(p) ==
  LET c == Todo(p).c
      r == Todo(p).r
  IN /\ At(p, "attach")
     /\ IF attaches(r) THEN rq' = [rq EXCEPT ![r].conn = c] /\ Then(p, <<Job("write", c, r, 0)>>)
        ELSE UNCHANGED rq /\ Then(p, <<Go("unassign", c), Go("release", c)>>)
     /\ UNCHANGED <<mode, closed, host, cc, hc, net, processed>>

unassign(p) ==
  /\ At(p, "unassign") /\ Then(p, <<>>)
  /\ cc' = [cc EXCEPT ![Todo(p).c].current = None]
  /\ UNCHANGED <<mode, closed, host, hc, rq, net, processed>>

\* conn.Send: on a connection that is closing it does nothing, and OnClose follows.
Written(n, id, r) == IF n.link = "open" THEN [n EXCEPT !.wire = Append(@, <<id, r>>)] ELSE n

write(p) ==
  /\ At(p, "write") /\ Then(p, <<>>)
  /\ net' = [net EXCEPT ![Todo(p).c] = Written(@, 0, Todo(p).r)]
  /\ UNCHANGED <<mode, closed, host, cc, hc, rq, processed>>

\* conn.Close: the event loop will close the socket and call OnClose.
Closing(n) == IF n.link \in {"shaking", "open"} THEN [n EXCEPT !.link = "closing"] ELSE n

\* The request that a discard takes along although abort, or OnData for bytes nobody
\* asked for, decided on it when another, or none, was the connection's.
Bystander(j) == IF j.x = "seen" THEN {cc[j.c].current} \ {None, j.r} ELSE {}

discard(p) ==
  LET c == Todo(p).c IN
  /\ At(p, "discard") /\ Then(p, <<>>)
  /\ cc' = [cc EXCEPT ![c].closed = TRUE, ![c].current = None]
  /\ rq' = Loses(Bystander(Todo(p)), "discard")
  /\ net' = [net EXCEPT ![c] = Closing(@)]
  /\ UNCHANGED <<mode, closed, host, hc, processed>>

\* mutant: the connection is handed on while the answered request is its own.
answeredMutant(c, r) == <<Go("release", c), Go("unassign", c), Say("detach", r)>>
\* What OnData does with a connection whose response is complete.
answered(c, r) == <<Go("unassign", c), Say("detach", r), Go("release", c)>>

\* What a worker does with bytes of an HTTP/1 connection.
OnBytes(c, m) ==
  LET r == cc[c].current IN
  IF cc[c].closed THEN <<>>
  ELSE IF r = None THEN <<Job("discard", c, None, "seen")>>
  ELSE CASE m.kind = "bad" -> <<Say("detach", r), Go("discard", c), Finish(r, None)>>
         [] m.kind \in {"part", "tail"} -> <<>>
         [] m.kind = "answer" -> Append(answered(c, r), Finish(r, m.r))
         [] m.kind = "last" -> <<Go("unassign", c), Say("detach", r), Go("discard", c), Finish(r, m.r)>>

\* The goroutine that reported the connection is done with it: the handshake's
\* delivers what came meanwhile, the loop takes the next event.  Workers read from
\* the connection only now.
Reading(p) ==
  /\ At(p, "reading") /\ Then(p, <<>>)
  /\ net' = [net EXCEPT ![Todo(p).c].reads = TRUE]
  /\ UNCHANGED <<mode, closed, host, cc, hc, rq, processed>>

\* OnData: a worker takes the next message, an HTTP/2 frame or bytes of a response.
OnData(c) ==
  LET m == Head(net[c].inbox) IN
  /\ net[c].link \in {"open", "closing"} /\ net[c].inbox # <<>> /\ net[c].reads
  /\ net' = [net EXCEPT ![c].inbox = Tail(@)]
  /\ IF cc[c].h2
     THEN Start(<<"worker", c>>, <<Job(m.kind, c, m.r, m.id)>>) /\ UNCHANGED cc
     ELSE /\ Start(<<"worker", c>>, OnBytes(c, m))
          /\ cc' = [cc EXCEPT ![c].received = TRUE,
                              ![c].untilClose = m.kind = "tail" /\ cc[c].current # None]
  /\ UNCHANGED <<mode, closed, host, hc, rq, processed>>

\* OnClose reads settled, and what it does next depends on it.
OnClose(c) ==
  /\ net[c].link = "closing"
  /\ Start(Loop, <<Go(IF ~cc[c].settled THEN "closeDial"
                      ELSE IF cc[c].h2 THEN "closeStreams" ELSE "closeExchange", c)>>)
  /\ net' = [net EXCEPT ![c].link = "closed", ![c].inbox = <<>>, ![c].wire = <<>>]
  /\ UNCHANGED <<mode, closed, host, cc, hc, rq, processed>>

closeDial(p) ==
  /\ At(p, "closeDial")
  /\ cc' = [cc EXCEPT ![Todo(p).c].closed = TRUE]
  /\ Then(p, <<Job("dialed", Todo(p).c, None, FALSE)>>)
  /\ UNCHANGED <<mode, closed, host, hc, rq, net, processed>>

untouched(c) == cc[c].reused /\ ~cc[c].received

\* The request of a connection that closed: its response may end with the
\* connection, it may go out again, or it fails.
closeExchange(p) ==
  LET c == Todo(p).c
      r == cc[c].current
      whole == cc[c].untilClose /\ net[c].clean
      again == ~whole /\ untouched(c) /\ retryable(r)
  IN /\ At(p, "closeExchange")
     /\ cc' = [cc EXCEPT ![c].current = None, ![c].closed = TRUE]
     /\ IF r = None THEN Then(p, <<Go("forget", c)>>) /\ UNCHANGED rq
        ELSE /\ Then(p, <<Go("forget", c), Say("detach", r),
                          IF again THEN Job("enqueue", None, r, TRUE)
                          ELSE Job("go", None, r, IF whole THEN r ELSE None)>>)
             /\ rq' = [rq EXCEPT ![r].retried = @ \/ again]
     /\ UNCHANGED <<mode, closed, host, hc, net, processed>>

-----------------------------------------------------------------------------
(* A connection that speaks HTTP/2: one critical section of its lock each. *)

Carries(c, id) == \E s \in hc[c].streams : s[1] = id
Carried(c, id) == (CHOOSE s \in hc[c].streams : s[1] = id)[2]
Without(h, id) == [h EXCEPT !.streams = {s \in @ : s[1] # id}, !.received = @ \ {id}]

\* closeIfDoneLocked: a retiring connection closes behind its last stream.
closeIfDone(h, n) == IF h.goAway /\ ~h.closed /\ h.streams = {} THEN Closing(n) ELSE n

\* mutant: a connection that is going away takes another stream.
takesStreamsMutant(c) == ~hc[c].closed
takesStreams(c) == ~hc[c].closed /\ ~hc[c].goAway

\* h2ClientConn.send, after attach.  Fields that cannot be sent fail the request.
openStream(p) ==
  LET c == Todo(p).c
      r == Todo(p).r
      id == hc[c].nextID
      back == <<Say("detach", r), Go("streamDone", c)>>
  IN /\ At(p, "openStream")
     /\ \/ /\ ~takesStreams(c) /\ Then(p, Append(back, Job("enqueue", None, r, TRUE)))
           /\ UNCHANGED <<mode, hc, rq, net>>
        \/ /\ takesStreams(c) /\ Odd("reject") /\ Then(p, Append(back, Finish(r, None)))
           /\ UNCHANGED <<hc, rq, net>>
        \/ /\ takesStreams(c) /\ Then(p, <<>>) /\ UNCHANGED mode
           /\ hc' = [hc EXCEPT ![c].nextID = @ + 2, ![c].streams = @ \union {<<id, r>>}]
           /\ rq' = [rq EXCEPT ![r].streamID = id]
           /\ net' = [net EXCEPT ![c] = Written(@, id, r)]
     /\ UNCHANGED <<closed, host, cc, processed>>

ownStream(c, r) == <<rq[r].streamID, r>> \in hc[c].streams

cancel(p) ==
  LET c == Todo(p).c
      r == Todo(p).r
      h == Without(hc[c], rq[r].streamID)
  IN /\ At(p, "cancel")
     /\ IF ownStream(c, r)
        THEN /\ hc' = [hc EXCEPT ![c] = h] /\ net' = [net EXCEPT ![c] = closeIfDone(h, @)]
             /\ Then(p, <<Go("streamDone", c)>>)
        ELSE UNCHANGED <<hc, net>> /\ Then(p, <<>>)
     /\ UNCHANGED <<mode, closed, host, cc, rq, processed>>

\* handleHeaderBlock: the stream has heard from the server, but the response is
\* not complete.
handleHeaderBlock(p) ==
  LET c == Todo(p).c
      id == Todo(p).x
  IN /\ At(p, "part") /\ Then(p, <<>>)
     /\ hc' = IF Carries(c, id) THEN [hc EXCEPT ![c].received = @ \union {id}] ELSE hc
     /\ UNCHANGED <<mode, closed, host, cc, rq, net, processed>>

\* handleData with the last frame of the response, which completes it.
handleData(p) ==
  LET c == Todo(p).c
      id == Todo(p).x
  IN /\ At(p, "answer")
     /\ hc' = IF Carries(c, id) THEN [hc EXCEPT ![c].received = @ \union {id}] ELSE hc
     /\ Then(p, IF Carries(c, id) THEN <<[Todo(p) EXCEPT !.op = "complete"]>> ELSE <<>>)
     /\ UNCHANGED <<mode, closed, host, cc, rq, net, processed>>

\* The request of the stream that p deals with.
Of(p) == Carried(Todo(p).c, Todo(p).x)

\* The stream leaves the connection, and last is still to be done for its request.
Leaves(p, last) ==
  LET c == Todo(p).c
      id == Todo(p).x
      h == Without(hc[c], id)
  IN /\ hc' = [hc EXCEPT ![c] = h] /\ net' = [net EXCEPT ![c] = closeIfDone(h, @)]
     /\ Then(p, IF Carries(c, id) THEN <<Say("detach", Of(p)), Go("streamDone", c), last>> ELSE <<>>)
     /\ UNCHANGED <<mode, closed, host, cc, rq, processed>>

complete(p) ==
  /\ At(p, "complete")
  /\ IF Carries(Todo(p).c, Todo(p).x)
     THEN Leaves(p, Finish(Of(p), Todo(p).r))
     ELSE Then(p, <<>>) /\ UNCHANGED <<mode, closed, host, cc, hc, rq, net, processed>>

\* endStream, for RST_STREAM and for the streams this side finds at fault: a refused
\* request goes out again, another fails.
endStream(p) ==
  \/ At(p, "refused") /\ Leaves(p, Job("enqueue", None, Of(p), TRUE))
  \/ At(p, "reset") /\ Leaves(p, Finish(Of(p), None))

\* handleSettings: the server allows another number of streams.
settings(p) ==
  LET k == [cc EXCEPT ![Todo(p).c].maxStreams = Todo(p).x] IN
  /\ At(p, "settings") /\ \E s \in dispatchLocked(host, k) : Pool(p, s)
  /\ UNCHANGED <<mode, closed, hc, rq, net, processed>>

InSomeOrder(S) == {s \in [1..Cardinality(S) -> S] : \A e \in S : Has(s, e)}

\* mutant: the last stream the server takes is taken for one it does not.
unprocessedMutant(c, last) == {s \in hc[c].streams : s[1] >= last}
unprocessed(c, last) == {s \in hc[c].streams : s[1] > last}

\* handleGoAway: streams the server will not take go out again elsewhere.
handleGoAway(p) ==
  LET c == Todo(p).c
      again == unprocessed(c, Todo(p).x)
      h == [hc[c] EXCEPT !.goAway = TRUE, !.streams = @ \ again]
      resend(r) == <<Say("detach", r), Go("streamDone", c), Job("enqueue", None, r, TRUE)>>
  IN /\ At(p, "goaway")
     /\ hc' = [hc EXCEPT ![c] = h] /\ net' = [net EXCEPT ![c] = closeIfDone(h, @)]
     /\ \E s \in InSomeOrder(again) : Then(p, <<Go("retire", c)>> \o FlattenSeq([i \in 1..Len(s) |-> resend(s[i][2])]))
     /\ UNCHANGED <<mode, closed, host, cc, rq, processed>>

\* fail: the connection ends with GOAWAY, and OnClose settles its streams.
fail(p) ==
  /\ At(p, "bad") /\ Then(p, <<Go("retire", Todo(p).c), Go("closeAfterSend", Todo(p).c)>>)
  /\ hc' = [hc EXCEPT ![Todo(p).c].goAway = TRUE]
  /\ UNCHANGED <<mode, closed, host, cc, rq, net, processed>>

closeAfterSend(p) ==
  /\ At(p, "closeAfterSend") /\ Then(p, <<>>)
  /\ net' = [net EXCEPT ![Todo(p).c] = Closing(@)]
  /\ UNCHANGED <<mode, closed, host, cc, hc, rq, processed>>

\* OnClose of a connection with streams, up to shutdown.
closeStreams(p) ==
  LET c == Todo(p).c IN
  /\ At(p, "closeStreams") /\ Then(p, <<Go("forget", c), Go("shutdown", c)>>)
  /\ cc' = [cc EXCEPT ![c].closed = TRUE]
  /\ UNCHANGED <<mode, closed, host, hc, rq, net, processed>>

\* shutdown: what was not answered and may be repeated goes out again.
shutdown(p) ==
  LET c == Todo(p).c
      again == {s \in hc[c].streams : s[1] \notin hc[c].received /\ retryable(s[2])}
      resend(r) == <<Say("detach", r),
                     IF \E s \in again : s[2] = r THEN Job("enqueue", None, r, TRUE)
                     ELSE Say("go", r)>>
  IN /\ At(p, "shutdown")
     /\ hc' = [hc EXCEPT ![c].closed = TRUE, ![c].streams = {}]
     /\ rq' = [r \in Requests |-> [rq[r] EXCEPT !.retried = @ \/ \E s \in again : s[2] = r]]
     /\ \E s \in InSomeOrder(hc[c].streams) : Then(p, FlattenSeq([i \in 1..Len(s) |-> resend(s[i][2])]))
     /\ UNCHANGED <<mode, closed, host, cc, net, processed>>

-----------------------------------------------------------------------------
(* The engine and TLS below the client, and the server (external).         *)

Started(k) == IF mode.proto \in {"h2", "h2c"}
              THEN [k EXCEPT !.h2 = TRUE, !.maxStreams = InitialMaxStreams] ELSE k

\* The connect completes on the event loop: without TLS the dial is settled, with
\* startH2 first when HTTP/2 is spoken without it; with TLS the handshake begins.
Connected(c) ==
  /\ net[c].link = "dialing"
  /\ net' = [net EXCEPT ![c].link = IF Secure THEN "shaking" ELSE "open"]
  /\ IF Secure THEN jobs[Loop] = <<>> /\ UNCHANGED <<jobs, cc>>
     ELSE Start(Loop, <<Job("dialed", c, None, TRUE), Go("reading", c)>>) /\ cc' = [cc EXCEPT ![c] = Started(@)]
  /\ UNCHANGED <<mode, closed, host, hc, rq, processed>>

ConnectFails(c) ==
  /\ net[c].link = "dialing" /\ Odd("connect")
  /\ net' = [net EXCEPT ![c].link = "closed"]
  /\ Start(Loop, <<Job("dialed", c, None, FALSE)>>)
  /\ UNCHANGED <<closed, host, cc, hc, rq, processed>>

\* OnHandshake, on the handshake's goroutine.
OnHandshake(c) ==
  /\ net[c].link = "shaking"
  /\ net' = [net EXCEPT ![c].link = "open"]
  /\ cc' = [cc EXCEPT ![c] = Started(@)]
  /\ Start(<<"hand", c>>, <<Job("dialed", c, None, TRUE), Go("reading", c)>>)
  /\ UNCHANGED <<mode, closed, host, hc, rq, processed>>

Message(kind, id, r) == [kind |-> kind, id |-> id, r |-> r]
Drop(s, i) == SubSeq(s, 1, i - 1) \o SubSeq(s, i + 1, Len(s))

\* The requests the server may take next: in order, or any stream within its limit.
Next1(c) == {i \in 1..Len(net[c].wire) :
               IF cc[c].h2 THEN net[c].last = None \/ net[c].wire[i][1] <= net[c].last
               ELSE i = 1}

\* The server acts on a request and answers it.
Replies(c, i, kind, link) ==
  LET w == net[c].wire[i] IN
  /\ net[c].link = "open" /\ i \in Next1(c)
  /\ net' = [net EXCEPT ![c].wire = Drop(@, i), ![c].link = link,
                        ![c].inbox = Append(@, Message(kind, w[1], w[2]))]
  /\ processed' = [processed EXCEPT ![w[2]] = @ + 1]
  /\ UNCHANGED <<closed, host, cc, hc, rq, jobs>>

Answers(c) == UNCHANGED mode /\ \E i \in Next1(c) : Replies(c, i, "answer", "open")

\* A response that ends the connection, or that the end of the connection ends,
\* or the reset of a stream.
AnswersOddly(c) ==
  /\ Odd("reply")
  /\ \E i \in Next1(c) :
       IF cc[c].h2 THEN Replies(c, i, "reset", "open")
       ELSE Replies(c, i, "last", "open") \/ Replies(c, i, "tail", "closing")

\* The beginning of a response.
AnswersPartly(c) ==
  /\ net[c].link = "open" /\ Odd("part")
  /\ \E i \in Next1(c) :
       net' = [net EXCEPT ![c].inbox = Append(@, Message("part", net[c].wire[i][1], None))]
  /\ UNCHANGED <<closed, host, cc, hc, rq, jobs, processed>>

\* The server says something that answers no request: it refuses one or a number
\* of them, limits the streams, or breaks the protocol.
Refuses(c) ==
  /\ cc[c].h2 /\ net[c].link = "open" /\ Odd("refuse")
  /\ \E i \in Next1(c) :
       net' = [net EXCEPT ![c].wire = Drop(@, i),
                          ![c].inbox = Append(@, Message("refused", net[c].wire[i][1], None))]
  /\ UNCHANGED <<closed, host, cc, hc, rq, jobs, processed>>

\* The highest stream the server has taken up or still may.
GoesAway(c) ==
  /\ cc[c].h2 /\ net[c].link = "open" /\ net[c].last = None /\ Odd("goaway")
  /\ \E last \in {0} \union {id \in 1..hc[c].nextID : id % 2 = 1} :
       /\ \A id \in 1..hc[c].nextID :
            id > last /\ id % 2 = 1 /\ id < hc[c].nextID => \E i \in Next1(c) : net[c].wire[i][1] = id
       /\ net' = [net EXCEPT ![c].last = last,
                             ![c].inbox = Append(@, Message("goaway", last, None))]
  /\ UNCHANGED <<closed, host, cc, hc, rq, jobs, processed>>

Speaks(c) ==
  /\ net[c].link = "open" /\ Odd("speak")
  /\ \E m \in {Message("bad", 0, None)}
                \union (IF cc[c].h2 THEN {Message("settings", 1, None)} ELSE {}) :
       net' = [net EXCEPT ![c].inbox = Append(@, m)]
  /\ UNCHANGED <<closed, host, cc, hc, rq, jobs, processed>>

\* The server, or the network, ends the connection at any time, with a request
\* acted on that is never answered or without.
Ends(c) ==
  /\ net[c].link \in {"shaking", "open"} /\ Odd("end")
  /\ \E clean \in BOOLEAN :
       net' = [net EXCEPT ![c].link = "closing", ![c].clean = clean,
                          ![c].inbox = IF clean THEN @ ELSE <<>>]
  /\ \/ UNCHANGED processed
     \/ \E i \in Next1(c) : processed' = [processed EXCEPT ![net[c].wire[i][2]] = @ + 1]
  /\ UNCHANGED <<closed, host, cc, hc, rq, jobs>>

-----------------------------------------------------------------------------
\* What a goroutine does next.
Step(p) ==
  /\ jobs[p] # <<>>
  /\ \/ enqueue(p) \/ dial(p) \/ dialed(p) \/ settle(p) \/ go(p) \/ release(p)
     \/ expireIdle(p) \/ streamDone(p) \/ retire(p) \/ forget(p)
     \/ finish(p) \/ abandon(p) \/ detach(p)
     \/ send(p) \/ attach(p) \/ unassign(p) \/ write(p) \/ discard(p) \/ Reading(p)
     \/ closeDial(p) \/ closeExchange(p) \/ closeStreams(p) \/ shutdown(p)
     \/ openStream(p) \/ cancel(p) \/ handleHeaderBlock(p) \/ handleData(p) \/ complete(p)
     \/ endStream(p) \/ settings(p)
     \/ handleGoAway(p) \/ fail(p) \/ closeAfterSend(p)

\* What the event loop, the handshake and the workers begin.
Begins(c) == Connected(c) \/ OnHandshake(c) \/ OnData(c) \/ OnClose(c)

Server(c) ==
  \/ Answers(c) \/ AnswersOddly(c) \/ AnswersPartly(c)
  \/ Refuses(c) \/ GoesAway(c) \/ Speaks(c) \/ Ends(c)

Next ==
  \/ \E p \in Procs : Step(p)
  \/ \E c \in Conns : Begins(c) \/ Server(c) \/ ConnectFails(c) \/ IdleTimer(c)
  \/ \E r \in Requests : Do(r) \/ Abort(r)
  \/ Close

Spec == Init /\ [][Next]_vars

\* The workers run, and the rest of the client with a server that answers does not
\* all stand still: goroutines run, connects and handshakes complete, the loop and
\* the workers take what is there.  The traffic is finite but for requests that
\* are handed to a retiring connection and come back until its worker has taken
\* it from the pool, so that everyone comes to move.  Nobody has to ask, to cancel
\* or to close, and nothing odd has to happen.
Fairness ==
  /\ WF_vars(\E c \in Conns : Step(<<"worker", c>>))
  /\ WF_vars(\/ \E p \in Procs : p[1] # "worker" /\ Step(p)
             \/ \E c \in Conns : Begins(c) \/ Answers(c))

FairSpec == Spec /\ Fairness

-----------------------------------------------------------------------------
(* Properties.                                                             *)

Busy == {p \in Procs : jobs[p] # <<>>}
JobAt(q) == jobs[q[1]][q[2]]
Pending(op) ==
  {q \in UNION {{p} \X (1..Len(jobs[p])) : p \in Busy} : JobAt(q).op \in op}
Unanswered == {r \in Requests : rq[r].asked /\ ~rq[r].done}

\* A connection takes one of the MaxConnsPerHost places from the dial until its
\* close or failure has been accounted for, which for a stranded one is never.
TakesPlace(c) ==
  \/ net[c].link \in {"dialing", "shaking", "open", "closing"} \/ cc[c].stranded
  \/ \E q \in Pending({"closeDial", "closeExchange", "closeStreams", "forget"}) : JobAt(q).c = c
  \/ \E q \in Pending({"dialed", "settle"}) : JobAt(q).c = c /\ ~JobAt(q).x

\* The streams a connection was given: those it carries, and those on their way
\* to or from it.
Given(c) ==
  Cardinality(hc[c].streams)
    + Cardinality({q \in Pending({"send", "openStream", "streamDone"}) : JobAt(q).c = c})

\* The counts the client rations by are exact, whatever fails, closes or retires
\* in whatever order: open counts the connections that take a place and never
\* exceeds MaxConnsPerHost (dispatchLocked, dialed, forget), and streams counts
\* the streams an open HTTP/2 connection was given (dispatchLocked, streamDone).
\* A place is lost in one way only: the connection ends between OnHandshake and
\* its report, and OnClose's own report comes second.
PlacesCounted ==
  /\ host.open = Cardinality({c \in Conns : TakesPlace(c)}) + Cardinality(Pending({"dial"}))
  /\ host.open <= MaxConnsPerHost
  /\ \A c \in Conns : cc[c].h2 /\ net[c].link # "closed" => cc[c].streams = Given(c)

\* Where a request is that will be sent or is being answered.
Places(r) ==
  Cardinality({i \in 1..Len(host.waiting) : host.waiting[i] = r})
    + Cardinality({q \in Pending({"enqueue", "send", "openStream"}) : JobAt(q).r = r})
    + Cardinality({c \in Conns : cc[c].current = r})
    + Cardinality({c \in Conns : \E s \in hc[c].streams : s[2] = r})

Ending(r) == \E q \in Pending({"finish", "go"}) : JobAt(q).r = r

Kept(r) == Places(r) = 1 \/ (Places(r) = 0 /\ Ending(r))

\* "calls callback exactly once": until the callback of a request was called, the
\* request is in one place only from which it is sent, or carried by one
\* connection, or about to be called back (enqueue, dispatchLocked, release,
\* send, OnData, OnClose, shutdown); and no callback is called twice.  The one
\* way out is a discard that abort, or OnData for bytes nobody asked for, decided
\* on before the request got the connection.
OnePlace ==
  /\ \A r \in Unanswered : Kept(r) \/ ("discard" \in rq[r].lost /\ Places(r) = 0)
  /\ \A r \in Requests : rq[r].calls <= 1

\* A connection of HTTP/1 has one role at a time, idle, on its way to a request or
\* exchanging; so every response reaches the request it answers (send, OnData,
\* release, complete).
RightResponse ==
  /\ \A r \in Requests : rq[r].got \in {None, r}
  /\ \A c \in Conns : ~cc[c].h2 =>
       Cardinality({i \in 1..Len(host.idle) : host.idle[i] = c})
         + Cardinality({q \in Pending({"send"}) : JobAt(q).c = c})
         + (IF cc[c].current # None THEN 1 ELSE 0) <= 1

\* "can be sent again without the server acting on it twice": the server acts at
\* most once on a request that must not be repeated, and at most twice on another
\* (OnClose, shutdown, handleGoAway, endStream).
ActedOnce == \A r \in Requests : processed[r] <= IF r \in Idempotent THEN 2 ELSE 1

\* A request is called back eventually, when the server answers (Do), unless a late
\* discard took it, or a connection closed while its handshake was being reported:
\* then the requests that waited for it, that it was given or that need its place
\* may wait for ever.
CalledBack ==
  LET waits == (\E r \in Unanswered : rq[r].lost = {}) /\ \A c \in Conns : ~cc[c].stranded
  IN waits ~> ~waits

\* "Do sends req and calls callback exactly once" (client.go:136): once the server
\* answers everything, every request that was asked is called back.
AlwaysCalledBack == LET waits == Unanswered # {} IN waits ~> ~waits
=============================================================================
