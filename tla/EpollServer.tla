---------------------------- MODULE EpollServer ----------------------------
(***************************************************************************)
(* The C server of c/src/epoll_server.c: one thread in epoll_server_run    *)
(* collects edges and owns every descriptor, workers of a fixed pool       *)
(* process one connection each, and what only the loop may do is asked of  *)
(* it through a list of commands and an eventfd.  Objects live as long as  *)
(* their reference count.  A payload is a number of bytes; output bytes    *)
(* are numbered per connection in the order epoll_connection_send took     *)
(* them.  Every connection has a descriptor number of its own.             *)
(***************************************************************************)
EXTENDS Integers, Sequences, FiniteSets

CONSTANTS
  Conns,      \* the connections peers may open
  Workers,    \* threads of worker_main: config.worker_count is at most their number
  Loop, App,  \* the thread of epoll_server_run, a thread of the application
  None,
  MaxEvents,  \* config.max_events
  SendSize,   \* bytes of one epoll_connection_send, fewer when budget runs out
  Window,     \* room in the kernel's send buffer
  Budgets     \* what the environment may do, one of

\* crew: the workers there are; dials: the connections peers open; per connection,
\* input and urgent bytes and whether the peer ends it; bytes the application
\* sends on each and closes, whether it stops the server; allocations and system
\* calls that fail.
ASSUME BudgetsAssumption ==
  /\ {MaxEvents, SendSize, Window} \subseteq Nat \ {0}
  /\ \A b \in Budgets :
       /\ b.dials \subseteq Conns /\ b.crew \subseteq Workers
       /\ {b.input, b.urgent, b.ends, b.sends, b.closes, b.stops, b.fails}
            \subseteq Nat

VARIABLES
  conn,          \* conn[c]: the fields of struct epoll_connection
  sock,          \* sock[c]: its descriptor as the kernel sees it
  cmds, wake,    \* the command list; a readiness edge of the eventfd
  backlog, knock,\* connections accept4 would return; the listener's edge
  ready,         \* thread_pool_t: the list of submitted connections
  poolStopping,
  stopping,      \* server->stopping
  pc, on, req,   \* per thread: where it is, its connection, a request it makes
  evs, pend,     \* per worker: the item it took; the bytes flush_output holds
  batch, todo, mod,         \* locals of the loop
  wire, accepted,\* bytes the kernel took; number of bytes sends accepted
  budget,        \* what the environment may still do
  failed         \* an allocation or a system call has failed

vars == <<conn, sock, cmds, wake, backlog, knock, ready, poolStopping,
          stopping, pc, on, req, evs, pend, batch, todo, mod, wire,
          accepted, budget, failed>>

kernelVars == <<backlog, knock>>
poolVars == <<ready, poolStopping>>
loopVars == <<batch, todo, mod>>
ghostVars == <<wire, accepted>>
envVars == <<budget, failed>>

Threads == Workers \cup {Loop, App}

(***************************************************************************)
(* The kernel.                                                             *)
(***************************************************************************)

\* What poll reports of a socket, restricted to what it is registered for.
Reported(s) ==
  (IF s.inb > 0 \/ s.fin \/ s.rst \/ s.shut THEN {"in"} ELSE {})
    \cup (IF s.urgent > 0 THEN {"pri"} ELSE {})
    \cup (IF s.out /\ (s.space > 0 \/ s.rst) THEN {"out"} ELSE {})
    \cup (IF s.fin \/ s.rst \/ s.shut THEN {"rdhup"} ELSE {})
    \cup (IF s.rst \/ s.shut THEN {"hup"} ELSE {})

ClosedSocket == [open |-> FALSE, edge |-> FALSE, inb |-> 0, urgent |-> 0,
                 fin |-> FALSE, rst |-> FALSE, shut |-> FALSE, space |-> 0,
                 out |-> FALSE]

FreshSocket == [ClosedSocket EXCEPT !.open = TRUE, !.space = Window]

\* The socket s after an event the epoll instance is told of.
Edge(s) == [s EXCEPT !.edge = s.open]

Spend(what) == budget[what] > 0 /\ budget' = [budget EXCEPT ![what] = @ - 1]

\* An allocation or a system call fails.
Failing == Spend("fails") /\ failed' = TRUE

Unborn == [mem |-> "none", refs |-> 0, events |-> <<>>, sends |-> <<>>,
           scheduled |-> FALSE, closing |-> FALSE, closed |-> FALSE,
           writeInterest |-> FALSE, flushing |-> FALSE, linked |-> FALSE]

Init ==
  /\ conn = [c \in Conns |-> Unborn]
  /\ sock = [c \in Conns |-> ClosedSocket]
  /\ cmds = <<>> /\ wake = FALSE
  /\ backlog = {} /\ knock = FALSE
  /\ ready = <<>> /\ poolStopping = FALSE /\ stopping = FALSE
  /\ budget \in Budgets /\ failed = FALSE
  /\ pc = [p \in Threads |-> IF p = Loop THEN "batch"
                             ELSE IF p \in Workers \ budget.crew THEN "exit"
                             ELSE "idle"]
  /\ on = [p \in Threads |-> None]
  /\ req = [p \in Threads |-> None]
  /\ evs = [w \in Workers |-> {}] /\ pend = [w \in Workers |-> <<>>]
  /\ batch = <<>> /\ todo = <<>> /\ mod = None
  /\ wire = [c \in Conns |-> <<>>] /\ accepted = [c \in Conns |-> 0]

\* A peer connects.
Connect(c) ==
  /\ c \in budget.dials
  /\ budget' = [budget EXCEPT !.dials = @ \ {c}]
  /\ backlog' = backlog \cup {c} /\ knock' = TRUE
  /\ UNCHANGED <<conn, sock, cmds, wake, poolVars, stopping, pc, on, req, evs,
                 pend, loopVars, ghostVars, failed>>

\* The peer sends a byte, an urgent byte, its FIN or a reset.
Peer(c) ==
  /\ sock[c].open /\ ~sock[c].rst /\ ~sock[c].fin
  /\ \E s \in {[sock[c] EXCEPT !.inb = @ + 1], [sock[c] EXCEPT !.urgent = @ + 1],
              [sock[c] EXCEPT !.fin = TRUE], [sock[c] EXCEPT !.rst = TRUE]} :
       /\ Spend(IF s.inb > sock[c].inb THEN "input"
                ELSE IF s.urgent > sock[c].urgent THEN "urgent" ELSE "ends")
       /\ sock' = [sock EXCEPT ![c] = Edge(s)]
  /\ UNCHANGED <<conn, cmds, wake, kernelVars, poolVars, stopping, pc, on, req,
                 evs, pend, loopVars, ghostVars, failed>>

\* The peer takes a byte: room in the send buffer, an edge if EPOLLOUT is asked.
PeerReads(c) ==
  /\ sock[c].open /\ sock[c].space < Window
  /\ sock' = [sock EXCEPT ![c] =
       [@ EXCEPT !.space = @ + 1, !.edge = @ \/ sock[c].out]]
  /\ UNCHANGED <<conn, cmds, wake, kernelVars, poolVars, stopping, pc, on, req,
                 evs, pend, loopVars, ghostVars, envVars>>

(***************************************************************************)
(* References, commands, and the calls a callback or a thread may make.    *)
(* A thread inside one of them has req[p] set and does nothing else.       *)
(***************************************************************************)

Goto(p, l) == pc' = [pc EXCEPT ![p] = l]
Ask(p, r) == req' = [req EXCEPT ![p] = r]

ReleasedMutant(r, n) ==
  [r EXCEPT !.refs = @ - n, !.mem = IF r.refs <= n + 1 THEN "freed" ELSE @]

\* connection_release: the object goes with its last reference.
Released(r, n) ==
  [r EXCEPT !.refs = @ - n, !.mem = IF r.refs = n THEN "freed" ELSE @]

\* request_command: a reference for the command, then append; then the write
\* to the eventfd.  Without memory a refresh is dropped and a close becomes a
\* shutdown.
request_command(p) ==
  /\ req[p] \in {"refresh", "close"}
  /\ \/ /\ conn' = [conn EXCEPT ![on[p]].refs = @ + 1]
        /\ cmds' = Append(cmds, [type |-> req[p], c |-> on[p]])
        /\ Ask(p, "notify")
        /\ UNCHANGED <<sock, envVars>>
     \/ /\ Failing
        /\ sock' = IF req[p] = "close" /\ sock[on[p]].open
                   THEN [sock EXCEPT ![on[p]] = [Edge(@) EXCEPT !.shut = TRUE]]
                   ELSE sock
        /\ Ask(p, None)
        /\ UNCHANGED <<conn, cmds>>
  /\ UNCHANGED <<wake, kernelVars, poolVars, stopping, pc, on, evs, pend,
                 loopVars, ghostVars>>

\* notify_loop.
notify_loop(p) ==
  /\ req[p] = "notify"
  /\ wake' = TRUE /\ Ask(p, None)
  /\ UNCHANGED <<conn, sock, cmds, kernelVars, poolVars, stopping, pc, on, evs,
                 pend, loopVars, ghostVars, envVars>>

firstCloseMutant(r) == r.closing /\ ~r.closed

\* epoll_connection_close: only the first caller asks.
firstClose(r) == ~r.closing /\ ~r.closed

epoll_connection_close(p) ==
  /\ req[p] = "closing"
  /\ conn' = [conn EXCEPT ![on[p]].closing = TRUE]
  /\ Ask(p, IF firstClose(conn[on[p]]) THEN "close" ELSE None)
  /\ UNCHANGED <<sock, cmds, wake, kernelVars, poolVars, stopping, pc, on, evs,
                 pend, loopVars, ghostVars, envVars>>

\* The next n bytes the application sends on c.
Bytes(c, n) == [i \in 1..n |-> accepted[c] + i]

\* What a direct send(2) may take of n bytes.
Taken(s, n) == IF s.space = 0 THEN {0}
               ELSE 1..(IF s.space < n THEN s.space ELSE n)

\* epoll_connection_send writes directly only past an empty, idle queue.
direct(r) == r.sends = <<>> /\ ~r.flushing

asksInterestMutant(r) == FALSE

\* request_write_interest.
asksInterest(r) == r.sends = <<>> /\ ~r.flushing

\* epoll_connection_send by thread p on c, with the connection's mutex held.
epoll_connection_send(p, c) ==
  LET r == conn[c]
      size == IF budget.sends - accepted[c] < SendSize
              THEN budget.sends - accepted[c] ELSE SendSize
      b == Bytes(c, size)
      keep(n) == \* n bytes went out, the others are queued
        IF n = size
        THEN /\ accepted' = [accepted EXCEPT ![c] = @ + size]
             /\ UNCHANGED <<conn, req, envVars>>
        ELSE \/ /\ conn' = [conn EXCEPT ![c].sends =
                              @ \o SubSeq(b, n + 1, size)]
                /\ accepted' = [accepted EXCEPT ![c] = @ + size]
                /\ Ask(p, IF asksInterest(r) THEN "refresh" ELSE None)
                /\ UNCHANGED envVars
             \/ /\ Failing       \* no memory for the item
                /\ accepted' = [accepted EXCEPT ![c] = @ + n]
                /\ Ask(p, IF n > 0 THEN "closing" ELSE None)
                /\ UNCHANGED conn
  IN IF r.closing \/ r.closed
     THEN UNCHANGED <<conn, req, accepted, sock, wire, envVars>>
     ELSE /\ size > 0
          /\ IF ~direct(r)
             THEN keep(0) /\ UNCHANGED <<sock, wire>>
             ELSE IF sock[c].rst \/ sock[c].shut \/ ~sock[c].open
             THEN Ask(p, "closing") /\ UNCHANGED <<conn, accepted, sock, wire, envVars>>
             ELSE \E n \in Taken(sock[c], size) :
                    /\ sock' = [sock EXCEPT ![c].space = @ - n]
                    /\ wire' = [wire EXCEPT ![c] = @ \o SubSeq(b, 1, n)]
                    /\ keep(n)

(***************************************************************************)
(* The application: callbacks run by a worker or, on_open, by the loop, and *)
(* a thread that sends on connections it keeps in a registry whose lock    *)
(* on_close takes.                                                         *)
(***************************************************************************)

InCallback(p) == req[p] = None /\ pc[p] \in {"callback", "open"}

\* A callback sends.
CallbackSend(p) ==
  /\ InCallback(p)
  /\ epoll_connection_send(p, on[p])
  /\ UNCHANGED <<cmds, wake, kernelVars, poolVars, stopping, pc, on, evs, pend,
                 loopVars>>

\* A callback closes its connection.
CallbackClose(p) ==
  /\ InCallback(p) /\ Spend("closes")
  /\ Ask(p, "closing")
  /\ UNCHANGED <<conn, sock, cmds, wake, kernelVars, poolVars, stopping, pc, on,
                 evs, pend, loopVars, ghostVars, failed>>

\* A callback returns: the worker receives on, the loop accepts on.
CallbackReturn(p) ==
  /\ InCallback(p)
  /\ Goto(p, IF p = Loop THEN "batch"
             ELSE IF "pri" \in evs[p] THEN "pri" ELSE "in")
  /\ on' = IF p = Loop THEN [on EXCEPT ![p] = None] ELSE on
  /\ UNCHANGED <<conn, sock, cmds, wake, kernelVars, poolVars, stopping, req,
                 evs, pend, loopVars, ghostVars, envVars>>

\* The application's thread sends on a connection of its registry, or closes it.
Registered(c) == conn[c].linked /\ ~poolStopping

AppSend(c) ==
  /\ req[App] = None /\ Registered(c)
  /\ on' = [on EXCEPT ![App] = c]
  /\ epoll_connection_send(App, c)
  /\ UNCHANGED <<cmds, wake, kernelVars, poolVars, stopping, pc, evs, pend,
                 loopVars>>

AppClose(c) ==
  /\ req[App] = None /\ Registered(c) /\ Spend("closes")
  /\ on' = [on EXCEPT ![App] = c]
  /\ Ask(App, "closing")
  /\ UNCHANGED <<conn, sock, cmds, wake, kernelVars, poolVars, stopping, pc, evs,
                 pend, loopVars, ghostVars, failed>>

\* epoll_server_stop; the write to the eventfd follows.
epoll_server_stop ==
  /\ req[App] = None /\ Spend("stops")
  /\ stopping' = TRUE /\ Ask(App, "notify")
  /\ UNCHANGED <<conn, sock, cmds, wake, kernelVars, poolVars, pc, on, evs, pend,
                 loopVars, ghostVars, failed>>

(***************************************************************************)
(* Workers: worker_main and process_connection.                            *)
(***************************************************************************)

\* A worker takes the first submitted connection, and its pool reference.
Take(w) ==
  /\ pc[w] = "idle" /\ ready # <<>>
  /\ on' = [on EXCEPT ![w] = Head(ready)]
  /\ ready' = Tail(ready) /\ Goto(w, "top")
  /\ UNCHANGED <<conn, sock, cmds, wake, kernelVars, poolStopping, stopping, req,
                 evs, pend, loopVars, ghostVars, envVars>>

\* worker_main returns when stopping finds the list empty.
WorkerExit(w) ==
  /\ pc[w] = "idle" /\ ready = <<>> /\ poolStopping
  /\ Goto(w, "exit")
  /\ UNCHANGED <<conn, sock, cmds, wake, kernelVars, poolVars, stopping, on, req,
                 evs, pend, loopVars, ghostVars, envVars>>

UnscheduledMutant(r) == r

\* The connection once its worker has found no more items.
Unscheduled(r) == [r EXCEPT !.scheduled = FALSE]

\* process_connection takes an item, or ends the round.
NextItem(w) ==
  LET r == conn[on[w]]
      dead == r.closed \/ r.closing
  IN /\ pc[w] = "top" /\ req[w] = None
     /\ IF r.events = <<>>
        THEN /\ conn' = [conn EXCEPT ![on[w]] = Unscheduled(@)]
             /\ Goto(w, "release") /\ UNCHANGED evs
        ELSE /\ conn' = [conn EXCEPT ![on[w]].events = Tail(@)]
             /\ evs' = [evs EXCEPT ![w] = Head(r.events)]
             /\ Goto(w, IF dead THEN "dead"
                        ELSE IF "pri" \in Head(r.events) THEN "pri" ELSE "in")
     /\ UNCHANGED <<sock, cmds, wake, kernelVars, poolVars, stopping, on, req,
                    pend, loopVars, ghostVars, envVars>>

\* drain_priority_input: an urgent byte and its callback, or on to the input.
drain_priority_input(w) ==
  LET s == sock[on[w]]
  IN /\ pc[w] = "pri" /\ req[w] = None
     /\ IF ~s.open \/ s.rst
        THEN Goto(w, "dead") /\ UNCHANGED <<sock, evs>>
        ELSE IF s.urgent > 0
        THEN /\ sock' = [sock EXCEPT ![on[w]].urgent = @ - 1]
             /\ Goto(w, "callback") /\ UNCHANGED evs
        ELSE /\ evs' = [evs EXCEPT ![w] = @ \ {"pri"}]
             /\ Goto(w, "in") /\ UNCHANGED sock
     /\ UNCHANGED <<conn, cmds, wake, kernelVars, poolVars, stopping, on, req,
                    pend, loopVars, ghostVars, envVars>>

\* drain_input: a byte and its callback, the end of the stream, or EAGAIN.
drain_input(w) ==
  LET s == sock[on[w]]
  IN /\ pc[w] = "in" /\ req[w] = None
     /\ IF "in" \notin evs[w] THEN Goto(w, "out") /\ UNCHANGED sock
        ELSE IF s.open /\ s.inb > 0 /\ ~s.rst
        THEN /\ sock' = [sock EXCEPT ![on[w]].inb = @ - 1]
             /\ Goto(w, "callback")
        ELSE /\ Goto(w, IF ~s.open \/ s.rst \/ s.fin \/ s.shut
                        THEN "dead" ELSE "out")
             /\ UNCHANGED sock
     /\ UNCHANGED <<conn, cmds, wake, kernelVars, poolVars, stopping, on, req, evs,
                    pend, loopVars, ghostVars, envVars>>

\* flush_output begins: one flusher, and not on a connection that is closing.
FlushBegin(w) ==
  LET r == conn[on[w]]
  IN /\ pc[w] = "out" /\ req[w] = None
     /\ IF "out" \notin evs[w] \/ (r.flushing /\ ~r.closing /\ ~r.closed)
        THEN Goto(w, "hup") /\ UNCHANGED <<conn, pend>>
        ELSE IF r.closing \/ r.closed
        THEN Goto(w, "dead") /\ UNCHANGED <<conn, pend>>
        ELSE /\ conn' = [conn EXCEPT ![on[w]].flushing = TRUE,
                                     ![on[w]].sends = <<>>]
             /\ pend' = [pend EXCEPT ![w] = r.sends]
             /\ Goto(w, "flush")
     /\ UNCHANGED <<sock, cmds, wake, kernelVars, poolVars, stopping, on, req, evs,
                    loopVars, ghostVars, envVars>>

\* Nothing pending: take what was queued meanwhile, or publish the empty queue.
FlushMore(w) ==
  LET c == on[w]
  IN /\ pc[w] = "flush" /\ pend[w] = <<>>
     /\ conn' = [conn EXCEPT ![c].sends = <<>>,
                             ![c].flushing = conn[c].sends # <<>>]
     /\ pend' = [pend EXCEPT ![w] = conn[c].sends]
     /\ IF conn[c].sends = <<>>
        THEN Goto(w, "hup") /\ Ask(w, "refresh")
        ELSE UNCHANGED <<pc, req>>
     /\ UNCHANGED <<sock, cmds, wake, kernelVars, poolVars, stopping, on, evs,
                    loopVars, ghostVars, envVars>>

\* write_pending, by write or writev: some of the pending bytes, or an error.
FlushWrite(w) ==
  LET c == on[w]
      broken == ~sock[c].open \/ sock[c].rst \/ sock[c].shut
  IN /\ pc[w] = "flush" /\ pend[w] # <<>>
     /\ IF broken \/ sock[c].space = 0
        THEN /\ Goto(w, IF broken THEN "broken" ELSE "blocked")
             /\ UNCHANGED <<sock, wire, pend>>
        ELSE \E n \in Taken(sock[c], Len(pend[w])) :
               /\ sock' = [sock EXCEPT ![c].space = @ - n]
               /\ wire' = [wire EXCEPT ![c] = @ \o SubSeq(pend[w], 1, n)]
               /\ pend' = [pend EXCEPT ![w] = SubSeq(@, n + 1, Len(@))]
               /\ UNCHANGED pc
     /\ UNCHANGED <<conn, cmds, wake, kernelVars, poolVars, stopping, on, req, evs,
                    loopVars, accepted, envVars>>

restore_pending_lockedMutant(r, left) ==
  [r EXCEPT !.sends = @ \o left, !.flushing = FALSE]

\* restore_pending_locked puts what is left before what was queued meanwhile.
restore_pending_locked(r, left) ==
  [r EXCEPT !.sends = left \o @, !.flushing = FALSE]

\* flush_output ends short: EAGAIN asks for EPOLLOUT, an error ends the
\* connection.
FlushStop(w) ==
  /\ pc[w] \in {"blocked", "broken"}
  /\ conn' = [conn EXCEPT ![on[w]] = restore_pending_locked(@, pend[w])]
  /\ pend' = [pend EXCEPT ![w] = <<>>]
  /\ IF pc[w] = "blocked"
     THEN Goto(w, "hup") /\ Ask(w, "refresh")
     ELSE Goto(w, "dead") /\ UNCHANGED req
  /\ UNCHANGED <<sock, cmds, wake, kernelVars, poolVars, stopping, on, evs,
                 loopVars, ghostVars, envVars>>

\* The end of an item: a hang-up or a failure closes the connection.
ItemEnd(w) ==
  /\ pc[w] \in {"hup", "dead"} /\ req[w] = None
  /\ Goto(w, "top")
  /\ Ask(w, IF pc[w] = "dead" \/ evs[w] \cap {"hup", "rdhup"} # {}
            THEN "closing" ELSE None)
  /\ evs' = [evs EXCEPT ![w] = {}]
  /\ UNCHANGED <<conn, sock, cmds, wake, kernelVars, poolVars, stopping, on, pend,
                 loopVars, ghostVars, envVars>>

\* The worker gives its reference back.
WorkerRelease(w) ==
  /\ pc[w] = "release"
  /\ conn' = [conn EXCEPT ![on[w]] = Released(@, 1)]
  /\ on' = [on EXCEPT ![w] = None] /\ Goto(w, "idle")
  /\ UNCHANGED <<sock, cmds, wake, kernelVars, poolVars, stopping, req, evs, pend,
                 loopVars, ghostVars, envVars>>

(***************************************************************************)
(* The loop: epoll_server_run, then epoll_server_destroy by the same       *)
(* thread.                                                                 *)
(***************************************************************************)

LoopAt(l) == pc[Loop] = l /\ req[Loop] = None

\* The sources epoll_wait may report: the listener, the eventfd, connections.
Sources ==
  (IF knock THEN {[src |-> "listener", ev |-> {"in"}]} ELSE {})
    \cup (IF wake THEN {[src |-> "eventfd", ev |-> {"in"}]} ELSE {})
    \cup {[src |-> c, ev |-> Reported(sock[c])] :
            c \in {x \in Conns : sock[x].edge /\ Reported(sock[x]) # {}}}

\* The orders in which n of them may be reported.
Orders(n) == {f \in [1..n -> Sources] :
                \A i, j \in 1..n : f[i] = f[j] => i = j}

\* epoll_wait: a batch of at most max_events; an edge is reported once.
EpollWait ==
  LET n == IF Cardinality(Sources) < MaxEvents THEN Cardinality(Sources)
           ELSE MaxEvents
  IN /\ LoopAt("wait") /\ n > 0
     /\ \E b \in Orders(n) :
          LET got == {b[i].src : i \in 1..n}
          IN /\ batch' = b
             /\ knock' = (knock /\ "listener" \notin got)
             /\ wake' = (wake /\ "eventfd" \notin got)
             /\ sock' = [c \in Conns |-> IF c \in got
                          THEN [sock[c] EXCEPT !.edge = FALSE] ELSE sock[c]]
     /\ Goto(Loop, "batch")
     /\ UNCHANGED <<conn, cmds, backlog, poolVars, stopping, on, req, evs, pend,
                    todo, mod, ghostVars, envVars>>

\* The batch is done: the loop waits again, or ends with a last drain.  A stop
\* after this look at stopping has only its write to the eventfd to end the wait.
BatchEnd ==
  /\ LoopAt("batch") /\ batch = <<>>
  /\ Goto(Loop, IF stopping THEN "final" ELSE "wait")
  /\ UNCHANGED <<conn, sock, cmds, wake, kernelVars, poolVars, stopping, on, req,
                 evs, pend, loopVars, ghostVars, envVars>>

At(src) == LoopAt("batch") /\ batch # <<>> /\ Head(batch).src = src

\* accept_connections: a connection and its on_open; without memory or when
\* epoll_ctl fails it is dropped; accept4 failing or empty ends the loop.
accept_connections ==
  /\ At("listener")
  /\ \/ \E c \in backlog :
          /\ backlog' = backlog \ {c}
          /\ UNCHANGED batch
          /\ \/ /\ conn' = [conn EXCEPT ![c] = [Unborn EXCEPT
                              !.mem = "live", !.refs = 1, !.linked = TRUE]]
                /\ sock' = [sock EXCEPT ![c] = FreshSocket]
                /\ on' = [on EXCEPT ![Loop] = c]
                /\ Goto(Loop, "open") /\ UNCHANGED envVars
             \/ /\ Failing
                /\ conn' = [conn EXCEPT ![c] = [Unborn EXCEPT !.mem = "freed"]]
                /\ UNCHANGED <<sock, on, pc>>
     \/ /\ \/ backlog = {} /\ UNCHANGED envVars
           \/ Failing
        /\ batch' = Tail(batch)
        /\ UNCHANGED <<conn, sock, on, pc, backlog>>
  /\ UNCHANGED <<cmds, wake, knock, poolVars, stopping, req, evs, pend, todo,
                 mod, ghostVars>>

coalescedMutant(r, ev) ==
  IF r.scheduled THEN ev \ {"in"} ELSE ev

\* enqueue_event drops EPOLLIN when an item still queued carries it.
coalesced(r, ev) ==
  IF \E i \in 1..Len(r.events) : "in" \in r.events[i] THEN ev \ {"in"} ELSE ev

\* enqueue_event on the connection a batch entry points to: append the item and
\* claim the submission.  What it does with a freed object is undefined.
enqueue_event ==
  /\ LoopAt("batch") /\ batch # <<>> /\ Head(batch).src \in Conns
  /\ LET c == Head(batch).src
         r == conn[c]
         ev == coalesced(r, Head(batch).ev)
     IN IF r.mem # "live"
        THEN Goto(Loop, "undefined") /\ UNCHANGED <<conn, batch, on, req, envVars>>
        ELSE /\ batch' = Tail(batch)
             /\ \/ /\ IF r.closing \/ r.closed \/ ev = {}
                      THEN UNCHANGED <<conn, pc, on>>
                      ELSE /\ conn' = [conn EXCEPT ![c].events = Append(@, ev),
                                                   ![c].scheduled = TRUE]
                           /\ IF r.scheduled THEN UNCHANGED <<pc, on>>
                              ELSE /\ Goto(Loop, "submit")
                                   /\ on' = [on EXCEPT ![Loop] = c]
                   /\ UNCHANGED <<req, envVars>>
                \/ /\ Failing        \* no memory for the item
                   /\ on' = [on EXCEPT ![Loop] = c] /\ Ask(Loop, "closing")
                   /\ UNCHANGED <<conn, pc>>
  /\ UNCHANGED <<sock, cmds, wake, kernelVars, poolVars, stopping, evs, pend, todo,
                 mod, ghostVars>>

\* pool_submit, and enqueue_event's rollback when the pool is stopping.
pool_submit ==
  /\ LoopAt("submit")
  /\ IF poolStopping
     THEN /\ conn' = [conn EXCEPT ![on[Loop]].scheduled = FALSE]
          /\ Ask(Loop, "closing") /\ UNCHANGED ready
     ELSE /\ conn' = [conn EXCEPT ![on[Loop]].refs = @ + 1]
          /\ ready' = Append(ready, on[Loop]) /\ UNCHANGED req
  /\ Goto(Loop, "batch")
  /\ UNCHANGED <<sock, cmds, wake, kernelVars, poolStopping, stopping, on, evs,
                 pend, loopVars, ghostVars, envVars>>

\* drain_commands takes the whole list: for an event of the eventfd, at the end
\* of epoll_server_run, and in epoll_server_destroy once the workers are gone.
drain_commands ==
  /\ \/ At("eventfd") /\ batch' = Tail(batch) /\ Goto(Loop, "each")
     \/ LoopAt("final") /\ Goto(Loop, "eachFinal") /\ UNCHANGED batch
     \/ LoopAt("last") /\ Goto(Loop, "eachLast") /\ UNCHANGED batch
  /\ wake' = FALSE
  /\ todo' = cmds /\ cmds' = <<>>
  /\ UNCHANGED <<conn, sock, kernelVars, poolVars, stopping, on, req, evs, pend,
                 mod, ghostVars, envVars>>

\* The commands taken have been applied.
CommandsDone ==
  /\ req[Loop] = None /\ todo = <<>>
  /\ \/ LoopAt("each") /\ Goto(Loop, "batch")
     \/ LoopAt("eachFinal") /\ Goto(Loop, "destroy")
     \/ LoopAt("eachLast") /\ Goto(Loop, "reap")
  /\ UNCHANGED <<conn, sock, cmds, wake, kernelVars, poolVars, stopping, on, req,
                 evs, pend, loopVars, ghostVars, envVars>>

Applying(type) == /\ pc[Loop] \in {"each", "eachFinal", "eachLast"}
                  /\ req[Loop] = None /\ mod = None
                  /\ todo # <<>> /\ Head(todo).type = type

\* apply_command, CLOSE: close the descriptor, call on_close, which waits for the
\* registry, and give up the loop's reference and the command's.
ApplyClose ==
  LET c == Head(todo).c
  IN /\ Applying("close")
     /\ on[App] # c \/ req[App] = None
     /\ todo' = Tail(todo)
     /\ IF conn[c].closed
        THEN conn' = [conn EXCEPT ![c] = Released(@, 1)] /\ UNCHANGED sock
        ELSE /\ conn' = [conn EXCEPT ![c] =
                    Released([@ EXCEPT !.closed = TRUE, !.closing = TRUE,
                                       !.linked = FALSE], 2)]
             /\ sock' = [sock EXCEPT ![c] = ClosedSocket]
     /\ UNCHANGED <<cmds, wake, kernelVars, poolVars, stopping, pc, on, req, evs,
                    pend, batch, mod, ghostVars, envVars>>

\* apply_command, REFRESH: note the interest under the mutex.
ApplyRefresh ==
  LET c == Head(todo).c
      r == conn[c]
      hasOutput == r.sends # <<>>
  IN /\ Applying("refresh")
     /\ conn' = [conn EXCEPT ![c].writeInterest = hasOutput]
     /\ mod' = IF ~r.closing /\ ~r.closed /\ r.writeInterest # hasOutput
               THEN IF hasOutput THEN "on" ELSE "off"
               ELSE "done"
     /\ UNCHANGED <<sock, cmds, wake, kernelVars, poolVars, stopping, pc, on, req,
                    evs, pend, batch, todo, ghostVars, envVars>>

\* Then change the registration, which reports a ready socket anew.
Modify ==
  LET c == Head(todo).c
      s == [sock[c] EXCEPT !.out = (mod = "on")]
  IN /\ mod \in {"on", "off"}
     /\ mod' = "done"
     /\ \/ /\ sock' = [sock EXCEPT ![c] =
                  [s EXCEPT !.edge = @ \/ Reported(s) # {}]]
           /\ UNCHANGED <<on, req, envVars>>
        \/ /\ Failing /\ UNCHANGED sock
           /\ on' = [on EXCEPT ![Loop] = c] /\ Ask(Loop, "closing")
     /\ UNCHANGED <<conn, cmds, wake, kernelVars, poolVars, stopping, pc, evs, pend,
                    batch, todo, ghostVars>>

\* The end of a refresh: the command's reference.
Refreshed ==
  /\ mod = "done" /\ req[Loop] = None
  /\ mod' = None /\ todo' = Tail(todo)
  /\ conn' = [conn EXCEPT ![Head(todo).c] = Released(@, 1)]
  /\ UNCHANGED <<sock, cmds, wake, kernelVars, poolVars, stopping, pc, on, req, evs,
                 pend, batch, ghostVars, envVars>>

AfterPoolMutant == "reap"

\* What follows pool_destroy in epoll_server_destroy: drain_commands.
AfterPool == "last"

\* epoll_server_destroy, after epoll_server_run and the application's own
\* threads: pool_destroy stops and joins the workers, ...
Destroy ==
  /\ \/ /\ LoopAt("destroy") /\ req[App] = None
        /\ poolStopping' = TRUE /\ Goto(Loop, "join")
     \/ /\ LoopAt("join") /\ \A w \in Workers : pc[w] = "exit"
        /\ Goto(Loop, AfterPool) /\ UNCHANGED poolStopping
  /\ UNCHANGED <<conn, sock, cmds, wake, kernelVars, ready, stopping, on, req, evs,
                 pend, loopVars, ghostVars, envVars>>

\* ... and the connections left are closed.
Reap ==
  /\ LoopAt("reap")
  /\ \/ \E c \in Conns :
          /\ conn[c].linked
          /\ conn' = [conn EXCEPT ![c] =
               Released([@ EXCEPT !.closed = TRUE, !.linked = FALSE], 1)]
          /\ sock' = [sock EXCEPT ![c] = ClosedSocket]
          /\ UNCHANGED pc
     \/ /\ \A c \in Conns : ~conn[c].linked
        /\ Goto(Loop, "done") /\ UNCHANGED <<conn, sock>>
  /\ UNCHANGED <<cmds, wake, kernelVars, poolVars, stopping, on, req, evs, pend,
                 loopVars, ghostVars, envVars>>

Terminated == pc[Loop] \in {"done", "undefined"} /\ UNCHANGED vars

Calls(p) == \/ request_command(p) \/ notify_loop(p) \/ epoll_connection_close(p)

WorkerStep(w) ==
  \/ Calls(w) \/ CallbackReturn(w)
  \/ Take(w) \/ WorkerExit(w) \/ NextItem(w)
  \/ drain_priority_input(w) \/ drain_input(w)
  \/ FlushBegin(w) \/ FlushMore(w) \/ FlushWrite(w) \/ FlushStop(w)
  \/ ItemEnd(w) \/ WorkerRelease(w)

LoopStep ==
  \/ Calls(Loop) \/ CallbackReturn(Loop)
  \/ EpollWait \/ BatchEnd \/ accept_connections
  \/ enqueue_event \/ pool_submit
  \/ drain_commands \/ CommandsDone
  \/ ApplyClose \/ ApplyRefresh \/ Modify \/ Refreshed
  \/ Destroy \/ Reap

Next ==
  \/ \E c \in Conns : Connect(c) \/ Peer(c) \/ PeerReads(c)
  \/ \E c \in Conns : AppSend(c) \/ AppClose(c)
  \/ \E p \in Workers \cup {Loop} : CallbackSend(p) \/ CallbackClose(p)
  \/ epoll_server_stop \/ Calls(App)
  \/ \E w \in Workers : WorkerStep(w)
  \/ LoopStep
  \/ Terminated

Spec == Init /\ [][Next]_vars

\* The threads run, and a peer that stays reads on.  That some worker runs is
\* enough: what there is to do is finite.
FairSpec ==
  /\ Spec
  /\ WF_vars(\E w \in Workers : WorkerStep(w))
  /\ WF_vars(LoopStep) /\ WF_vars(Calls(App))
  /\ WF_vars(\E c \in Conns : PeerReads(c))

(***************************************************************************)
(* Properties.                                                             *)
(***************************************************************************)

\* No allocation or system call has failed so far.
Healthy == ~failed

Commands(c) == {i \in 1..Len(cmds) : cmds[i].c = c}
Applied(c) == {i \in 1..Len(todo) : todo[i].c = c}
Submitted(c) == {i \in 1..Len(ready) : ready[i] = c}
HeldBy(c) == {w \in Workers : on[w] = c}

\* The references of an object are exactly those of the loop's list, the pool's
\* list, the workers and the commands, and it is freed with the last of them:
\* no worker and no command ever reaches a freed connection, and none is left
\* when epoll_server_destroy ends.  It is in the pool's list or with a worker at
\* most once, and exactly while scheduled is set: no two workers process it at a
\* time.
RefsCounted ==
  \A c \in Conns :
    LET holders == (IF conn[c].linked THEN 1 ELSE 0) + Cardinality(Commands(c))
                     + Cardinality(Applied(c)) + Cardinality(Submitted(c))
                     + Cardinality(HeldBy(c))
        held == {w \in HeldBy(c) : pc[w] # "release"}
        entering == pc[Loop] = "submit" /\ on[Loop] = c
    IN /\ conn[c].refs = holders
       /\ conn[c].mem = "live" <=> holders > 0
       /\ pc[Loop] = "done" /\ Healthy => holders = 0 /\ ~sock[c].open
       /\ Cardinality(Submitted(c)) + Cardinality(held) + (IF entering THEN 1 ELSE 0)
            = (IF conn[c].scheduled THEN 1 ELSE 0)

\* Bytes reach the socket in the order epoll_connection_send accepted them,
\* none lost or doubled between the direct write, the queue and the list a
\* flush has detached.
OutputInOrder ==
  \A c \in Conns :
    LET flushed == {w \in HeldBy(c) : pend[w] # <<>>}
        held == IF flushed = {} THEN <<>> ELSE pend[CHOOSE w \in flushed : TRUE]
    IN wire[c] \o held \o conn[c].sends = [i \in 1..accepted[c] |-> i]

\* Every object the loop reaches through epoll_event.data.ptr is alive.
LoopSeesLive == pc[Loop] # "undefined"

Over(c) == stopping \/ ~Healthy \/ conn[c].closing

\* Input is received, however its edge meets the end of the round that was
\* draining the socket or the coalescing of a queued item: connections do not
\* stay with input unread.
InputServed ==
  LET waits == \E c \in Conns : sock[c].inb > 0 /\ ~Over(c)
  IN waits ~> ~waits

\* Every byte a send accepted is written, as long as the peer reads, whatever
\* the order in which senders, flushes and refreshes met.
OutputServed ==
  LET waits == \E c \in Conns : Len(wire[c]) < accepted[c] /\ ~Over(c)
  IN waits ~> ~waits

\* A connection asked to close is closed by the loop, and the destruction of a
\* stopped server ends.
CloseServed ==
  LET waits == \/ \E c \in Conns : conn[c].closing /\ ~conn[c].closed /\ Healthy
               \/ stopping /\ pc[Loop] # "done"
  IN waits ~> ~waits
=============================================================================
