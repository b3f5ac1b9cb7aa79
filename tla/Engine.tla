------------------------------- MODULE Engine -------------------------------
(***************************************************************************)
(* The scheduling core of the Go engine on its Linux backend: the event    *)
(* loop (engine.go, poller_epoll.go), the workers that run a connection's  *)
(* round (connection.go: process), the write queue with its cork and its   *)
(* flush, the read back-pressure (watermark and engine-wide budget), and   *)
(* the application goroutines that use a connection from outside.          *)
(*                                                                         *)
(* One action is one critical section of Connection.mu, or one step of the *)
(* loop.  Bytes are numbered in the order Send accepted them, so that the  *)
(* wire can be compared with what was accepted.  The socket is the         *)
(* kernel's and external: an edge-triggered descriptor.                    *)
(***************************************************************************)
EXTENDS Integers, Sequences, FiniteSets, FiniteSetsExt, Functions

CONSTANTS
    Conns,          \* connections
    Workers, Apps,  \* goroutines of the task pool, and of the application
    AppConn,        \* the connection each application goroutine uses
    None,           \* no connection
    Configs         \* the configurations and environments an engine may run in

Procs == Workers \cup Apps
OpNames == {"send", "sendfile", "flush", "closeAfterSend", "close", "panic"}

\* What a configuration says.
ConfigOK(g) ==
    /\ g.readBufferSize \in Nat \ {0}
    /\ g.high \in Int                \* WriteBufferHighWatermark; 0 or less disables it
    /\ g.budget \in Nat              \* MaxPendingBytes; 0 is unlimited
    /\ g.inlineHandlers \in BOOLEAN
    /\ g.concurrency \in Nat         \* rounds the task pool runs at a time
    /\ g.refuses \in BOOLEAN         \* whether GoTasks may refuse tasks (a stopping pool)
    /\ g.conns \subseteq Conns       \* the connections accepted and registered
    /\ g.sndBuf \in Nat \ {0}        \* bytes the kernel's send buffer holds
    /\ g.maxIn \in [Conns -> Nat]    \* bound: bytes the peer sends
    /\ g.maxOut \in [Conns -> Nat]   \* bound: bytes Send accepts
    /\ g.sendSizes \subseteq Nat \ {0}
    /\ g.handlerOps \subseteq OpNames              \* what a callback may do
    /\ g.appOps \in [Apps -> SUBSET OpNames]      \* what an application goroutine may do
    /\ g.maxOps \in Nat              \* bound: operations per callback, and per such goroutine
    /\ g.peerActs \subseteq {"data", "oob", "fin", "rst"}  \* what a peer does besides reading

ASSUME EngineAssumption ==
    /\ IsFiniteSet(Conns) /\ IsFiniteSet(Workers) /\ IsFiniteSet(Apps)
    /\ Workers \cap Apps = {} /\ None \notin Conns
    /\ AppConn \in [Apps -> Conns]
    /\ \A g \in Configs : ConfigOK(g)

NoRef == [c |-> None]

VARIABLES
    config,        \* the configuration, which never changes
    conn,          \* the Connection fields guarded by mu, except scheduled
    scheduled,     \* Connection.scheduled
    ready,         \* Run's ready list: how often each connection stands in it
    redeliver,     \* Engine.redeliver, likewise
    tasks,         \* rounds the pool has accepted and not started, likewise
    pc, on, ret,   \* per goroutine: where it is, on which connection, and
                   \* where the call it is in comes back to
    proc,          \* per goroutine: its local variables
    quota,         \* per goroutine: operations left, in this callback or at all
    lpc, loop,     \* where the loop is, and its local variables
    commands,      \* Engine.commands
    budgetPaused,  \* Engine.budgetPaused
    pendingTotal,  \* Engine.pendingTotal
    sock,          \* the kernel's side of each descriptor
    hist           \* history: what was accepted, put on the wire, delivered, closed

connVars == <<conn, scheduled>>
lists == <<ready, redeliver, tasks>>
procVars == <<pc, on, ret, proc, quota>>
loopVars == <<lpc, loop, budgetPaused>>
vars == <<connVars, lists, procVars, loopVars, commands, pendingTotal, sock, hist>>

-----------------------------------------------------------------------------
(* Readiness bits, the watermarks and the pause decision.                  *)

evAll == {"in", "pri", "out", "err", "hup", "rdhup"}

writeLowWatermark == config.high \div 4
budgetResumeBytes == config.budget \div 4

ByBudget(total) == config.budget > 0 /\ total >= config.budget

\* pauseDecision: the budget first, then the watermark with its hysteresis.
PauseDecision(bytes, total, paused) ==
    \/ ByBudget(total)
    \/ /\ config.high > 0
       /\ bytes >= config.high \/ (paused /\ bytes > writeLowWatermark)

\* Mutant: a refresh is asked for when reads should stop, never to resume them.
PauseStateChangedMutant(c, bytes, total) ==
    ~conn[c].readPaused /\ PauseDecision(bytes, total, conn[c].readPaused)

\* pauseStateChangedLocked, for a backlog and a total just updated.
PauseStateChanged(c, bytes, total) ==
    PauseDecision(bytes, total, conn[c].readPaused) # conn[c].readPaused

overWriteWatermark(c) == PauseDecision(conn[c].pendingBytes, pendingTotal, FALSE)

Usable(c) == ~conn[c].closing /\ ~conn[c].closed
hasQueuedOutput(c) == conn[c].sends # <<>>
sendClosed(c) == ~Usable(c) \/ conn[c].closeAfterSend

\* Mutant: a direct write overtakes what is queued.
canWriteDirectlyMutant(c) == ~conn[c].flushing /\ ~conn[c].corked

canWriteDirectly(c) == ~hasQueuedOutput(c) /\ ~conn[c].flushing /\ ~conn[c].corked

Memory(items) == Len(SelectSeq(items, LAMBDA b : ~b.file))

-----------------------------------------------------------------------------
(* The kernel's socket (external).                                         *)

\* What polling a descriptor in state s finds under its interest mask.
Readiness(s) ==
    (IF (s.in > 0 \/ s.fin \/ s.rst) /\ s.pollIn THEN {"in"} ELSE {})
        \cup (IF s.oob THEN {"pri"} ELSE {})
        \cup (IF s.space > 0 \/ s.rst THEN {"out"} ELSE {})
        \cup (IF s.fin \/ s.rst THEN {"rdhup"} ELSE {})
        \cup (IF s.rst THEN {"err", "hup"} ELSE {})

\* Polling a full send buffer asks for a write edge, as a short write does.
Polled(s) == [s EXCEPT !.nospace = @ \/ s.space = 0]

Reported(c) == IF sock[c].open /\ sock[c].edge THEN Readiness(sock[c]) ELSE {}

\* The peer sends, raising an edge only while read interest is registered.
PeerSend(c) ==
    /\ "data" \in config.peerActs /\ sock[c].open
    /\ sock[c].left > 0 /\ ~sock[c].fin /\ ~sock[c].rst
    /\ sock' = [sock EXCEPT ![c].left = @ - 1, ![c].in = @ + 1,
                            ![c].edge = @ \/ sock[c].pollIn]
    /\ UNCHANGED <<connVars, lists, procVars, loopVars, commands, pendingTotal, hist>>

PeerSignal(c) ==
    /\ sock[c].open /\ ~sock[c].rst
    /\ \/ /\ "oob" \in config.peerActs /\ ~sock[c].oob /\ ~sock[c].fin /\ sock[c].left > 0
          /\ sock' = [sock EXCEPT ![c].oob = TRUE, ![c].left = @ - 1, ![c].edge = TRUE]
       \/ /\ "fin" \in config.peerActs /\ ~sock[c].fin
          /\ sock' = [sock EXCEPT ![c].fin = TRUE, ![c].edge = TRUE]
       \/ /\ "rst" \in config.peerActs
          /\ sock' = [sock EXCEPT ![c].rst = TRUE, ![c].in = 0, ![c].edge = TRUE]
    /\ UNCHANGED <<connVars, lists, procVars, loopVars, commands, pendingTotal, hist>>

\* The peer reads, which frees send space; only a sender that was turned away
\* (SOCK_NOSPACE) gets a write edge for it.
PeerDrain(c) ==
    /\ sock[c].open /\ sock[c].space < config.sndBuf
    /\ sock' = [sock EXCEPT ![c].space = config.sndBuf, ![c].nospace = FALSE,
                            ![c].edge = @ \/ sock[c].nospace]
    /\ UNCHANGED <<connVars, lists, procVars, loopVars, commands, pendingTotal, hist>>

-----------------------------------------------------------------------------
(* Goroutines.  A call is a jump to the callee's label, with ret naming    *)
(* where it comes back; proc.fail is whether the callee returned an error, *)
(* and proc.err whether the round has a closeErr.                          *)

Goto(p, label) == pc' = [pc EXCEPT ![p] = label]
Call(p, label, back) ==
    /\ Goto(p, label)
    /\ ret' = [ret EXCEPT ![p] = back]
    /\ proc' = [proc EXCEPT ![p].fail = FALSE]
At(p, label) == pc[p] = label
Local == UNCHANGED <<on, quota, lists, loopVars>>

\* Where an operation of a callback, or of the application, comes back to.
Home(p) == IF p \in Workers THEN "handler" ELSE "idle"

\* Mutant: the test comes after closing was set, so nobody queues the command.
CloseWithErrorMutant(p) ==
    /\ At(p, "close")
    /\ conn' = [conn EXCEPT ![on[p]].closing = TRUE]
    /\ proc' = [proc EXCEPT ![p].soft = FALSE]
    /\ Goto(p, ret[p])
    /\ Local /\ UNCHANGED <<scheduled, ret, commands, pendingTotal, sock, hist>>

\* closeWithError: the first to set closing queues the close command.  "soft"
\* says the caller is CloseAfterSend's machinery, which history remembers.
CloseWithError(p) ==
    LET c == on[p]
        first == Usable(c) IN
    /\ At(p, "close")
    /\ conn' = [conn EXCEPT ![c].closing = TRUE]
    /\ hist' = [hist EXCEPT ![c].hard = @ \/ (first /\ ~proc[p].soft)]
    /\ proc' = [proc EXCEPT ![p].cmd = "close", ![p].soft = FALSE]
    /\ Goto(p, IF first THEN "request" ELSE ret[p])
    /\ Local /\ UNCHANGED <<scheduled, ret, commands, pendingTotal, sock>>

\* request: the command queue as the loop sees it (CommandQueue details it).
Request(p) ==
    /\ At(p, "request")
    /\ commands' = Append(commands, [kind |-> proc[p].cmd, c |-> on[p]])
    /\ proc' = [proc EXCEPT ![p].cmd = "refresh"]
    /\ Goto(p, ret[p])
    /\ Local /\ UNCHANGED <<connVars, ret, pendingTotal, sock, hist>>

RequestRefresh(p, wanted, back) ==
    /\ Goto(p, IF wanted THEN "request" ELSE back)
    /\ proc' = [proc EXCEPT ![p].cmd = "refresh"]
    /\ ret' = [ret EXCEPT ![p] = back]

\* uncork, as Flush and a read round that filled the write budget call it.
Uncork(p) ==
    LET c == on[p]
        flush == conn[c].corked /\ hasQueuedOutput(c) IN
    /\ At(p, "uncork")
    /\ conn' = [conn EXCEPT ![c].corked = FALSE]
    /\ Goto(p, IF flush THEN "flush" ELSE ret[p])
    /\ Local /\ UNCHANGED <<scheduled, ret, proc, commands, pendingTotal, sock, hist>>

mayFlush(c) == Usable(c) /\ ~conn[c].flushing

\* flushOutput, its entry: one flush at a time.
FlushOutput(p) ==
    LET c == on[p] IN
    /\ At(p, "flush")
    /\ \/ /\ mayFlush(c)
          /\ conn' = [conn EXCEPT ![c].flushing = TRUE]
          /\ Goto(p, "write") /\ UNCHANGED proc
       \/ /\ ~mayFlush(c)
          /\ Goto(p, ret[p])
          /\ proc' = [proc EXCEPT ![p].fail = ~Usable(c)]
          /\ UNCHANGED conn
    /\ Local /\ UNCHANGED <<scheduled, ret, commands, pendingTotal, sock, hist>>

\* flushOutput, the queue is empty.
FlushDone(p) ==
    LET c == on[p]
        changed == PauseStateChanged(c, conn[c].pendingBytes, pendingTotal) IN
    /\ At(p, "write") /\ ~hasQueuedOutput(c)
    /\ conn' = [conn EXCEPT ![c].flushing = FALSE]
    /\ IF conn[c].closeAfterSend
       THEN /\ Goto(p, "close") /\ UNCHANGED ret
            /\ proc' = [proc EXCEPT ![p].soft = TRUE]
       ELSE RequestRefresh(p, changed, ret[p])
    /\ Local /\ UNCHANGED <<scheduled, commands, pendingTotal, sock, hist>>

\* The bytes one write may take: writev gathers memory items up to a file,
\* write takes one item, a file goes out on its own.
HeadRun(items) ==
    Max({k \in 1..Len(items) : \A i \in 1..k : items[i].file = items[1].file})

\* Mutant: the total loses the whole backlog, whatever part of it was sent.
subPendingMutant(bytes, total, n) == <<Max({bytes - n, 0}), total - bytes>>

\* subPending with its clamp, as <<the connection's bytes, the total>>.
subPending(bytes, total, n) == <<Max({bytes - n, 0}), total - Min({n, bytes})>>

\* flushOutput, one write of a run of "attempted" bytes: it takes n of them;
\* taking fewer, none included (EAGAIN), ends the flush until the write edge.
FlushWrite(p) ==
    LET c == on[p] IN
    /\ At(p, "write") /\ hasQueuedOutput(c) /\ ~sock[c].rst
    /\ \E attempted \in 1..HeadRun(conn[c].sends) :
        LET n == Min({attempted, sock[c].space})
            sent == SubSeq(conn[c].sends, 1, n)
            left == subPending(conn[c].pendingBytes, pendingTotal, Memory(sent)) IN
        /\ conn' = [conn EXCEPT ![c].sends = SubSeq(@, n + 1, Len(@)),
                                ![c].pendingBytes = left[1],
                                ![c].flushing = (n = attempted)]
        /\ pendingTotal' = left[2]
        /\ hist' = [hist EXCEPT ![c].wire = @ \o [i \in 1..n |-> sent[i].id]]
        /\ sock' = [sock EXCEPT ![c].space = @ - n, ![c].nospace = @ \/ n < attempted]
        /\ IF n = attempted
           THEN UNCHANGED <<pc, ret, proc>>
           ELSE RequestRefresh(p, PauseStateChanged(c, left[1], left[2]), ret[p])
    /\ Local /\ UNCHANGED <<scheduled, commands>>

\* flushOutput, the socket was reset: the error goes to the caller.
FlushError(p) ==
    LET c == on[p] IN
    /\ At(p, "write") /\ hasQueuedOutput(c) /\ sock[c].rst
    /\ conn' = [conn EXCEPT ![c].flushing = FALSE]
    /\ Goto(p, ret[p])
    /\ proc' = [proc EXCEPT ![p].fail = TRUE]
    /\ Local /\ UNCHANGED <<scheduled, ret, commands, pendingTotal, sock, hist>>

Flushing(p) == FlushOutput(p) \/ FlushDone(p) \/ FlushWrite(p) \/ FlushError(p)

-----------------------------------------------------------------------------
(* What callbacks and application goroutines call on a connection.         *)

\* send and SendParts: the bytes go straight to the socket when nothing is
\* queued, flushing or corked, and what the socket does not take is queued.
Send(p, k) ==
    LET c == on[p]
        h == hist[c]
        direct == canWriteDirectly(c)
        n == IF direct THEN Min({k, sock[c].space}) ELSE 0
        bytes == conn[c].pendingBytes + (k - n)
        total == pendingTotal + (k - n) IN
    /\ ~sendClosed(c) /\ h.accepted + k <= config.maxOut[c]
    /\ UNCHANGED <<scheduled, commands>>
    /\ IF direct /\ sock[c].rst
       THEN /\ Goto(p, "close") /\ ret' = [ret EXCEPT ![p] = Home(p)]
            /\ UNCHANGED <<conn, proc, pendingTotal, sock, hist>>
       ELSE /\ conn' = [conn EXCEPT
                  ![c].sends = @ \o [i \in 1..(k - n) |->
                                        [id |-> h.accepted + n + i, file |-> FALSE]],
                  ![c].pendingBytes = bytes]
            /\ pendingTotal' = total
            /\ hist' = [hist EXCEPT ![c].accepted = @ + k,
                                    ![c].wire = @ \o [i \in 1..n |-> h.accepted + i]]
            /\ sock' = [sock EXCEPT ![c].space = @ - n,
                                    ![c].nospace = @ \/ (direct /\ n < k)]
            /\ RequestRefresh(p, n < k /\ ~conn[c].corked /\ PauseStateChanged(c, bytes, total),
                              Home(p))

\* SendFile: the file is queued behind everything accepted before it, and
\* flushed at once when nothing else will flush it.  Its bytes are not pending.
SendFile(p, k) ==
    LET c == on[p]
        h == hist[c] IN
    /\ ~sendClosed(c) /\ h.accepted + k <= config.maxOut[c]
    /\ conn' = [conn EXCEPT ![c].sends = @ \o [i \in 1..k |->
                                                  [id |-> h.accepted + i, file |-> TRUE]]]
    /\ hist' = [hist EXCEPT ![c].accepted = @ + k]
    /\ IF canWriteDirectly(c) THEN Call(p, "flush", "sent") ELSE UNCHANGED <<pc, ret, proc>>
    /\ UNCHANGED <<scheduled, commands, pendingTotal, sock>>

\* SendFile after its flush: an error closes the connection.
SendFileReturn(p) ==
    /\ At(p, "sent")
    /\ Goto(p, IF proc[p].fail THEN "close" ELSE Home(p))
    /\ ret' = [ret EXCEPT ![p] = Home(p)]
    /\ Local /\ UNCHANGED <<connVars, proc, commands, pendingTotal, sock, hist>>

\* Mutant: the queue is not looked at.
closeNowEager(c) == ~conn[c].flushing

closeNow(c) == ~hasQueuedOutput(c) /\ ~conn[c].flushing

\* closeAfterSendRaw.
CloseAfterSend(p) ==
    LET c == on[p] IN
    /\ ~sendClosed(c)
    /\ conn' = [conn EXCEPT ![c].closeAfterSend = TRUE]
    /\ IF closeNow(c)
       THEN /\ Goto(p, "close") /\ ret' = [ret EXCEPT ![p] = Home(p)]
            /\ proc' = [proc EXCEPT ![p].soft = TRUE]
       ELSE UNCHANGED <<pc, ret, proc>>
    /\ UNCHANGED <<scheduled, commands, pendingTotal, sock, hist>>

\* Mutant: the panic leaves the connection scheduled.
PanicMutant(p) ==
    /\ p \in Workers
    /\ Goto(p, "close") /\ ret' = [ret EXCEPT ![p] = "idle"]
    /\ UNCHANGED <<connVars, proc, commands, pendingTotal, sock, hist>>

\* A callback panics: process gives the connection up before it closes it.
Panic(p) ==
    /\ p \in Workers
    /\ scheduled' = [scheduled EXCEPT ![on[p]] = FALSE]
    /\ Goto(p, "close") /\ ret' = [ret EXCEPT ![p] = "idle"]
    /\ UNCHANGED <<conn, proc, commands, pendingTotal, sock, hist>>

\* One call by a callback in progress or by an idle application goroutine.
Operate(p) ==
    LET ops == IF p \in Workers THEN config.handlerOps ELSE config.appOps[p]
        simple == UNCHANGED <<connVars, commands, pendingTotal, sock, hist>> IN
    /\ At(p, Home(p)) /\ quota[p] > 0
    /\ \/ "send" \in ops /\ \E k \in config.sendSizes : Send(p, k)
       \/ "sendfile" \in ops /\ \E k \in config.sendSizes : SendFile(p, k)
       \/ "flush" \in ops /\ Call(p, "uncork", Home(p)) /\ simple
       \/ "closeAfterSend" \in ops /\ CloseAfterSend(p)
       \/ "close" \in ops /\ Call(p, "close", Home(p)) /\ simple
       \/ "panic" \in ops /\ Panic(p)
    /\ quota' = [quota EXCEPT ![p] = @ - 1]
    /\ UNCHANGED <<on, lists, loopVars>>

-----------------------------------------------------------------------------
(* A worker's round: Connection.process.                                   *)

\* The pool starts a round (RunTask).
TakeTask(w) ==
    /\ At(w, "idle") /\ Cardinality({v \in Workers : ~At(v, "idle")}) < config.concurrency
    /\ \E c \in Conns :
        /\ tasks[c] > 0
        /\ tasks' = [tasks EXCEPT ![c] = @ - 1]
        /\ on' = [on EXCEPT ![w] = c]
    /\ Goto(w, "top") /\ ret' = [ret EXCEPT ![w] = "top"]
    /\ proc' = [proc EXCEPT ![w].deferred = {}]
    /\ UNCHANGED <<quota, connVars, ready, redeliver, loopVars, commands, pendingTotal, sock, hist>>

\* The readiness a round starts with: what was deferred is folded back in.
Gathered(c, deferred) == conn[c].pendingEvents \cup deferred

\* The head of the loop: stop when only deferred readiness is left, else take
\* everything pending.  A connection already closing runs no callback.
Top(w) ==
    LET c == on[w]
        deferred == proc[w].deferred
        events == Gathered(c, deferred)
        stop == events = deferred IN
    /\ At(w, "top")
    /\ conn' = [conn EXCEPT ![c].pendingEvents = IF stop THEN events ELSE {}]
    /\ scheduled' = [scheduled EXCEPT ![c] = ~stop]
    /\ Goto(w, IF stop THEN "idle" ELSE IF Usable(c) THEN "out" ELSE "end")
    /\ on' = [on EXCEPT ![w] = IF stop THEN None ELSE c]
    /\ ret' = [ret EXCEPT ![w] = IF stop THEN "idle" ELSE "top"]
    /\ proc' = [proc EXCEPT ![w].events = IF stop THEN {} ELSE events, ![w].deferred = {},
                            ![w].err = ~stop /\ ~Usable(c), ![w].fail = FALSE]
    /\ UNCHANGED <<quota, lists, loopVars, commands, pendingTotal, sock, hist>>

\* Flush before reading.
Out(w) ==
    /\ At(w, "out")
    /\ IF "out" \in proc[w].events /\ hasQueuedOutput(on[w])
       THEN Call(w, "flush", "pri")
       ELSE Goto(w, "pri") /\ UNCHANGED <<ret, proc>>
    /\ Local /\ UNCHANGED <<connVars, commands, pendingTotal, sock, hist>>

\* drainPriorityInput: each urgent byte goes to OnPriorityData.
Pri(w) ==
    LET c == on[w]
        wanted == "pri" \in proc[w].events
        failed == proc[w].fail \/ (wanted /\ ~sock[c].open)
        found == ~failed /\ wanted /\ sock[c].oob IN
    /\ At(w, "pri")
    /\ Goto(w, IF failed THEN "end" ELSE IF found THEN "handler" ELSE "in")
    /\ proc' = [proc EXCEPT ![w].err = failed, ![w].callback = "pri"]
    /\ quota' = [quota EXCEPT ![w] = IF found THEN config.maxOps ELSE @]
    /\ sock' = [sock EXCEPT ![c].oob = @ /\ ~found]
    /\ UNCHANGED <<on, ret, lists, loopVars, connVars, commands, pendingTotal, hist>>

\* Whether a read has to wait for queued output.
deferRead(c) == hasQueuedOutput(c)

\* Read only when nothing is queued; otherwise carry the read, and a half-close
\* that came with it, to a later round.  drainInput corks the connection.
In(w) ==
    LET c == on[w]
        wanted == "in" \in proc[w].events IN
    /\ At(w, "in")
    /\ Goto(w, IF wanted /\ ~deferRead(c) THEN "drain" ELSE "end")
    /\ proc' = [proc EXCEPT ![w].deferred =
                    IF wanted /\ deferRead(c) THEN {"in"} \cup (proc[w].events \cap {"rdhup"})
                    ELSE {}]
    /\ Local /\ UNCHANGED <<ret, connVars, commands, pendingTotal, sock, hist>>

Drain(w) ==
    /\ At(w, "drain")
    /\ conn' = [conn EXCEPT ![on[w]].corked = TRUE, ![on[w]].readStalled = FALSE]
    /\ Goto(w, "read")
    /\ Local /\ UNCHANGED <<ret, scheduled, proc, commands, pendingTotal, sock, hist>>

\* One read of readLoop.  A closed or reset descriptor and end of file are
\* errors; an empty one ends the round.
Read(w) ==
    LET c == on[w]
        s == sock[c]
        n == IF s.open THEN Min({s.in, config.readBufferSize}) ELSE 0
        failed == n = 0 /\ (~s.open \/ s.rst \/ s.fin) IN
    /\ At(w, "read")
    /\ sock' = [sock EXCEPT ![c].in = @ - n]
    /\ hist' = [hist EXCEPT ![c].read = @ + n]
    /\ Goto(w, IF n > 0 THEN "handler" ELSE "finish")
    /\ proc' = [proc EXCEPT ![w].err = failed, ![w].short = n < config.readBufferSize,
                            ![w].callback = "data"]
    /\ quota' = [quota EXCEPT ![w] = IF n > 0 THEN config.maxOps ELSE @]
    /\ UNCHANGED <<on, ret, lists, loopVars, connVars, commands, pendingTotal>>

\* OnPriorityData or OnData returns.
HandlerReturn(w) ==
    /\ w \in Workers /\ At(w, "handler")
    /\ Goto(w, IF proc[w].callback = "pri" THEN "pri" ELSE "mark")
    /\ proc' = [proc EXCEPT ![w].fail = FALSE]
    /\ quota' = [quota EXCEPT ![w] = 0]
    /\ UNCHANGED <<on, ret, lists, loopVars, connVars, commands, pendingTotal, sock, hist>>

\* Mutant: one read per round, full or not.
ReadOnMutant(w) == "finish"

\* A read that did not fill the buffer emptied the socket.
ReadOn(w) == IF proc[w].short THEN "finish" ELSE "read"

\* readLoop after OnData: replies that fill the write budget are flushed first.
Mark(w) ==
    /\ At(w, "mark")
    /\ IF overWriteWatermark(on[w])
       THEN Call(w, "uncork", "marked")
       ELSE Goto(w, ReadOn(w)) /\ UNCHANGED <<ret, proc>>
    /\ Local /\ UNCHANGED <<connVars, commands, pendingTotal, sock, hist>>

\* ... and if they still fill it, the round stops with a stalled read that the
\* loop is asked to settle; otherwise the connection is corked again.
Marked(w) ==
    LET c == on[w]
        stall == ~proc[w].fail /\ overWriteWatermark(c) IN
    /\ At(w, "marked")
    /\ conn' = [conn EXCEPT ![c].readStalled = @ \/ stall,
                            ![c].corked = @ \/ (~proc[w].fail /\ ~stall)]
    /\ IF stall
       THEN RequestRefresh(w, TRUE, "finish")
       ELSE /\ Goto(w, IF proc[w].fail THEN "finish" ELSE ReadOn(w))
            /\ proc' = [proc EXCEPT ![w].err = proc[w].fail]
            /\ UNCHANGED ret
    /\ Local /\ UNCHANGED <<scheduled, commands, pendingTotal, sock, hist>>

\* drainInput's own uncork, whatever readLoop returned.
Finish(w) ==
    LET c == on[w]
        flush == conn[c].corked /\ hasQueuedOutput(c) IN
    /\ At(w, "finish")
    /\ conn' = [conn EXCEPT ![c].corked = FALSE]
    /\ Call(w, IF flush THEN "flush" ELSE "end", "end")
    /\ Local /\ UNCHANGED <<scheduled, commands, pendingTotal, sock, hist>>

\* The end of one pass: an error, a reset or a half-close that was not deferred
\* closes the connection.
End(w) ==
    LET e == proc[w].events \ proc[w].deferred
        dead == proc[w].err \/ proc[w].fail \/ e \cap {"err", "hup", "rdhup"} # {} IN
    /\ At(w, "end")
    /\ Goto(w, IF dead THEN "close" ELSE "top")
    /\ ret' = [ret EXCEPT ![w] = "top"]
    /\ proc' = [proc EXCEPT ![w].events = {}, ![w].err = FALSE, ![w].fail = FALSE,
                            ![w].short = FALSE, ![w].callback = "data"]
    /\ Local /\ UNCHANGED <<connVars, commands, pendingTotal, sock, hist>>

-----------------------------------------------------------------------------
(* The event loop: Run, noteEvent, drainCommands, runReady.                *)

Idle == UNCHANGED <<procVars, hist>>
Quiet == \A c \in Conns : tasks[c] = 0
NoRound == \A w \in Workers : pc[w] = "idle"

\* The sequences that list each element of a finite set once.
Orders(S) == Bijection(1..Cardinality(S), S)

\* epoll_wait returns: every descriptor with an edge and something to report,
\* and the wake-up, in any order.  Inline rounds end before the loop waits.
Wait ==
    LET hot == {c \in Conns : Reported(c) # {}}
        items == {[kind |-> "event", c |-> c, events |-> Reported(c)] : c \in hot}
                     \cup (IF commands # <<>> THEN {[kind |-> "wake"]} ELSE {}) IN
    /\ lpc = "wait" /\ items # {}
    /\ config.inlineHandlers => Quiet /\ NoRound
    /\ \E b \in Orders(items) : loop' = [loop EXCEPT !.batch = b]
    /\ sock' = [c \in Conns |->
                    IF sock[c].edge THEN [Polled(sock[c]) EXCEPT !.edge = FALSE] ELSE sock[c]]
    /\ lpc' = "events"
    /\ Idle /\ UNCHANGED <<connVars, lists, commands, budgetPaused, pendingTotal>>

\* Mutant: a write edge on its own is never worth a round.
NotedMutant(c, events) == Usable(c) /\ events # {} /\ events # {"out"}

\* noteEvent takes the events unless the connection is going away, or they only
\* say that an empty queue could be written.
Noted(c, events) ==
    /\ Usable(c) /\ events # {}
    /\ ~(events = {"out"} /\ ~hasQueuedOutput(c) /\ conn[c].pendingEvents = {})

\* Mutant: every noted event submits.
needsSubmitMutant(c) == TRUE

\* Whether the connection has to be submitted: it is not already.
needsSubmit(c) == ~scheduled[c]

\* noteEvent, with the count of list entries it leaves.
NoteEvent(c, events, list) ==
    /\ conn' = [conn EXCEPT ![c].pendingEvents = IF Noted(c, events) THEN @ \cup events ELSE @]
    /\ scheduled' = [scheduled EXCEPT ![c] = @ \/ Noted(c, events)]
    /\ list' = [list EXCEPT ![c] = @ + (IF Noted(c, events) /\ needsSubmit(c) THEN 1 ELSE 0)]

\* A connection's event; its descriptor may have been closed earlier in the
\* batch, in which case its token no longer resolves.
HandleEvent ==
    LET item == Head(loop.batch) IN
    /\ lpc = "events" /\ loop.batch # <<>> /\ item.kind = "event"
    /\ IF sock[item.c].open
       THEN NoteEvent(item.c, item.events, ready)
       ELSE UNCHANGED <<connVars, ready>>
    /\ loop' = [loop EXCEPT !.batch = Tail(@)]
    /\ Idle /\ UNCHANGED <<lpc, redeliver, tasks, commands, budgetPaused, pendingTotal, sock>>

\* drainCommands takes the whole queue.
HandleWake ==
    /\ lpc = "events" /\ loop.batch # <<>> /\ Head(loop.batch).kind = "wake"
    /\ loop' = [loop EXCEPT !.batch = Tail(@), !.cmds = commands]
    /\ commands' = <<>>
    /\ lpc' = "commands"
    /\ Idle /\ UNCHANGED <<connVars, lists, budgetPaused, pendingTotal, sock>>

CommandsDone ==
    /\ lpc = "commands" /\ loop.cmds = <<>>
    /\ lpc' = "events"
    /\ Idle /\ UNCHANGED <<connVars, lists, loop, budgetPaused, commands, pendingTotal, sock>>

\* Mutant: the queue outlives the connection.
ClosedKeepsQueue(c) == [conn[c] EXCEPT !.closed = TRUE, !.closing = TRUE, !.budgetPaused = FALSE]

Closed(c) ==
    [conn[c] EXCEPT !.closed = TRUE, !.closing = TRUE, !.sends = <<>>,
                    !.budgetPaused = FALSE, !.pendingBytes = 0]

\* closeConnection: abandon the queue and its share of the budget, release the
\* descriptor, call OnClose.  Only the first close command does anything.
CloseConnection ==
    LET c == Head(loop.cmds).c IN
    /\ lpc = "commands" /\ loop.cmds # <<>> /\ Head(loop.cmds).kind = "close"
    /\ loop' = [loop EXCEPT !.cmds = Tail(@)]
    /\ IF conn[c].closed
       THEN UNCHANGED <<conn, pendingTotal, sock, hist>>
       ELSE /\ conn' = [conn EXCEPT ![c] = Closed(c)]
            /\ pendingTotal' = pendingTotal - conn[c].pendingBytes
            /\ sock' = [sock EXCEPT ![c].open = FALSE, ![c].edge = FALSE]
            /\ hist' = [hist EXCEPT ![c].onClose = @ + 1]
    /\ UNCHANGED <<scheduled, lists, procVars, lpc, budgetPaused, commands>>

\* Whether refreshConnection must put the connection on the budget list.
mustTrack(c, pause, flag) == Usable(c) /\ pause /\ ByBudget(pendingTotal) /\ ~flag

\* refreshConnection, the part under mu, for a connection whose budgetPaused
\* flag is "flag".  The rest follows in Settle.
Refresh(c, flag, back) ==
    LET pause == PauseDecision(conn[c].pendingBytes, pendingTotal, conn[c].readPaused)
        changed == pause # conn[c].readPaused
        track == mustTrack(c, pause, flag)
        resume == conn[c].readStalled /\ ~pause IN
    /\ conn' = [conn EXCEPT ![c].readPaused = pause,
                            ![c].budgetPaused = (flag \/ track) /\ pause,
                            ![c].readStalled = @ /\ pause]
    /\ loop' = [loop EXCEPT !.ref = [c |-> c, pause |-> pause, changed |-> changed /\ Usable(c),
                                     track |-> track, back |-> back,
                                     redeliver |-> resume /\ Usable(c) /\ ~changed]]
    /\ lpc' = "settle"

RefreshCommand ==
    /\ lpc = "commands" /\ loop.cmds # <<>> /\ Head(loop.cmds).kind = "refresh"
    /\ LET c == Head(loop.cmds).c IN Refresh(c, conn[c].budgetPaused, "commands")
    /\ Idle /\ UNCHANGED <<scheduled, lists, budgetPaused, commands, pendingTotal, sock>>

\* Mutant: resuming does not register the read interest again.
setReadPausedMutant(s, paused) ==
    LET m == [Polled(s) EXCEPT !.pollIn = @ /\ ~paused] IN
    [m EXCEPT !.edge = @ \/ Readiness(m) # {}]

\* setReadPaused: the modified registration reports what is already waiting.
setReadPaused(s, paused) ==
    LET m == [Polled(s) EXCEPT !.pollIn = ~paused] IN
    [m EXCEPT !.edge = @ \/ Readiness(m) # {}]

\* refreshConnection after it unlocks: hand a stalled read back, queue for the
\* budget, and set the read interest, which reports what is already waiting.
Settle ==
    LET r == loop.ref IN
    /\ lpc = "settle"
    /\ IF r.redeliver
       THEN NoteEvent(r.c, {"in"}, redeliver)
       ELSE UNCHANGED <<connVars, redeliver>>
    /\ budgetPaused' = IF r.track THEN Append(budgetPaused, r.c) ELSE budgetPaused
    /\ sock' = [sock EXCEPT ![r.c] = IF r.changed THEN setReadPaused(@, r.pause) ELSE @]
    /\ lpc' = r.back
    /\ loop' = [loop EXCEPT !.ref = NoRef,
                            !.cmds = IF r.back = "commands" THEN Tail(@) ELSE @,
                            !.waiting = IF r.back = "resume" THEN Tail(@) ELSE @]
    /\ Idle /\ UNCHANGED <<ready, tasks, commands, pendingTotal>>

\* resumeBudgetPaused at the end of a round: once the total is low enough the
\* whole list is re-examined, each connection's flag cleared first.
EventsDone ==
    LET resume == budgetPaused # <<>> /\ pendingTotal <= budgetResumeBytes IN
    /\ lpc = "events" /\ loop.batch = <<>>
    /\ lpc' = "resume"
    /\ loop' = [loop EXCEPT !.waiting = IF resume THEN budgetPaused ELSE <<>>]
    /\ budgetPaused' = IF resume THEN <<>> ELSE budgetPaused
    /\ Idle /\ UNCHANGED <<connVars, lists, commands, pendingTotal, sock>>

ResumeBudgetPaused ==
    /\ lpc = "resume" /\ loop.waiting # <<>>
    /\ Refresh(Head(loop.waiting), FALSE, "resume")
    /\ Idle /\ UNCHANGED <<scheduled, lists, budgetPaused, commands, pendingTotal, sock>>

\* submitReady: the pool takes the round's connections, or a part of them; the
\* others are given up and closed.  Inline, the loop runs them itself.
SubmitReady ==
    LET count(c) == ready[c] + redeliver[c]
        all == {c \in Conns : count(c) > 0} IN
    /\ lpc = "resume" /\ loop.waiting = <<>>
    /\ \E refused \in IF config.refuses /\ ~config.inlineHandlers THEN SUBSET all ELSE {{}} :
        LET closes == {c \in refused : Usable(c)} IN
        /\ tasks' = [c \in Conns |-> tasks[c] + IF c \in refused THEN 0 ELSE count(c)]
        /\ scheduled' = [c \in Conns |-> scheduled[c] /\ c \notin refused]
        /\ conn' = [c \in Conns |-> [conn[c] EXCEPT !.closing = @ \/ c \in refused]]
        /\ hist' = [c \in Conns |-> [hist[c] EXCEPT !.hard = @ \/ c \in closes]]
        /\ \E cmds \in Orders({[kind |-> "close", c |-> c] : c \in closes}) :
               commands' = commands \o cmds
    /\ ready' = [c \in Conns |-> 0] /\ redeliver' = [c \in Conns |-> 0]
    /\ lpc' = "wait"
    /\ UNCHANGED <<procVars, loop, budgetPaused, pendingTotal, sock>>

-----------------------------------------------------------------------------

Init ==
    /\ config \in Configs
    /\ conn = [c \in Conns |->
                 [pendingEvents |-> {}, sends |-> <<>>, pendingBytes |-> 0,
                  closing |-> FALSE, closed |-> FALSE, closeAfterSend |-> FALSE,
                  flushing |-> FALSE, corked |-> FALSE,
                  readPaused |-> FALSE, readStalled |-> FALSE, budgetPaused |-> FALSE]]
    /\ scheduled = [c \in Conns |-> FALSE]
    /\ ready = [c \in Conns |-> 0] /\ redeliver = ready /\ tasks = ready
    /\ pc = [p \in Procs |-> "idle"]
    /\ on = [p \in Procs |-> IF p \in Apps THEN AppConn[p] ELSE None]
    /\ ret = [p \in Procs |-> "idle"]
    /\ proc = [p \in Procs |->
                 [events |-> {}, deferred |-> {}, err |-> FALSE, fail |-> FALSE,
                  short |-> FALSE, soft |-> FALSE, callback |-> "data", cmd |-> "refresh"]]
    /\ quota = [p \in Procs |-> IF p \in Apps THEN config.maxOps ELSE 0]
    /\ lpc = "wait"
    /\ loop = [batch |-> <<>>, cmds |-> <<>>, waiting |-> <<>>, ref |-> NoRef]
    /\ commands = <<>> /\ budgetPaused = <<>> /\ pendingTotal = 0
    /\ sock = [c \in Conns |->
                 [open |-> c \in config.conns, in |-> 0, left |-> config.maxIn[c], oob |-> FALSE, fin |-> FALSE,
                  rst |-> FALSE, space |-> config.sndBuf, nospace |-> FALSE,
                  pollIn |-> TRUE, edge |-> c \in config.conns]]
    /\ hist = [c \in Conns |->
                 [accepted |-> 0, wire |-> <<>>, read |-> 0, onClose |-> 0, hard |-> FALSE]]

\* A step of a call in progress, by any goroutine.
Step(p) ==
    \/ CloseWithError(p) \/ Request(p) \/ Uncork(p) \/ Flushing(p) \/ SendFileReturn(p)

Round(w) ==
    \/ TakeTask(w) \/ Top(w) \/ Out(w) \/ Pri(w) \/ In(w) \/ Drain(w) \/ Read(w)
    \/ HandlerReturn(w) \/ Mark(w) \/ Marked(w) \/ Finish(w) \/ End(w)

Loop ==
    \/ Wait \/ HandleEvent \/ HandleWake \/ CommandsDone \/ CloseConnection
    \/ RefreshCommand \/ Settle \/ EventsDone \/ ResumeBudgetPaused \/ SubmitReady

Peer(c) == PeerSend(c) \/ PeerSignal(c) \/ PeerDrain(c)

Next ==
    /\ \/ \E p \in Procs : Step(p) \/ Operate(p)
       \/ \E w \in Workers : Round(w)
       \/ Loop
       \/ \E c \in Conns : Peer(c)
    /\ UNCHANGED config

Spec == Init /\ [][Next]_<<vars, config>>

\* The loop keeps running, some goroutine with a call in progress does, some
\* worker with a round to execute does (the pool starts what it accepted, a
\* callback returns), and some peer with bytes to read does: what there is to
\* do is finite, so nobody needs more.
Fairness ==
    /\ WF_vars(Loop)
    /\ WF_vars(\E p \in Procs : Step(p))
    /\ WF_vars(\E w \in Workers : Round(w))
    /\ WF_vars(\E c \in Conns : PeerDrain(c))

FairSpec == Spec /\ Fairness

-----------------------------------------------------------------------------
(* Types.                                                                  *)

Labels == {"idle", "top", "out", "pri", "in", "drain", "read", "handler", "mark", "marked",
           "finish", "end", "uncork", "flush", "write", "close", "request", "sent"}

-----------------------------------------------------------------------------
(* Scheduling.                                                             *)

\* A worker is executing the connection's round, and has not given it up.
Holds(w, c) == on[w] = c /\ pc[w] # "idle" /\ ret[w] # "idle"

\* No connection is ever executed by two workers at once, whatever events,
\* refusals and panics happen around the scheduled flag (process, noteEvent).
ExclusiveExecution ==
    \A c \in Conns : \A v, w \in Workers : Holds(v, c) /\ Holds(w, c) => v = w

Listed(c) == ready[c] + redeliver[c] + tasks[c]

\* The scheduled flag stands for exactly one thing: the connection is in the
\* ready list, or handed back, or with the pool, or executed by one worker.
Ownership ==
    \A c \in Conns :
        /\ Listed(c) <= 1
        /\ scheduled[c] <=> Listed(c) = 1 \/ \E w \in Workers : Holds(w, c)
        /\ Listed(c) = 1 => \A w \in Workers : ~Holds(w, c)

-----------------------------------------------------------------------------
(* Output.                                                                 *)

Ids(items) == [i \in 1..Len(items) |-> items[i].id]
UpTo(n) == [i \in 1..n |-> i]

\* The wire carries what Send and SendFile accepted, in the order they accepted
\* it, nothing twice and nothing missing: sent and queued bytes together are
\* the accepted ones, and after the close what was sent is still a prefix.
WireInOrder ==
    \A c \in Conns :
        LET h == hist[c] IN
        IF conn[c].closed THEN h.wire = UpTo(Len(h.wire)) /\ Len(h.wire) <= h.accepted
        ELSE h.wire \o Ids(conn[c].sends) = UpTo(h.accepted)

\* The engine-wide total is the sum of the connections' backlogs, and each
\* backlog counts the bytes queued in memory, file bytes excluded (addPending,
\* subPending, closeConnection).
PendingAccounted ==
    /\ pendingTotal = MapThenSumSet(LAMBDA c : conn[c].pendingBytes, Conns)
    /\ \A c \in Conns :
           conn[c].pendingBytes = Cardinality({i \in DOMAIN conn[c].sends : ~conn[c].sends[i].file})

\* A close that only CloseAfterSend asked for happens after the socket took
\* every accepted byte.
GracefulClose ==
    \A c \in Conns :
        conn[c].closed /\ ~hist[c].hard => Len(hist[c].wire) = hist[c].accepted

\* Nothing happens to a connection that was closed: no byte of it reaches the
\* wire, its queue and its backlog stay empty, OnClose is not called again
\* (closeConnection against a flush, a send or a round in progress).
ClosedIsFinal ==
    [][\A c \in Conns : conn[c].closed =>
          /\ hist'[c].wire = hist[c].wire /\ hist'[c].onClose = hist[c].onClose
          /\ conn'[c].closed /\ conn'[c].sends = <<>> /\ conn'[c].pendingBytes = 0]_vars

-----------------------------------------------------------------------------
(* Back-pressure.                                                          *)

\* The loop's list of connections that wait for the shared budget, or the part
\* of it that the loop is walking, has the connection.
WaitsForBudget(c) ==
    \/ c \in Range(budgetPaused) \/ c \in Range(loop.waiting)
    \/ loop.ref.c = c /\ loop.ref.track

Refreshing(c) ==
    \/ loop.ref.c = c
    \/ [kind |-> "refresh", c |-> c] \in Range(commands \o loop.cmds)
    \/ \E p \in Procs : on[p] = c /\ pc[p] \in {"write", "request"}

\* A pause has somebody to end it: reads that stay paused on a connection whose
\* own backlog is gone are about to be looked at again, or the connection is on
\* the list of those that wait for the shared budget, and one whose budgetPaused
\* flag is set is on it; and outside a refresh the interest registered with epoll
\* is the one readPaused says (pauseStateChangedLocked, refreshConnection,
\* setReadPaused).
PauseWillEnd ==
    \A c \in Conns :
        /\ Usable(c) /\ loop.ref.c # c => sock[c].pollIn = ~conn[c].readPaused
        /\ Usable(c) /\ conn[c].readPaused /\ conn[c].pendingBytes <= writeLowWatermark =>
              Refreshing(c) \/ WaitsForBudget(c)
        /\ conn[c].budgetPaused => WaitsForBudget(c)

-----------------------------------------------------------------------------
(* Progress.                                                               *)

\* Input that waits in an open socket is read: no edge is lost between the
\* loop's note, the deferred read, the stall and the paused interest.
InputServed ==
    LET waits == \E c \in Conns : sock[c].in > 0 /\ Usable(c) IN waits ~> ~waits

\* Output that was queued reaches the socket, as long as the peer reads, and a
\* connection that started closing, or was told to close after its output, is
\* closed.
OutputServed ==
    LET queued == \E c \in Conns : hasQueuedOutput(c)
        closes == \E c \in Conns :
                      (conn[c].closing \/ conn[c].closeAfterSend) /\ ~conn[c].closed
    IN (queued ~> ~queued) /\ (closes ~> ~closes)

\* "so the peer's final bytes are still delivered": a connection is closed for
\* the peer's half-close only after everything the peer sent was read.
FinalBytesDelivered ==
    \A c \in Conns :
        conn[c].closed /\ sock[c].fin /\ ~sock[c].rst => sock[c].in = 0

=============================================================================
