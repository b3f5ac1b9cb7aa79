---------------------------- MODULE CommandQueue ----------------------------
(***************************************************************************)
(* engine.go, poller_epoll.go, engine_unix.go: how any goroutine hands a   *)
(* command to the event loop, how the loop is woken for it through an      *)
(* eventfd, and how Stop, the end of Run and Close drain the queue.        *)
(* A request is three steps of the caller: append under commandMu, the     *)
(* compare-and-swap of wakePending, the write to the eventfd.  Draining is *)
(* four of the loop: read the eventfd, clear wakePending, take the batch,  *)
(* carry it out.                                                           *)
(***************************************************************************)
EXTENDS Naturals, Sequences, FiniteSets

CONSTANTS
    Commands,
    Workers,    \* goroutines Close waits for: the rounds counted by taskWG
    Apps,       \* other goroutines
    Stopper,    \* the goroutine calling Stop
    Loop,       \* the goroutine in Run and later in Close
    Owner,      \* who requests a command: a worker, an app, or Loop
    Chained,    \* the command that carrying out a command requests, or None
    None

Callers == Workers \cup Apps \cup {Stopper, Loop}

ASSUME CommandQueueAssumption ==
    /\ Owner \in [Commands -> Workers \cup Apps \cup {Loop}]
    /\ Chained \in [Commands -> Commands \cup {None}]
    /\ \A c \in Commands : Chained[c] # None => Owner[Chained[c]] = Loop
    /\ None \notin Commands
    /\ Workers \cap Apps = {} /\ Stopper # Loop
    /\ {Stopper, Loop} \cap (Workers \cup Apps) = {}

VARIABLES
    commands, commandsClosed, wakePending, stopping,
    batch,     \* the commands drainCommands took and has not carried out
    counter,   \* external: the eventfd's value is not zero
    edge,      \* external: written to since epoll_wait last reported it
    rpc,       \* per caller: "idle", "notify" or "wake"
    lpc,       \* "wait", "ack", "clear", "swap", "each", "check", "returned", "closing", "closed"
    phase,     \* why the queue is drained: "run", "last" (Run ends), "close"
    fate       \* history: what became of each command

vars == <<commands, commandsClosed, wakePending, stopping, batch, counter, edge, rpc, lpc, phase, fate>>

Caller(p, label) == rpc' = [rpc EXCEPT ![p] = label]

-----------------------------------------------------------------------------
(* request and notify.                                                     *)

\* Append under commandMu, or return false.
Request(p, c) ==
    /\ p # Loop /\ Owner[c] = p /\ fate[c] = "new" /\ rpc[p] = "idle"
    /\ IF commandsClosed
       THEN fate' = [fate EXCEPT ![c] = "refused"] /\ UNCHANGED <<commands, rpc>>
       ELSE /\ commands' = Append(commands, c)
            /\ fate' = [fate EXCEPT ![c] = "queued"]
            /\ Caller(p, "notify")
    /\ UNCHANGED <<commandsClosed, wakePending, stopping, batch, counter, edge, lpc, phase>>

\* wakePending.CompareAndSwap: only one caller goes on to write.
Notify(p) ==
    /\ rpc[p] = "notify"
    /\ Caller(p, IF wakePending THEN "idle" ELSE "wake")
    /\ wakePending' = TRUE
    /\ UNCHANGED <<commands, commandsClosed, stopping, batch, counter, edge, lpc, phase, fate>>

Wake(p) ==
    /\ rpc[p] = "wake"
    /\ counter' = TRUE /\ edge' = TRUE
    /\ Caller(p, "idle")
    /\ UNCHANGED <<commands, commandsClosed, wakePending, stopping, batch, lpc, phase, fate>>

Stop ==
    /\ ~stopping /\ rpc[Stopper] = "idle"
    /\ stopping' = TRUE /\ Caller(Stopper, "notify")
    /\ UNCHANGED <<commands, commandsClosed, wakePending, batch, counter, edge, lpc, phase, fate>>

-----------------------------------------------------------------------------
(* Run, drainCommands and Close.                                           *)

\* The loop's own request, from a callback it runs, is over.
LoopFree == rpc[Loop] = "idle"

\* epoll_wait reports the eventfd: written to since, and readable.
Reported == edge /\ counter

Woken ==
    /\ lpc = "wait" /\ Reported
    /\ edge' = FALSE /\ lpc' = "ack"
    /\ UNCHANGED <<commands, commandsClosed, wakePending, stopping, batch, counter, rpc, phase, fate>>

\* epoll_wait reports sockets only, or is interrupted.
OtherRound ==
    /\ lpc = "wait" /\ lpc' = "check"
    /\ UNCHANGED <<commands, commandsClosed, wakePending, stopping, batch, counter, edge, rpc, phase, fate>>

AckWake ==
    /\ lpc = "ack"
    /\ counter' = FALSE /\ lpc' = "clear"
    /\ UNCHANGED <<commands, commandsClosed, wakePending, stopping, batch, edge, rpc, phase, fate>>

\* Mutant: the flag of the coalesced wake-ups is not reset.
ClearMutant ==
    /\ lpc = "clear" /\ lpc' = "swap"
    /\ UNCHANGED <<commands, commandsClosed, wakePending, stopping, batch, counter, edge, rpc, phase, fate>>

Clear ==
    /\ lpc = "clear"
    /\ wakePending' = FALSE /\ lpc' = "swap"
    /\ UNCHANGED <<commands, commandsClosed, stopping, batch, counter, edge, rpc, phase, fate>>

\* Mutant: the batch taken stays in the queue.
SwapMutant ==
    /\ lpc = "swap" /\ lpc' = "each" /\ batch' = commands
    /\ UNCHANGED <<commands, commandsClosed, wakePending, stopping, counter, edge, rpc, phase, fate>>

Swap ==
    /\ lpc = "swap"
    /\ batch' = commands /\ commands' = <<>> /\ lpc' = "each"
    /\ UNCHANGED <<commandsClosed, wakePending, stopping, counter, edge, rpc, phase, fate>>

\* One command is carried out, and what its callbacks request is appended.
Each ==
    LET c == Head(batch)
        d == Chained[c]
        asks == d # None /\ fate[d] = "new"
    IN
    /\ lpc = "each" /\ LoopFree /\ batch # <<>>
    /\ batch' = Tail(batch)
    /\ IF asks /\ ~commandsClosed
       THEN commands' = Append(commands, d) /\ Caller(Loop, "notify")
       ELSE UNCHANGED <<commands, rpc>>
    /\ fate' = IF ~asks THEN [fate EXCEPT ![c] = "handled"]
               ELSE [fate EXCEPT ![c] = "handled", ![d] = IF commandsClosed THEN "refused" ELSE "queued"]
    /\ UNCHANGED <<commandsClosed, wakePending, stopping, counter, edge, lpc, phase>>

\* The batch is done: on with the round, or with what the drain was for.
Drained ==
    /\ lpc = "each" /\ LoopFree /\ batch = <<>>
    /\ lpc' = CASE phase = "run" -> "check" [] phase = "last" -> "returned" [] phase = "close" -> "closed"
    /\ UNCHANGED <<commands, commandsClosed, wakePending, stopping, batch, counter, edge, rpc, phase, fate>>

\* Run's loop condition; after the last round it drains the queue.
Check ==
    /\ lpc = "check"
    /\ IF stopping THEN lpc' = "ack" /\ phase' = "last" ELSE lpc' = "wait" /\ UNCHANGED phase
    /\ UNCHANGED <<commands, commandsClosed, wakePending, stopping, batch, counter, edge, rpc, fate>>

\* Close is called after Run has returned, and begins with a Stop of its own.
CloseStop ==
    /\ lpc = "returned" /\ LoopFree /\ lpc' = "closing"
    /\ stopping' = TRUE /\ Caller(Loop, "notify")
    /\ UNCHANGED <<commands, commandsClosed, wakePending, batch, counter, edge, phase, fate>>

\* Mutant: Close does not wait for the workers.
workersDoneMutant == TRUE

\* taskWG.Wait returns: no worker has anything to request any more.
workersDone == \A p \in Workers : rpc[p] = "idle" /\ \A c \in Commands : Owner[c] = p => fate[c] # "new"

\* Mutant: the queue is drained a last time but stays open.
CloseCommandsMutant ==
    /\ lpc = "closing" /\ LoopFree /\ workersDone
    /\ lpc' = "ack" /\ phase' = "close"
    /\ UNCHANGED <<commands, commandsClosed, wakePending, stopping, batch, counter, edge, rpc, fate>>

\* Then closeCommands turns requests away and drains the queue.
CloseCommands ==
    /\ lpc = "closing" /\ LoopFree /\ workersDone
    /\ commandsClosed' = TRUE /\ lpc' = "ack" /\ phase' = "close"
    /\ UNCHANGED <<commands, wakePending, stopping, batch, counter, edge, rpc, fate>>

-----------------------------------------------------------------------------

Init ==
    /\ commands = <<>> /\ commandsClosed = FALSE /\ wakePending = FALSE /\ stopping = FALSE
    /\ batch = <<>> /\ counter = FALSE /\ edge = FALSE
    /\ rpc = [p \in Callers |-> "idle"] /\ lpc = "wait" /\ phase = "run"
    /\ fate = [c \in Commands |-> "new"]

Drain == AckWake \/ Clear \/ Swap \/ Each \/ Drained

Ending == CloseStop \/ CloseCommands

Notifying(p) == Notify(p) \/ Wake(p)

Next ==
    \/ \E p \in Workers \cup Apps : \E c \in Commands : Request(p, c)
    \/ \E p \in Callers : Notifying(p)
    \/ Stop \/ Woken \/ OtherRound \/ Drain \/ Check \/ Ending

Spec == Init /\ [][Next]_vars

\* Callers finish the request they are in, workers finish their rounds, the
\* loop runs and Close is called, and epoll_wait reports what is ready although
\* other events keep coming.
Fairness ==
    /\ \A p \in Callers : WF_vars(Notifying(p))
    /\ \A p \in Workers : WF_vars(\E c \in Commands : Request(p, c))
    /\ WF_vars(Drain \/ Check \/ Ending) /\ SF_vars(Woken)

FairSpec == Spec /\ Fairness

-----------------------------------------------------------------------------
(* Properties.                                                             *)

\* The wake-up of a queued command is never lost to the coalescing: a loop that
\* waits while commands are queued is about to be woken, by the eventfd or by a
\* caller that has still to notify or to write.
NoLostWakeup ==
    (lpc \in {"wait", "check"} /\ commands # <<>>) =>
        Reported \/ \E p \in Callers : rpc[p] \in {"notify", "wake"}

\* Close turns away requests only once no worker can make one.
WorkersServed == \A c \in Commands : Owner[c] \in Workers => fate[c] # "refused"

\* Nothing is left behind when Close has returned from closeCommands.
NothingLeft == lpc = "closed" => \A c \in Commands : fate[c] # "queued"

Box == INSTANCE Mailbox WITH mail <- batch \o commands, open <- ~commandsClosed

\* Drained in batches while others append, the queue is still a mailbox.
Implements == Box!Spec

\* What was accepted is carried out.
Handled == \A c \in Commands : fate[c] = "queued" ~> fate[c] = "handled"
=============================================================================
