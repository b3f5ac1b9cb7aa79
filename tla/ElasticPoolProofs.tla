------------------------- MODULE ElasticPoolProofs --------------------------
(***************************************************************************)
(* ElasticPool for any number of workers, submitters and tasks and any     *)
(* capacity of the channel: it keeps what TaskPool promises, and its       *)
(* counters are exact.                                                     *)
(***************************************************************************)
EXTENDS ElasticPoolFates, FiniteSetTheorems, TLAPS

\* The pool starts in order.
LEMMA InitInv == ASSUME WellFormed, Init PROVE Inv
<1> USE Roles DEF Init
<1>1. Types
  <2>1. pc \in [Procs -> Labels] /\ task \in [Procs -> Tasks \cup {None}]
    BY DEF Labels
  <2>2. status \in [Tasks -> Statuses] /\ next \in [Submitters -> Nat] /\ tasks \in Seq(Tasks)
    BY DEF Statuses
  <2>3. active \in Int /\ idle \in Int /\ taskWG \in Int
    OBVIOUS
  <2>4. stopped \in BOOLEAN
    BY Zenon
  <2>5. QED
    BY <2>1, <2>2, <2>3, <2>4 DEF Types
<1>2. FateInv
  <2>1. Hold = {} /\ Running = {} /\ Sending = {} /\ Entering = Submitters
    BY DEF Hold, Running, Sending, Entering, Procs, Runners
  <2>2. \A s \in Submitters : next[s] = 0 /\ next[s] < Len(Batch[s])
    BY DEF WellFormed
  <2>3. ASSUME NEW s \in Submitters, NEW i \in 1..Len(Batch[s]) PROVE status[Batch[s][i]] = "new"
    BY DEF WellFormed
  <2>4. QED
    BY <2>1, <2>2, <2>3 DEF FateInv, Fresh
<1>3. EndInv
  <2>1. Live = {}
    BY DEF Live
  <2>2. QED
    BY <2>1, FS_EmptySet DEF EndInv, Procs
<1>4. QED
  BY <1>1, <1>2, <1>3 DEF Inv

-----------------------------------------------------------------------------
(* The steps.                                                              *)

\* Steps that change nothing the callers of the pool can see.
Unseen == UNCHANGED <<status, stopped, taskWG>> /\ pc'[Stopper] = pc[Stopper]

\* They keep the end, and the pool TaskPool speaks of.
LEMMA UnseenKeeps == ASSUME EndInv, Unseen PROVE EndInv' /\ UNCHANGED Promise!pool
BY DEF EndInv, Unseen, Live, Stage, Promise!pool

\* What a submitter's step is to TaskPool, and that it keeps every task in its place.
LEMMA SubmitStep ==
    ASSUME WellFormed, Types, FateInv, EndInv, NEW s \in Submitters, Submit(s)
    PROVE FateInv' /\ EndInv' /\ [Promise!Next]_(Promise!pool)
<1> USE Roles
<1>1. s \in Procs /\ s # Stopper
  OBVIOUS
<1>2. CASE Refuse(s)
  <2> DEFINE S == {t \in Tasks : \E i \in next[s] + 1..Len(Batch[s]) : Batch[s][i] = t}
  <2>1. /\ s \in Entering /\ stopped /\ UNCHANGED <<task, tasks, next, stopped, taskWG>>
        /\ status' = [t \in Tasks |-> IF t \in S THEN "refused" ELSE status[t]]
    BY <1>2 DEF Refuse, isStopped, Entering
  <2>2. pc'[s] = "returned" /\ \A p \in Procs : p # s => pc'[p] = pc[p]
    BY <1>1, <1>2 DEF Refuse, Goto, Types
  <2>3. Hold' = Hold /\ Running' = Running /\ Sending' = Sending /\ Entering' = Entering \ {s}
    BY <2>1, <2>2 DEF Hold, Running, Sending, Entering
  <2>4. FateInv' /\ \A t \in S : status[t] = "new"
    BY <2>1, <2>3, RefuseFates, Zenon
  <2> HIDE DEF S
  <2>5. S \in SUBSET Tasks
    BY DEF S
  <2>6. Live' = Live
    BY <2>1, <2>4, <2>5 DEF Live
  <2>7. EndInv' /\ Stage' = Stage /\ Stage # "open"
    BY <2>1, <2>2, <2>6 DEF EndInv, Stage
  <2>8. Promise!Refuse(S)
    BY <2>1, <2>4, <2>7 DEF Promise!Refuse
  <2>9. QED
    BY <2>4, <2>5, <2>7, <2>8 DEF Promise!Next
<1>3. CASE Enter(s)
  <2> DEFINE t == Current(s)
  <2>1. /\ s \in Entering /\ ~stopped /\ UNCHANGED <<task, tasks, next, stopped>>
        /\ taskWG' = taskWG + 1 /\ status' = [status EXCEPT ![t] = "queued"]
    BY <1>3 DEF Enter, isStopped, Entering
  <2>2. pc'[s] \in {"offer", "fork"} /\ \A p \in Procs : p # s => pc'[p] = pc[p]
    BY <1>1, <1>3 DEF Enter, Goto, Types
  <2>3. Hold' = Hold /\ Running' = Running /\ Sending' = Sending \cup {s} /\ Entering' = Entering \ {s}
    BY <2>1, <2>2 DEF Hold, Running, Sending, Entering
  <2>4. FateInv' /\ t \in Tasks /\ status[t] = "new"
    BY <2>1, <2>3, EnterFates, Zenon
  <2> HIDE DEF t
  <2>5. Live' = Live \cup {t} /\ t \notin Live
    BY <2>1, <2>4 DEF Live, Types
  <2>6. IsFiniteSet(Live)
    BY FS_Subset DEF Live, WellFormed
  <2>7. taskWG' = Cardinality(Live')
    BY <2>1, <2>5, <2>6, FS_AddElement, FS_CardinalityType DEF EndInv
  <2>8. pc[Stopper] = "begin" /\ pc'[Stopper] = "begin"
    BY <1>1, <2>1, <2>2 DEF EndInv
  <2>9. EndInv' /\ Stage' = Stage /\ Stage = "open"
    BY <2>1, <2>7, <2>8 DEF EndInv, Stage
  <2>10. Promise!Accept(t)
    BY <2>1, <2>4, <2>9 DEF Promise!Accept, Promise!Moves
  <2>11. QED
    BY <2>4, <2>9, <2>10 DEF Promise!Next
<1>4. CASE OfferFails(s) \/ ForkFails(s)
  <2>1. /\ pc[s] \in {"offer", "fork"} /\ pc'[s] \in {"fork", "send"} /\ \A p \in Procs : p # s => pc'[p] = pc[p]
        /\ UNCHANGED <<stopped, tasks, taskWG, task, next, status>>
    BY <1>1, <1>4 DEF OfferFails, ForkFails, Goto, Types
  <2>2. Hold' = Hold /\ Running' = Running /\ Sending' = Sending /\ Entering' = Entering
    BY <2>1 DEF Hold, Running, Sending, Entering
  <2>3. FateInv' /\ Unseen
    BY <2>1, <2>2, QuietFates DEF Unseen
  <2>4. QED
    BY <2>3, UnseenKeeps
<1>5. CASE Fork(s)
  <2>1. FateInv' /\ Unseen
    BY <1>5, ForkStep, Zenon DEF Unseen, Fork
  <2>2. QED
    BY <2>1, UnseenKeeps
<1>6. CASE Offer(s) \/ Send(s)
  <2>1. s \in Sending /\ Put(s) /\ UNCHANGED <<stopped, taskWG, status>>
    BY <1>6 DEF Offer, Send, Sending
  <2>2. FateInv' /\ Unseen
    BY <2>1, PutStep DEF Unseen
  <2>3. QED
    BY <2>2, UnseenKeeps
<1>7. QED
  BY <1>2, <1>3, <1>4, <1>5, <1>6 DEF Submit

\* A task is started, or ends: the two steps of a runner that TaskPool sees.
LEMMA ExecuteStep ==
    ASSUME WellFormed, Types, FateInv, EndInv, NEW r \in Runners, Execute(r) \/ Done(r)
    PROVE FateInv' /\ EndInv' /\ [Promise!Next]_(Promise!pool)
<1> USE Roles
<1> DEFINE t == task[r]
<1>1. r \in Procs /\ r # Stopper /\ UNCHANGED <<stopped, tasks, next>>
  BY DEF Execute, Done
<1>2. IsFiniteSet(Live)
  BY FS_Subset DEF Live, WellFormed
<1>3. CASE Execute(r)
  <2>1. /\ pc[r] = "execute" /\ pc'[r] = "running" /\ (\A p \in Procs : p # r => pc'[p] = pc[p])
        /\ status' = [status EXCEPT ![t] = "running"] /\ UNCHANGED <<task, taskWG>>
    BY <1>1, <1>3 DEF Execute, Goto, Types
  <2>2. r \in Hold /\ Hold' = Hold \ {r} /\ Running' = Running \cup {r} /\ Sending' = Sending /\ Entering' = Entering
    BY <2>1 DEF Hold, Running, Sending, Entering
  <2>3. FateInv' /\ t \in Tasks /\ status[t] = "queued"
    BY <1>1, <2>1, <2>2, ExecuteFates, Zenon
  <2> HIDE DEF t
  <2>4. Live' = Live
    BY <2>1, <2>3 DEF Live, Types
  <2>5. EndInv' /\ Stage' = Stage
    BY <1>1, <2>1, <2>4 DEF EndInv, Stage
  <2>6. Promise!Start(t)
    BY <2>1, <2>3, <2>5 DEF Promise!Start, Promise!Moves
  <2>7. QED
    BY <2>3, <2>5, <2>6 DEF Promise!Next
<1>4. CASE Done(r)
  <2>1. /\ pc[r] = "running" /\ pc'[r] \in {"select", "poll"} /\ (\A p \in Procs : p # r => pc'[p] = pc[p])
        /\ status' = [status EXCEPT ![t] = "done"] /\ task' = [task EXCEPT ![r] = None] /\ taskWG' = taskWG - 1
    BY <1>1, <1>4 DEF Done, taskDone, Goto, Types
  <2>2. r \in Running /\ Hold' = Hold /\ Running' = Running \ {r} /\ Sending' = Sending /\ Entering' = Entering
    BY <2>1 DEF Hold, Running, Sending, Entering
  <2>3. \A q \in Hold \cup (Running \ {r}) : task'[q] = task[q]
    BY <2>1 DEF Hold, Running, Types
  <2>4. FateInv' /\ t \in Tasks /\ status[t] = "running"
    BY <1>1, <2>1, <2>2, <2>3, DoneFates, Zenon
  <2> HIDE DEF t
  <2>5. Live' = Live \ {t} /\ t \in Live
    BY <2>1, <2>4 DEF Live, Types
  <2>6. taskWG' = Cardinality(Live')
    BY <1>2, <2>1, <2>5, FS_RemoveElement, FS_CardinalityType, Zenon DEF EndInv
  <2>7. EndInv' /\ Stage' = Stage
    BY <1>1, <2>1, <2>5, <2>6 DEF EndInv, Stage
  <2>8. Promise!Finish(t)
    BY <2>1, <2>4, <2>7 DEF Promise!Finish, Promise!Moves
  <2>9. QED
    BY <2>4, <2>7, <2>8 DEF Promise!Next
<1>5. QED
  BY <1>3, <1>4

\* The other steps of runners are not seen.
LEMMA RunnerStep ==
    ASSUME WellFormed, Types, FateInv, EndInv, (\E w \in Slots : Work(w)) \/ Dispatch
    PROVE FateInv' /\ EndInv' /\ [Promise!Next]_(Promise!pool)
<1> USE Roles
<1>1. ASSUME NEW r \in Runners, UNCHANGED <<stopped, tasks, taskWG, task, next, status>>,
             NEW label \in Labels, Goto(r, label), pc[r] \in {"received", "execute"} <=> label \in {"received", "execute"},
             pc[r] # "running", label # "running"
      PROVE FateInv' /\ Unseen
  <2>1. r # Stopper /\ pc'[r] = label /\ \A p \in Procs : p # r => pc'[p] = pc[p]
    BY <1>1 DEF Goto, Types
  <2>2. Hold' = Hold /\ Running' = Running /\ Sending' = Sending /\ Entering' = Entering
    BY <1>1, <2>1 DEF Hold, Running, Sending, Entering
  <2>3. QED
    BY <1>1, <2>1, <2>2, QuietFates DEF Unseen
<1>2. ASSUME NEW r \in Runners, Select(r) PROVE FateInv' /\ Unseen
  <2>1. CASE Get(r, "received")
    BY <1>2, <2>1, GetStep DEF Select, Unseen
  <2>2. CASE ~Get(r, "received")
    <3>1. Goto(r, "receive") /\ pc[r] = "select" /\ UNCHANGED <<stopped, tasks, taskWG, task, next, status>>
      BY <1>2, <2>2 DEF Select
    <3>2. QED
      BY <1>1, <3>1 DEF Labels
  <2>3. QED
    BY <2>1, <2>2
<1>3. ASSUME NEW w \in Slots, Poll(w) PROVE FateInv' /\ Unseen
  <2>1. CASE Get(w, "execute")
    BY <1>3, <2>1, GetStep DEF Poll, Unseen
  <2>2. CASE ~Get(w, "execute")
    <3>1. Goto(w, "linger") /\ pc[w] = "poll" /\ UNCHANGED <<stopped, tasks, taskWG, task, next, status>>
      BY <1>3, <2>2 DEF Poll
    <3>2. QED
      BY <1>1, <3>1 DEF Labels
  <2>3. QED
    BY <2>1, <2>2
<1>4. ASSUME NEW w \in Slots, Linger(w) \/ Received(w) \/ Expire(w) \/ Unlinger(w) \/ Leave(w) PROVE FateInv' /\ Unseen
  <2>1. UNCHANGED <<stopped, tasks, taskWG, task, next, status>>
    BY <1>4 DEF Linger, Received, Expire, Unlinger, Leave
  <2>2. \/ pc[w] = "linger" /\ Goto(w, "select")
        \/ pc[w] = "received" /\ Goto(w, "execute")
        \/ pc[w] \in {"select", "receive"} /\ Goto(w, "expired")
        \/ pc[w] = "expired" /\ Goto(w, "leave")
        \/ pc[w] = "leave" /\ Goto(w, "none")
    BY <1>4 DEF Linger, Received, Expire, Unlinger, Leave
  <2>3. QED
    BY <1>1, <2>1, <2>2 DEF Labels
<1>5. CASE DispatchRun \/ DispatchReturn
  <2>1. UNCHANGED <<stopped, tasks, taskWG, task, next, status>>
    BY <1>5 DEF DispatchRun, DispatchReturn
  <2>2. \/ pc[Dispatcher] = "received" /\ Goto(Dispatcher, "execute")
        \/ pc[Dispatcher] \in {"select", "receive"} /\ Goto(Dispatcher, "none")
    BY <1>5 DEF DispatchRun, DispatchReturn
  <2>3. FateInv' /\ Unseen
    BY <1>1, <2>1, <2>2 DEF Labels
  <2>4. QED
    BY <2>3, UnseenKeeps
<1>6. CASE DispatchFork
  <2> DEFINE d == Dispatcher
  <2>1. PICK w \in Slots : /\ pc[w] = "none" /\ pc' = [pc EXCEPT ![w] = "execute", ![d] = "select"]
                           /\ task' = [task EXCEPT ![w] = task[d], ![d] = None]
    BY <1>6, Zenon DEF DispatchFork, Forked
  <2>2. d \in Hold /\ w \in Runners /\ w \notin Hold \cup Running /\ w # d /\ UNCHANGED <<status, tasks, next, stopped, taskWG>>
    BY <1>6, <2>1 DEF DispatchFork, Hold, Running
  <2>3. pc'[w] = "execute" /\ pc'[d] = "select" /\ \A p \in Procs : p # w /\ p # d => pc'[p] = pc[p]
    BY <2>1, <2>2 DEF Types
  <2>4. Hold' = (Hold \ {d}) \cup {w} /\ Running' = Running /\ Sending' = Sending /\ Entering' = Entering
    BY <2>2, <2>3 DEF Hold, Running, Sending, Entering
  <2>5. task'[w] = task[d] /\ \A q \in (Hold \ {d}) \cup Running : task'[q] = task[q]
    <3>1. d \notin Running
      BY <2>2 DEF Hold, Running
    <3>2. QED
      BY <2>1, <2>2, <3>1 DEF Types, Hold, Running
  <2>6. FateInv' /\ Unseen
    BY <2>2, <2>3, <2>4, <2>5, MovedFates DEF Unseen
  <2>7. QED
    BY <2>6, UnseenKeeps
<1>7. QED
  BY <1>2, <1>3, <1>4, <1>5, <1>6, ExecuteStep, UnseenKeeps, SMTT(30) DEF Work, Dispatch

\* The steps of stop: it returns only after it saw taskWG at zero, and nothing was accepted since.
LEMMA StopStep ==
    ASSUME WellFormed, Types, FateInv, EndInv, StopBegin \/ StopTasks \/ StopReturn
    PROVE FateInv' /\ EndInv' /\ [Promise!Next]_(Promise!pool)
<1> USE Roles
<1>1. /\ UNCHANGED <<tasks, taskWG, task, next, status>> /\ \A p \in Procs : p # Stopper => pc'[p] = pc[p]
      /\ Live' = Live
  BY DEF StopBegin, StopTasks, StopReturn, Goto, Types, Live
<1>2. Hold' = Hold /\ Running' = Running /\ Sending' = Sending /\ Entering' = Entering
  BY <1>1, SMTT(30) DEF Hold, Running, Sending, Entering
<1>3. FateInv'
  BY <1>1, <1>2, QuietFates
<1>4. CASE StopBegin
  <2>1. pc[Stopper] = "begin" /\ pc'[Stopper] = "tasks" /\ stopped' /\ ~stopped
    BY <1>4, SMTT(30) DEF StopBegin, Goto, Types, EndInv
  <2>2. EndInv' /\ Promise!Stop
    BY <1>1, <2>1 DEF EndInv, Promise!Stop, Stage
  <2>3. QED
    BY <1>3, <2>2 DEF Promise!Next
<1>5. CASE StopTasks
  <2>1. pc[Stopper] = "tasks" /\ pc'[Stopper] = "workers" /\ stopped' = stopped /\ taskWG = 0
    BY <1>5 DEF StopTasks, Goto, Types
  <2>2. IsFiniteSet(Live)
    BY FS_Subset DEF Live, WellFormed
  <2>3. Live = {}
    BY <2>1, <2>2, FS_EmptySet, Zenon DEF EndInv
  <2>4. EndInv' /\ Stage' = Stage
    BY <1>1, <2>1, <2>3 DEF EndInv, Stage
  <2>5. QED
    BY <1>1, <1>3, <2>4 DEF Promise!pool
<1>6. CASE StopReturn
  <2>1. pc[Stopper] = "workers" /\ pc'[Stopper] = "returned" /\ stopped' = stopped /\ stopped
    BY <1>6, SMTT(30) DEF StopReturn, Goto, Types, EndInv
  <2>2. Live = {} /\ EndInv'
    BY <1>1, <2>1 DEF EndInv
  <2>3. Promise!Stopped
    BY <1>1, <2>1, <2>2 DEF Promise!Stopped, Stage, Live
  <2>4. QED
    BY <1>3, <2>2, <2>3 DEF Promise!Next
<1>7. QED
  BY <1>4, <1>5, <1>6

\* Every step keeps the invariant and is one of TaskPool, or not seen.
LEMMA NextInv == ASSUME WellFormed, Inv, [Next]_vars PROVE Inv' /\ [Promise!Next]_(Promise!pool)
<1>1. Types' /\ Types /\ FateInv /\ EndInv
  BY NextTypes DEF Inv
<1>2. CASE UNCHANGED vars
  <2>1. Hold' = Hold /\ Running' = Running /\ Sending' = Sending /\ Entering' = Entering /\ Unseen
    BY <1>2 DEF vars, Hold, Running, Sending, Entering, Unseen
  <2>2. FateInv'
    BY <1>1, <1>2, <2>1, QuietFates DEF vars
  <2>3. QED
    BY <1>1, <2>1, <2>2, UnseenKeeps DEF Inv
<1>3. QED
  BY <1>1, <1>2, SubmitStep, RunnerStep, StopStep DEF Inv, Next, Over

\* The elastic pool keeps the promise of taskpool.go, for any number of workers and
\* submitters and any capacity of its channel: a task is accepted only before stop,
\* runs once if accepted, whether it is handed over, forked for, buffered or left to
\* the dispatcher, and stop returns only when no accepted task is left.
THEOREM ElasticPoolKeepsPromise == ASSUME WellFormed PROVE Init /\ [][Next]_vars => Promise!Spec
<1>1. Init => Inv
  BY InitInv
<1>2. Inv /\ [Next]_vars => Inv' /\ [Promise!Next]_(Promise!pool)
  BY NextInv
<1>3. Init => Promise!Init
  BY DEF Init, Promise!Init, Stage
<1>4. QED
  BY <1>1, <1>2, <1>3, PTL DEF Promise!Spec

-----------------------------------------------------------------------------
(* The counters.                                                           *)

Lingering == {w \in Slots : pc[w] \in {"select", "receive", "received", "expired"}}
Unused == {w \in Slots : pc[w] = "none"}

CountInv ==
    /\ idle = Cardinality(Lingering)
    /\ active = Cardinality(Slots) - Cardinality(Unused) /\ active <= maxWorkers

\* Sets of workers are finite.
LEMMA Finite == ASSUME WellFormed PROVE IsFiniteSet(Lingering) /\ IsFiniteSet(Unused)
BY FS_Subset DEF Lingering, Unused, WellFormed

\* A worker is forked below the limit.
LEMMA ForkCounts ==
    ASSUME WellFormed, Types, CountInv, NEW p \in Procs \ Slots, NEW label, NEW t, canFork, Forked(p, label, t), idle' = idle
    PROVE CountInv'
<1>1. PICK w \in Slots : pc[w] = "none" /\ active' = active + 1 /\ pc' = [pc EXCEPT ![w] = "execute", ![p] = label]
  BY Zenon DEF Forked
<1>2. Lingering' = Lingering /\ Unused' = Unused \ {w} /\ w \in Unused
  BY <1>1, Roles DEF Lingering, Unused, Types
<1>3. Cardinality(Unused') = Cardinality(Unused) - 1 /\ Cardinality(Unused) \in Nat
  BY <1>2, Finite, FS_RemoveElement, FS_CardinalityType, Zenon
<1>4. Cardinality(Slots) \in Nat /\ maxWorkers \in Nat
  BY FS_CardinalityType DEF WellFormed
<1>5. QED
  BY <1>1, <1>2, <1>3, <1>4 DEF CountInv, canFork

\* The counters follow what one worker does.
LEMMA WorkerCounts ==
    ASSUME WellFormed, Types, CountInv, NEW w \in Slots, Linger(w) \/ Received(w) \/ Unlinger(w) \/ Leave(w)
    PROVE CountInv'
<1>1. w \in Procs /\ Cardinality(Slots) \in Nat /\ maxWorkers \in Nat
  BY Roles, FS_CardinalityType DEF WellFormed
<1>2. CASE Linger(w)
  <2>1. Lingering' = Lingering \cup {w} /\ w \notin Lingering /\ Unused' = Unused
    BY <1>1, <1>2 DEF Linger, Goto, Lingering, Unused, Types
  <2>2. Cardinality(Lingering') = Cardinality(Lingering) + 1
    BY <2>1, Finite, FS_AddElement, Zenon
  <2>3. QED
    BY <1>2, <2>1, <2>2 DEF Linger, CountInv
<1>3. CASE Received(w) \/ Unlinger(w)
  <2>1. Lingering' = Lingering \ {w} /\ w \in Lingering /\ Unused' = Unused
    <3>1. /\ pc[w] \in {"received", "expired"} /\ pc'[w] \in {"execute", "leave"}
          /\ \A v \in Slots : v # w => pc'[v] = pc[v]
      BY <1>1, <1>3, Roles DEF Received, Unlinger, Goto, Types
    <3>2. QED
      BY <3>1 DEF Lingering, Unused
  <2>2. Cardinality(Lingering') = Cardinality(Lingering) - 1
    BY <2>1, Finite, FS_RemoveElement, ZenonT(30)
  <2>3. QED
    BY <1>3, <2>1, <2>2 DEF Received, Unlinger, CountInv
<1>4. CASE Leave(w)
  <2>1. Lingering' = Lingering /\ Unused' = Unused \cup {w} /\ w \notin Unused
    BY <1>1, <1>4 DEF Leave, Goto, Lingering, Unused, Types
  <2>2. Cardinality(Unused') = Cardinality(Unused) + 1 /\ Cardinality(Unused) \in Nat
    BY <2>1, Finite, FS_AddElement, FS_CardinalityType
  <2>3. QED
    BY <1>1, <1>4, <2>1, <2>2 DEF Leave, CountInv
<1>5. QED
  BY <1>2, <1>3, <1>4

\* Every step keeps the counters exact.
LEMMA NextCounts == ASSUME WellFormed, Types, CountInv, [Next]_vars PROVE CountInv'
<1> USE Roles
<1>1. ASSUME UNCHANGED <<idle, active>>, \A w \in Slots : (w \in Lingering <=> w \in Lingering') /\ (w \in Unused <=> w \in Unused')
      PROVE CountInv'
  <2>1. Lingering' = Lingering /\ Unused' = Unused
    BY <1>1 DEF Lingering, Unused
  <2>2. QED
    BY <1>1, <2>1 DEF CountInv
<1>2. ASSUME NEW s \in Submitters, Submit(s) PROVE CountInv'
  <2>1. CASE Fork(s)
    BY <2>1, ForkCounts DEF Fork
  <2>2. CASE Refuse(s) \/ Enter(s) \/ OfferFails(s) \/ ForkFails(s)
    BY <1>1, <2>2 DEF Refuse, Enter, OfferFails, ForkFails, Goto, Lingering, Unused, Types
  <2>3. CASE Offer(s) \/ Send(s)
    BY <1>1, <2>3 DEF Offer, Send, Put, Receivers, Goto, Lingering, Unused, Types
  <2>4. QED
    BY <1>2, <2>1, <2>2, <2>3 DEF Submit
<1>3. ASSUME NEW r \in Runners, Execute(r) \/ Done(r) PROVE CountInv'
  BY <1>1, <1>3 DEF Execute, Done, Goto, Lingering, Unused, Types
<1>4. ASSUME NEW r \in Runners, Select(r) PROVE CountInv'
  BY <1>1, <1>4 DEF Select, Get, Senders, Goto, Lingering, Unused, Types
<1>5. ASSUME NEW w \in Slots, Poll(w) \/ Expire(w) PROVE CountInv'
  BY <1>1, <1>5 DEF Poll, Expire, Get, Senders, Goto, Lingering, Unused, Types
<1>6. CASE DispatchFork
  BY <1>6, ForkCounts DEF DispatchFork
<1>7. CASE DispatchRun \/ DispatchReturn \/ StopBegin \/ StopTasks \/ StopReturn
  BY <1>1, <1>7 DEF DispatchRun, DispatchReturn, StopBegin, StopTasks, StopReturn, Goto, Lingering, Unused, Types
<1>8. CASE UNCHANGED vars
  BY <1>1, <1>8 DEF vars, Lingering, Unused
<1>9. QED
  BY <1>2, <1>3, <1>4, <1>5, <1>6, <1>7, <1>8, WorkerCounts, SMTT(30) DEF Next, Work, Dispatch, Over

\* The counters of elastic.go are exact although neither is under the mutex: idle
\* counts the lingering workers, active the live ones, never more than maxWorkers, and
\* taskWG the tasks accepted that have not ended.
THEOREM ElasticPoolCounted == ASSUME WellFormed PROVE Init /\ [][Next]_vars => []Counted
<1>1. Init => Inv /\ CountInv
  <2>1. ASSUME Init PROVE Lingering = {} /\ Unused = Slots
    BY <2>1, Roles DEF Init, Lingering, Unused
  <2>2. Init => CountInv
    <3>1. Cardinality({}) = 0 /\ Cardinality(Slots) \in Nat /\ maxWorkers \in Nat
      BY FS_EmptySet, FS_CardinalityType DEF WellFormed
    <3>2. Init => idle = 0 /\ active = 0
      BY DEF Init
    <3>3. QED
      BY <2>1, <3>1, <3>2 DEF CountInv
  <2>3. QED
    BY <2>2, InitInv
<1>2. Inv /\ CountInv /\ [Next]_vars => Inv' /\ CountInv'
  BY NextInv, NextCounts DEF Inv
<1>3. Inv /\ CountInv => Counted
  BY DEF Inv, EndInv, CountInv, Counted, Count, Live, Lingering, Unused
<1>4. QED
  BY <1>1, <1>2, <1>3, PTL
=============================================================================
