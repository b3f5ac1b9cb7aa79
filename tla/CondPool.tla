------------------------------ MODULE CondPool ------------------------------
(***************************************************************************)
(* taskpool/cond.go: one shard of the fixed pool.  A mutex, a ring queue   *)
(* and two condition variables.  A sync.Cond is a FIFO of parked           *)
(* goroutines: Wait joins it before the mutex is released, Signal releases *)
(* the first of it and needs no mutex, and a released goroutine takes the  *)
(* mutex again before it goes on.                                          *)
(***************************************************************************)
EXTENDS Integers, Sequences, FiniteSetsExt

CONSTANTS
    Workers,     \* goroutines running worker
    Submitters,  \* goroutines calling submit or submitBatch, each once
    Batch,       \* the tasks each of them submits, as a sequence
    Single,      \* the submitters that use submit, with one task
    Tasks,
    Stopper,     \* the goroutine calling stop
    Size,        \* length of the ring, newCondPool's queueSize, at least 1
    None         \* no goroutine, no task

VARIABLES
    mu,           \* the goroutine that holds the mutex
    queue, head, tail, count,
    waiters, fullWaiters, stopped,
    pending,      \* the WaitGroup of accepted and unfinished tasks
    notEmpty, notFull,    \* the goroutines parked on each condition variable
    pc,
    task,         \* per worker: the task it took
    next, wake, wakeBudget,  \* per submitter: submitBatch's local variables
    status        \* history: what became of each task

ring == <<queue, head, tail, count>>
conds == <<waiters, fullWaiters, notEmpty, notFull>>
subs == <<next, wake, wakeBudget>>
vars == <<mu, ring, conds, stopped, pending, pc, task, subs, status>>

Procs == Workers \cup Submitters \cup {Stopper}

\* Goroutines have one role each, every task is submitted once, there is a
\* worker and a slot.
WellFormed ==
    /\ Size \in Nat \ {0} /\ Workers # {}
    /\ Workers \cap Submitters = {} /\ Stopper \notin Workers \cup Submitters
    /\ None \notin Tasks
    /\ \A s \in Submitters : Batch[s] \in Seq(Tasks)
    /\ \A s, u \in Submitters : \A i \in 1..Len(Batch[s]), j \in 1..Len(Batch[u]) :
          Batch[s][i] = Batch[u][j] => s = u /\ i = j

Goto(p, label) == pc' = [pc EXCEPT ![p] = label]
Lock(p) == mu = None /\ mu' = p
Unlock == mu' = None
Note(t, s) == status' = [status EXCEPT ![t] = s]

\* The ring: the index after i.
After(i) == IF i + 1 = Size THEN 0 ELSE i + 1

-----------------------------------------------------------------------------
(* Submitters.                                                             *)

Full == count = Size

\* Mutant: a submitter woken by stop goes on with its task.
mayEnqueueMutant == ~Full

\* The wait for room is over and the pool still takes tasks.
mayEnqueue == ~Full /\ ~stopped

Left(s) == Len(Batch[s]) - next[s]

\* The tasks that it has not enqueued.
Rest(s) == {Batch[s][i] : i \in next[s] + 1..Len(Batch[s])}
Refused(s) == status' = [t \in Tasks |-> IF t \in Rest(s) THEN "refused" ELSE status[t]]

\* submit and submitBatch take the mutex; a batch is added to pending at once.
Enter(s) ==
    LET single == s \in Single IN
    /\ pc[s] = "enter" /\ Lock(s) /\ (single \/ ~stopped)
    /\ Goto(s, "each")
    /\ pending' = IF single THEN pending ELSE pending + Len(Batch[s])
    /\ wakeBudget' = [wakeBudget EXCEPT ![s] = IF single THEN 0 ELSE waiters]
    /\ UNCHANGED <<ring, conds, stopped, task, next, wake, status>>

\* A batch that finds the pool stopped returns 0.
TurnAway(s) ==
    /\ pc[s] = "enter" /\ mu = None /\ stopped /\ s \notin Single
    /\ Refused(s) /\ Goto(s, "returned")
    /\ UNCHANGED <<mu, ring, conds, stopped, pending, task, subs>>

\* Mutant: submitBatch parks without the wake-ups it still owes.
OwedMutant(s) == 0

\* The wake-ups a batch settles before it parks.
Owed(s) == wake[s]

\* The queue is full: settle the wake-ups, park on notFull, release the mutex.
Park(s) ==
    LET n == IF Owed(s) <= Len(notEmpty) THEN Owed(s) ELSE Len(notEmpty) IN
    /\ pc[s] = "each" /\ mu = s /\ Left(s) > 0 /\ Full /\ ~stopped
    /\ pc' = [p \in Procs |-> IF p = s THEN "parked"
                              ELSE IF \E i \in 1..n : notEmpty[i] = p THEN "woken" ELSE pc[p]]
    /\ notEmpty' = SubSeq(notEmpty, n + 1, Len(notEmpty))
    /\ notFull' = Append(notFull, s)
    /\ fullWaiters' = fullWaiters + 1
    /\ wake' = [wake EXCEPT ![s] = 0]
    /\ Unlock
    /\ UNCHANGED <<ring, waiters, stopped, pending, task, next, wakeBudget, status>>

\* Wait returns with the mutex; a batch reads the number of parked workers anew.
Unpark(s) ==
    /\ pc[s] = "woken" /\ Lock(s)
    /\ Goto(s, "each")
    /\ fullWaiters' = fullWaiters - 1
    /\ wakeBudget' = [wakeBudget EXCEPT ![s] = IF s \in Single THEN 0 ELSE waiters]
    /\ UNCHANGED <<ring, waiters, notEmpty, notFull, stopped, pending, task, next, wake, status>>

\* enqueueLocked.  submit wakes a worker if any is parked, submitBatch one per
\* task while its budget lasts.
Enqueue(s) ==
    LET t == Batch[s][next[s] + 1]
        single == s \in Single
        signal == IF single THEN waiters > 0 ELSE wakeBudget[s] > 0 IN
    /\ pc[s] = "each" /\ mu = s /\ Left(s) > 0 /\ mayEnqueue
    /\ queue' = [queue EXCEPT ![tail] = t]
    /\ tail' = After(tail) /\ count' = count + 1
    /\ pending' = IF single THEN pending + 1 ELSE pending
    /\ next' = [next EXCEPT ![s] = @ + 1]
    /\ wake' = [wake EXCEPT ![s] = IF signal THEN @ + 1 ELSE @]
    /\ wakeBudget' = [wakeBudget EXCEPT ![s] = IF signal /\ ~single THEN @ - 1 ELSE @]
    /\ Note(t, "queued")
    /\ UNCHANGED <<mu, head, conds, stopped, pc, task>>

\* What a stopped batch takes back from pending.
Rejected(s) == IF s \in Single THEN 0 ELSE Left(s)

\* The batch is done, or the pool stopped under it and the rest is rejected.
Release(s) ==
    /\ pc[s] = "each" /\ mu = s /\ (Left(s) = 0 \/ (stopped /\ ~mayEnqueue))
    /\ pending' = pending - Rejected(s)
    /\ Refused(s)
    /\ Goto(s, "signal") /\ Unlock
    /\ UNCHANGED <<ring, conds, stopped, task, subs>>

\* The wake-ups that were put off, one at a time and without the mutex.
Signal(s) ==
    /\ pc[s] = "signal"
    /\ IF wake[s] = 0 THEN Goto(s, "returned") /\ UNCHANGED <<notEmpty, wake>>
       ELSE /\ wake' = [wake EXCEPT ![s] = @ - 1]
            /\ IF notEmpty = <<>> THEN UNCHANGED <<pc, notEmpty>>
               ELSE Goto(Head(notEmpty), "woken") /\ notEmpty' = Tail(notEmpty)
    /\ UNCHANGED <<mu, ring, waiters, fullWaiters, notFull, stopped, pending, task, next,
                   wakeBudget, status>>

-----------------------------------------------------------------------------
(* Workers.                                                                *)

\* A worker takes the mutex, for the first time or because Wait returns.
Begin(w) ==
    /\ pc[w] \in {"begin", "woken"} /\ Lock(w)
    /\ waiters' = IF pc[w] = "woken" THEN waiters - 1 ELSE waiters
    /\ Goto(w, "look")
    /\ UNCHANGED <<ring, fullWaiters, notEmpty, notFull, stopped, pending, task, subs, status>>

\* Nothing to run: park on notEmpty.
Wait(w) ==
    /\ pc[w] = "look" /\ mu = w /\ count = 0 /\ ~stopped
    /\ waiters' = waiters + 1
    /\ notEmpty' = Append(notEmpty, w)
    /\ Goto(w, "parked") /\ Unlock
    /\ UNCHANGED <<ring, fullWaiters, notFull, stopped, pending, task, subs, status>>

\* Mutant: a stopped pool's workers leave their queue behind.
mayExitMutant == stopped

\* A worker leaves a stopped pool once nothing is queued.
mayExit == count = 0 /\ stopped

Exit(w) ==
    /\ pc[w] = "look" /\ mu = w /\ mayExit
    /\ Goto(w, "exited") /\ Unlock
    /\ UNCHANGED <<ring, conds, stopped, pending, task, subs, status>>

\* Whether the room this worker makes is worth a wake-up.
WakeFull == fullWaiters > 0

Take(w) ==
    /\ pc[w] = "look" /\ mu = w /\ count > 0
    /\ task' = [task EXCEPT ![w] = queue[head]]
    /\ queue' = [queue EXCEPT ![head] = None]
    /\ head' = After(head) /\ count' = count - 1
    /\ Goto(w, IF WakeFull THEN "room" ELSE "run") /\ Unlock
    /\ UNCHANGED <<tail, conds, stopped, pending, subs, status>>

\* notFull.Signal, without the mutex.
Room(w) ==
    /\ pc[w] = "room"
    /\ IF notFull = <<>> THEN Goto(w, "run") /\ UNCHANGED notFull
       ELSE /\ pc' = [pc EXCEPT ![w] = "run", ![Head(notFull)] = "woken"]
            /\ notFull' = Tail(notFull)
    /\ UNCHANGED <<mu, ring, waiters, fullWaiters, notEmpty, stopped, pending, task, subs, status>>

\* executor.call starts; a panicking task ends like any other.
Run(w) ==
    /\ pc[w] = "run"
    /\ Note(task[w], "running") /\ Goto(w, "running")
    /\ UNCHANGED <<mu, ring, conds, stopped, pending, task, subs>>

Done(w) ==
    /\ pc[w] = "running"
    /\ Note(task[w], "done") /\ Goto(w, "begin")
    /\ pending' = pending - 1
    /\ task' = [task EXCEPT ![w] = None]
    /\ UNCHANGED <<mu, ring, conds, stopped, subs>>

-----------------------------------------------------------------------------
(* stop.                                                                   *)

Broadcast(list, p) == \E i \in DOMAIN list : list[i] = p

StopBegin ==
    /\ pc[Stopper] = "begin" /\ mu = None
    /\ stopped' = TRUE
    /\ pc' = [p \in Procs |-> IF p = Stopper THEN "pending"
                              ELSE IF Broadcast(notEmpty, p) \/ Broadcast(notFull, p) THEN "woken"
                              ELSE pc[p]]
    /\ notEmpty' = <<>> /\ notFull' = <<>>
    /\ UNCHANGED <<mu, ring, waiters, fullWaiters, pending, task, subs, status>>

\* pending.Wait returns, and the workers that parked meanwhile are woken.
StopPending ==
    /\ pc[Stopper] = "pending" /\ pending = 0 /\ mu = None
    /\ pc' = [p \in Procs |-> IF p = Stopper THEN "workers"
                              ELSE IF Broadcast(notEmpty, p) THEN "woken" ELSE pc[p]]
    /\ notEmpty' = <<>>
    /\ UNCHANGED <<mu, ring, waiters, fullWaiters, notFull, stopped, pending, task, subs, status>>

\* workers.Wait returns.
StopReturn ==
    /\ pc[Stopper] = "workers" /\ \A w \in Workers : pc[w] = "exited"
    /\ Goto(Stopper, "returned")
    /\ UNCHANGED <<mu, ring, conds, stopped, pending, task, subs, status>>

-----------------------------------------------------------------------------

Init ==
    /\ mu = None
    /\ queue = [i \in 0..Size - 1 |-> None] /\ head = 0 /\ tail = 0 /\ count = 0
    /\ waiters = 0 /\ fullWaiters = 0 /\ notEmpty = <<>> /\ notFull = <<>>
    /\ stopped = FALSE /\ pending = 0
    /\ pc = [p \in Procs |-> IF p \in Submitters THEN "enter" ELSE "begin"]
    /\ task = [w \in Workers |-> None]
    /\ next = [s \in Submitters |-> 0] /\ wake = next /\ wakeBudget = next
    /\ status = [t \in Tasks |-> "new"]

Submit(s) ==
    \/ Enter(s) \/ Park(s) \/ Unpark(s) \/ Enqueue(s) \/ Release(s) \/ TurnAway(s) \/ Signal(s)

Work(w) ==
    Begin(w) \/ Wait(w) \/ Exit(w) \/ Take(w) \/ Room(w) \/ Run(w) \/ Done(w)

Finishing == StopPending \/ StopReturn

\* Everybody is back: nothing more happens.
Over == (\A p \in Procs : pc[p] \in {"returned", "exited"}) /\ UNCHANGED vars

Next ==
    \/ \E s \in Submitters : Submit(s)
    \/ \E w \in Workers : Work(w)
    \/ StopBegin \/ Finishing \/ Over

-----------------------------------------------------------------------------
(* Properties.                                                             *)

\* The ring holds the queued tasks, oldest first from head, and the counters
\* count the goroutines parked or just released.
RingOK ==
    /\ count = Cardinality({t \in Tasks : status[t] = "queued" /\ \A w \in Workers : task[w] # t})
    /\ tail = (head + count) % Size
    /\ \A i \in 0..Size - 1 : (queue[i] = None) <=> ((i - head + Size) % Size >= count)

Up(labels) == {p \in Procs : pc[p] \in labels}

\* Work conservation: unless every parked worker is about to be signalled, every
\* queued task has a worker of its own coming for it, awake or about to be
\* signalled.  The wake-ups are sent outside the mutex, to waiters counted inside
\* it, and a task queued behind one that blocks must still reach a parked worker.
NoLostWakeup ==
    LET signals == MapThenSumSet(LAMBDA s : wake[s], Submitters) IN
    \/ Len(notEmpty) <= signals
    \/ count <= Cardinality(Up({"begin", "woken", "look"}) \cap Workers) + signals

\* While a submitter is parked on a full queue, every free slot is the business
\* of a worker about to signal it or of a submitter that has been woken.
NoLostRoom ==
    notFull # <<>> =>
        Size - count <= Cardinality(Up({"room"}))
                        + Cardinality(Up({"woken", "each"}) \cap Submitters)
=============================================================================
