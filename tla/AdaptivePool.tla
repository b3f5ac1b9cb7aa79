---------------------------- MODULE AdaptivePool ----------------------------
(***************************************************************************)
(* taskpool/adaptive.go: one shard of the adaptive pool and the janitor    *)
(* that shrinks it.  The population of workers follows the load between a  *)
(* floor and a ceiling that Resize may move.  A critical section that      *)
(* neither waits nor loops over tasks is one step; a batch holds the mutex *)
(* from task to task.  Condition variables are as in CondPool, the ring    *)
(* checked there is a sequence here.                                       *)
(***************************************************************************)
EXTENDS Integers, Sequences, FiniteSetsExt

CONSTANTS
    Slots,       \* worker goroutines that may live at a time
    Submitters, Batch, Single, Tasks,   \* as in CondPool
    Stopper, Janitor, Resizer,
    Size,        \* length of the queue, at least 1
    Sizings,     \* the <<minWorkers, maxWorkers>> a shard may be given
    First,       \* the one newAdaptiveBackend gives it
    MaxShrinks,  \* bound on ticks of the janitor
    MaxResizes,  \* bound on calls of resize
    None

VARIABLES
    mu,          \* the goroutine that holds the mutex
    queue, stopped, pending,
    idle, signals, fullWaiters, workers, retire, lowIdle,
    minWorkers, maxWorkers,
    notEmpty, notFull,
    pc,
    task,        \* per worker: the task it took
    next,        \* per submitter: how many of its tasks are queued
    wake, spawn, \* per goroutine: wake-ups and workers it still owes
    shrinks, resizes,
    status       \* history: what became of each task

crew == <<idle, signals, workers, retire, lowIdle>>
sizing == <<minWorkers, maxWorkers>>
conds == <<fullWaiters, notEmpty, notFull>>
bounds == <<shrinks, resizes>>
vars == <<mu, queue, stopped, pending, crew, sizing, conds, pc, task, next, wake, spawn, bounds, status>>

Procs == Slots \cup Submitters \cup {Stopper, Janitor, Resizer}

Free == mu = None
Note(t, s) == status' = [status EXCEPT ![t] = s]
Lower(a, b) == IF a <= b THEN a ELSE b
InSeq(p, list) == \E i \in DOMAIN list : list[i] = p

\* The control points after p goes to label, the first n parked workers are
\* released and the workers of S start.
Control(p, label, n, S) ==
    [q \in Procs |->
        IF q = p THEN label
        ELSE IF q \in S THEN "begin"
        ELSE IF \E i \in 1..Lower(n, Len(notEmpty)) : notEmpty[i] = q THEN "woken"
        ELSE pc[q]]

Released(n) == notEmpty' = SubSeq(notEmpty, Lower(n, Len(notEmpty)) + 1, Len(notEmpty))

\* Sets of n goroutines that can be started.
Starts(n) == kSubset(n, {w \in Slots : pc[w] = "none"})

\* Mutant: a claimed worker still counts as idle.
claimLockedMutant == [idle |-> idle, signals |-> signals + 1]

\* claimLocked's effect, when some worker is parked and not spoken for.
claimLocked == [idle |-> idle - 1, signals |-> signals + 1]

Claim ==
    /\ idle > 0
    /\ idle' = claimLocked.idle /\ signals' = claimLocked.signals
    /\ lowIdle' = Lower(lowIdle, claimLocked.idle)

canSpawn == workers < maxWorkers

-----------------------------------------------------------------------------
(* submit and submitBatch.                                                 *)

Full == Len(queue) = Size

\* The wait for room is over and the pool still takes tasks.
mayEnqueue == ~Full /\ ~stopped

Left(s) == Len(Batch[s]) - next[s]
Rest(s) == {Batch[s][i] : i \in next[s] + 1..Len(Batch[s])}
Refused(s) == status' = [t \in Tasks |-> IF t \in Rest(s) THEN "refused" ELSE status[t]]

Enter(s) ==
    /\ pc[s] = "enter" /\ Free
    /\ IF stopped THEN /\ Refused(s) /\ pc' = [pc EXCEPT ![s] = "returned"]
                       /\ UNCHANGED <<mu, pending>>
       ELSE /\ pc' = [pc EXCEPT ![s] = "each"] /\ mu' = s
            /\ pending' = IF s \in Single THEN pending ELSE pending + Len(Batch[s])
            /\ UNCHANGED status
    /\ UNCHANGED <<queue, stopped, crew, sizing, conds, task, next, wake, spawn, bounds>>

\* The wake-ups a batch sends before it parks on a full queue.
Settle(s) == wake[s]

\* The queue is full: settle what is owed, start one more worker if the ceiling
\* allows, and wait for room (waitForRoomLocked).
Park(s) ==
    LET grow == IF canSpawn THEN 1 ELSE 0 IN
    /\ pc[s] = "each" /\ mu = s /\ Left(s) > 0 /\ Full /\ ~stopped
    /\ \E S \in Starts(spawn[s] + grow) : pc' = Control(s, "parked", Settle(s), S)
    /\ Released(Settle(s))
    /\ workers' = workers + grow
    /\ notFull' = Append(notFull, s) /\ fullWaiters' = fullWaiters + 1
    /\ wake' = [wake EXCEPT ![s] = 0] /\ spawn' = [spawn EXCEPT ![s] = 0]
    /\ mu' = None
    /\ UNCHANGED <<queue, stopped, pending, idle, signals, retire, lowIdle, sizing, task, next,
                   bounds, status>>

Unpark(s) ==
    /\ pc[s] = "woken" /\ Free
    /\ pc' = [pc EXCEPT ![s] = "each"] /\ mu' = s
    /\ fullWaiters' = fullWaiters - 1
    /\ UNCHANGED <<queue, stopped, pending, crew, sizing, notEmpty, notFull, task, next, wake,
                   spawn, bounds, status>>

\* Each task claims a parked worker or else starts one, the ceiling allowing.
Enqueue(s) ==
    LET t == Batch[s][next[s] + 1] IN
    /\ pc[s] = "each" /\ mu = s /\ Left(s) > 0 /\ mayEnqueue
    /\ queue' = Append(queue, t) /\ Note(t, "queued")
    /\ pending' = IF s \in Single THEN pending + 1 ELSE pending
    /\ next' = [next EXCEPT ![s] = @ + 1]
    /\ \/ Claim /\ wake' = [wake EXCEPT ![s] = @ + 1] /\ UNCHANGED <<workers, spawn>>
       \/ /\ idle = 0 /\ canSpawn
          /\ workers' = workers + 1 /\ spawn' = [spawn EXCEPT ![s] = @ + 1]
          /\ UNCHANGED <<idle, signals, lowIdle, wake>>
       \/ /\ idle = 0 /\ ~canSpawn
          /\ UNCHANGED <<idle, signals, lowIdle, wake, workers, spawn>>
    /\ UNCHANGED <<mu, stopped, retire, sizing, conds, pc, task, bounds>>

\* What a stopped batch takes back from pending.
Rejected(s) == IF s \in Single THEN 0 ELSE Left(s)

Release(s) ==
    /\ pc[s] = "each" /\ mu = s /\ (Left(s) = 0 \/ (stopped /\ ~mayEnqueue))
    /\ pending' = pending - Rejected(s)
    /\ Refused(s)
    /\ pc' = [pc EXCEPT ![s] = "owing"] /\ mu' = None
    /\ UNCHANGED <<queue, stopped, crew, sizing, conds, task, next, wake, spawn, bounds>>

\* signal and startWorkers, one at a time and without the mutex.  The janitor
\* and Resize end the same way.
Settling(p, after) ==
    /\ pc[p] = "owing"
    /\ \/ /\ wake[p] > 0 /\ wake' = [wake EXCEPT ![p] = @ - 1]
          /\ pc' = Control(p, "owing", 1, {}) /\ Released(1)
          /\ UNCHANGED spawn
       \/ /\ wake[p] = 0 /\ spawn[p] > 0 /\ spawn' = [spawn EXCEPT ![p] = @ - 1]
          /\ \E S \in Starts(1) : pc' = Control(p, "owing", 0, S)
          /\ UNCHANGED <<wake, notEmpty>>
       \/ /\ wake[p] = 0 /\ spawn[p] = 0
          /\ pc' = [pc EXCEPT ![p] = after]
          /\ UNCHANGED <<wake, spawn, notEmpty>>
    /\ UNCHANGED <<mu, queue, stopped, pending, crew, sizing, fullWaiters, notFull, task, next,
                   bounds, status>>

Submit(s) == Enter(s) \/ Park(s) \/ Unpark(s) \/ Enqueue(s) \/ Release(s) \/ Settling(s, "returned")

-----------------------------------------------------------------------------
(* worker.                                                                 *)

\* Whether a claim is outstanding.
takesClaim == signals > 0

\* Wait returns: the worker takes up a claim, or leaves the idle ones.
Resume(w) ==
    /\ pc[w] = "woken" /\ Free
    /\ pc' = [pc EXCEPT ![w] = "look"] /\ mu' = w
    /\ IF takesClaim THEN signals' = signals - 1 /\ UNCHANGED <<idle, lowIdle>>
       ELSE idle' = idle - 1 /\ lowIdle' = Lower(lowIdle, idle') /\ UNCHANGED signals
    /\ UNCHANGED <<queue, stopped, pending, workers, retire, sizing, conds, task, next, wake, spawn,
                   bounds, status>>

Begin(w) ==
    /\ pc[w] = "begin" /\ Free
    /\ pc' = [pc EXCEPT ![w] = "look"] /\ mu' = w
    /\ UNCHANGED <<queue, stopped, pending, crew, sizing, conds, task, next, wake, spawn, bounds, status>>

overCeiling == workers > maxWorkers

\* Mutant: a retiring worker does not look at the floor.
mayRetireMutant == retire > 0

\* An idle worker does what the last shrink asked for, above the floor.
mayRetire == retire > 0 /\ workers > minWorkers

\* The leaving worker passes on the wake-up of a task it does not take.
Handoff == queue # <<>> /\ idle > 0

\* exitLocked, for a worker over the ceiling, of a stopped pool, or retiring.
Exit(w) ==
    /\ pc[w] = "look" /\ mu = w
    /\ \/ overCeiling /\ UNCHANGED retire
       \/ ~overCeiling /\ queue = <<>> /\ stopped /\ UNCHANGED retire
       \/ ~overCeiling /\ queue = <<>> /\ ~stopped /\ mayRetire /\ retire' = retire - 1
    /\ workers' = workers - 1 /\ mu' = None
    /\ IF Handoff THEN Claim /\ pc' = [pc EXCEPT ![w] = "handoff"]
       ELSE pc' = [pc EXCEPT ![w] = "none"] /\ UNCHANGED <<idle, signals, lowIdle>>
    /\ UNCHANGED <<queue, stopped, pending, sizing, conds, task, next, wake, spawn, bounds, status>>

HandOff(w) ==
    /\ pc[w] = "handoff"
    /\ pc' = Control(w, "none", 1, {}) /\ Released(1)
    /\ UNCHANGED <<mu, queue, stopped, pending, crew, sizing, fullWaiters, notFull, task, next,
                   wake, spawn, bounds, status>>

\* Mutant: the last submitter waiting for room is not woken.
wakeFullMutant == fullWaiters > 1

\* Whether somebody waits for the room this worker makes.
wakeFull == fullWaiters > 0

Take(w) ==
    /\ pc[w] = "look" /\ mu = w /\ ~overCeiling /\ queue # <<>>
    /\ task' = [task EXCEPT ![w] = Head(queue)] /\ queue' = Tail(queue)
    /\ pc' = [pc EXCEPT ![w] = IF wakeFull THEN "room" ELSE "run"] /\ mu' = None
    /\ UNCHANGED <<stopped, pending, crew, sizing, conds, next, wake, spawn, bounds, status>>

Room(w) ==
    /\ pc[w] = "room"
    /\ IF notFull = <<>> THEN pc' = [pc EXCEPT ![w] = "run"] /\ UNCHANGED notFull
       ELSE /\ pc' = [pc EXCEPT ![w] = "run", ![Head(notFull)] = "woken"]
            /\ notFull' = Tail(notFull)
    /\ UNCHANGED <<mu, queue, stopped, pending, crew, sizing, fullWaiters, notEmpty, task, next,
                   wake, spawn, bounds, status>>

Run(w) ==
    /\ pc[w] = "run"
    /\ pc' = [pc EXCEPT ![w] = "running"] /\ Note(task[w], "running")
    /\ UNCHANGED <<mu, queue, stopped, pending, crew, sizing, conds, task, next, wake, spawn, bounds>>

Done(w) ==
    /\ pc[w] = "running"
    /\ pc' = [pc EXCEPT ![w] = "begin"] /\ Note(task[w], "done")
    /\ pending' = pending - 1 /\ task' = [task EXCEPT ![w] = None]
    /\ UNCHANGED <<mu, queue, stopped, crew, sizing, conds, next, wake, spawn, bounds>>

\* Nothing to do: the worker parks.
Wait(w) ==
    /\ pc[w] = "look" /\ mu = w /\ ~overCeiling /\ queue = <<>> /\ ~stopped /\ ~mayRetire
    /\ idle' = idle + 1
    /\ notEmpty' = Append(notEmpty, w)
    /\ pc' = [pc EXCEPT ![w] = "parked"] /\ mu' = None
    /\ UNCHANGED <<queue, stopped, pending, signals, workers, retire, lowIdle, sizing, fullWaiters,
                   notFull, task, next, wake, spawn, bounds, status>>

Work(w) ==
    \/ Begin(w) \/ Resume(w) \/ Exit(w) \/ HandOff(w)
    \/ Take(w) \/ Room(w) \/ Run(w) \/ Done(w) \/ Wait(w)

-----------------------------------------------------------------------------
(* The janitor, Resize and stop.                                           *)

\* shrink: half of the workers that were idle all through the interval.
Shrink ==
    LET surplus == workers - minWorkers
        n == IF lowIdle > 0 /\ surplus > 0 /\ ~stopped
             THEN Lower((lowIdle + 1) \div 2, surplus) ELSE 0 IN
    /\ pc[Janitor] = "begin" /\ Free /\ shrinks < MaxShrinks
    /\ lowIdle' = idle /\ retire' = n
    /\ wake' = [wake EXCEPT ![Janitor] = Lower(n, idle)]
    /\ pc' = [pc EXCEPT ![Janitor] = "owing"]
    /\ shrinks' = shrinks + 1
    /\ UNCHANGED <<mu, queue, stopped, pending, idle, signals, workers, sizing, conds, task, next,
                   spawn, resizes, status>>

\* stopJanitor is closed: the janitor returns.
JanitorReturns ==
    /\ pc[Janitor] = "begin" /\ pc[Stopper] = "janitor"
    /\ pc' = [pc EXCEPT ![Janitor] = "returned"]
    /\ UNCHANGED <<mu, queue, stopped, pending, crew, sizing, conds, task, next, wake, spawn, bounds, status>>

\* Mutant: the population is compared with the ceiling being replaced.
isOverMutant(z) == workers > maxWorkers

\* Whether the new ceiling leaves workers over it.
isOver(z) == workers > z[2]

\* resize: a raised floor starts the missing workers.
Resize(z) ==
    LET grow == IF stopped \/ workers >= z[1] THEN 0 ELSE z[1] - workers IN
    /\ pc[Resizer] = "begin" /\ Free /\ resizes < MaxResizes
    /\ minWorkers' = z[1] /\ maxWorkers' = z[2]
    /\ workers' = workers + grow
    /\ spawn' = [spawn EXCEPT ![Resizer] = grow]
    /\ pc' = [pc EXCEPT ![Resizer] = IF isOver(z) THEN "over" ELSE "owing"]
    /\ resizes' = resizes + 1
    /\ UNCHANGED <<mu, queue, stopped, pending, idle, signals, retire, lowIdle, conds, task, next,
                   wake, shrinks, status>>

\* A lowered ceiling wakes every parked worker.
WakeOver ==
    /\ pc[Resizer] = "over"
    /\ pc' = Control(Resizer, "owing", Len(notEmpty), {}) /\ Released(Len(notEmpty))
    /\ UNCHANGED <<mu, queue, stopped, pending, crew, sizing, fullWaiters, notFull, task, next,
                   wake, spawn, bounds, status>>

Stop ==
    /\ pc[Stopper] = "begin"
    /\ pc' = [pc EXCEPT ![Stopper] = "janitor"]
    /\ UNCHANGED <<mu, queue, stopped, pending, crew, sizing, conds, task, next, wake, spawn, bounds, status>>

StopShard ==
    /\ pc[Stopper] = "janitor" /\ pc[Janitor] = "returned" /\ Free
    /\ stopped' = TRUE
    /\ pc' = [p \in Procs |-> IF p = Stopper THEN "pending"
                              ELSE IF InSeq(p, notEmpty) \/ InSeq(p, notFull) THEN "woken" ELSE pc[p]]
    /\ notEmpty' = <<>> /\ notFull' = <<>>
    /\ UNCHANGED <<mu, queue, pending, crew, sizing, fullWaiters, task, next, wake, spawn, bounds, status>>

StopPending ==
    /\ pc[Stopper] = "pending" /\ pending = 0 /\ Free
    /\ pc' = Control(Stopper, "workers", Len(notEmpty), {}) /\ Released(Len(notEmpty))
    /\ UNCHANGED <<mu, queue, stopped, pending, crew, sizing, fullWaiters, notFull, task, next,
                   wake, spawn, bounds, status>>

\* The workers the WaitGroup counts: reserved, alive, or handing off.
Reserved == MapThenSumSet(LAMBDA p : spawn[p], Procs)
Alive == {w \in Slots : pc[w] # "none"}

StopReturn ==
    /\ pc[Stopper] = "workers" /\ Reserved = 0 /\ Alive = {}
    /\ pc' = [pc EXCEPT ![Stopper] = "returned"]
    /\ UNCHANGED <<mu, queue, stopped, pending, crew, sizing, conds, task, next, wake, spawn, bounds, status>>

Housekeeping == Shrink \/ Settling(Janitor, "begin") \/ JanitorReturns
Resizing == (\E z \in Sizings : Resize(z)) \/ WakeOver \/ Settling(Resizer, "begin")
Stopping == StopShard \/ StopPending \/ StopReturn

Over ==
    /\ \A p \in Submitters \cup {Stopper} : pc[p] = "returned"
    /\ UNCHANGED vars

\* newAdaptiveBackend's resize has started the first workers.
Init ==
    /\ mu = None /\ queue = <<>> /\ stopped = FALSE /\ pending = 0
    /\ idle = 0 /\ signals = 0 /\ retire = 0 /\ lowIdle = 0 /\ fullWaiters = 0
    /\ minWorkers = First[1] /\ maxWorkers = First[2] /\ workers = First[1]
    /\ notEmpty = <<>> /\ notFull = <<>>
    /\ pc \in {[p \in Procs |-> IF p \in Submitters THEN "enter"
                                ELSE IF p \in Slots \ S THEN "none" ELSE "begin"] :
                S \in {CHOOSE S \in kSubset(First[1], Slots) : TRUE}}
    /\ task = [w \in Slots |-> None]
    /\ next = [s \in Submitters |-> 0]
    /\ wake = [p \in Procs |-> 0] /\ spawn = wake
    /\ shrinks = 0 /\ resizes = 0
    /\ status = [t \in Tasks |-> "new"]

Next ==
    \/ \E s \in Submitters : Submit(s)
    \/ \E w \in Slots : Work(w)
    \/ Housekeeping \/ Resizing \/ Stop \/ Stopping \/ Over

-----------------------------------------------------------------------------
(* Properties.                                                             *)

Parked == {w \in Slots : pc[w] \in {"parked", "woken"}}

\* idle and signals partition the workers in Wait: a parked worker is either
\* free to be claimed or spoken for, whoever's wake-up reaches it; and workers
\* counts the live and the reserved ones.
CrewCounted ==
    /\ idle >= 0 /\ signals >= 0
    /\ idle + signals = Cardinality(Parked)
    /\ workers = Reserved + Cardinality(Alive) - Cardinality({w \in Slots : pc[w] = "handoff"})
    /\ lowIdle <= idle

\* retire never takes the pool below its floor.
Floor == ~stopped => workers >= minWorkers

Owed == MapThenSumSet(LAMBDA p : wake[p], Procs) + Cardinality({w \in Slots : pc[w] = "handoff"})

\* A task that finds no idle worker starts one, up to the ceiling: below it every
\* queued task has a worker of its own, reserved, awake or about to be woken, so
\* that no task waits behind one that blocks while the pool could still grow.
OwnWorker ==
    \/ workers >= maxWorkers
    \/ Len(queue) <= Reserved + Cardinality({w \in Slots : pc[w] \in {"begin", "look", "woken"}})
                     + Lower(Owed, Len(notEmpty))

\* A claim is not lost: a worker for it is up, or someone owes its wake-up.
ClaimsWake ==
    signals <= Cardinality({w \in Slots : pc[w] = "woken"}) + Owed
=============================================================================
