----------------------------- MODULE TaskPools -----------------------------
(***************************************************************************)
(* taskpool.go: a TaskPool runs one of three backends, chosen when it is   *)
(* made (NewWithMode).  The composition runs each of them against the same *)
(* promise, TaskPool.  Backends share the variables they have in common;   *)
(* the others keep the value 0 while another backend runs.                 *)
(***************************************************************************)
EXTENDS Integers, Sequences, FiniteSets

CONSTANTS
    Tasks, Single, None,
    Submitters, Batch,    \* the goroutines that submit and their tasks, for each mode
    Slots,                \* worker goroutines
    Stopper, Janitor, Resizer, Dispatcher,
    queueSize,            \* for each mode
    Sizings, First, MaxShrinks, MaxResizes,   \* of the adaptive pool
    maxConcurrent         \* of the elastic pool

Modes == {"cond", "adaptive", "elastic"}

ASSUME TaskPoolsAssumption ==
    /\ queueSize \in [Modes -> Nat] /\ queueSize["cond"] > 0 /\ queueSize["adaptive"] > 0
    /\ maxConcurrent \in 1..Cardinality(Slots) + 1
    /\ \A z \in Sizings \cup {First} : z[1] \in Nat /\ z[2] \in Nat \ {0} /\ z[1] <= z[2]
    /\ \A m \in Modes : \A s \in Submitters[m] :
          /\ Batch[m][s] \in Seq(Tasks) /\ Batch[m][s] # <<>>
          /\ s \in Single => Len(Batch[m][s]) = 1

VARIABLES
    mode,
    mu, stopped, pc, task, next, status,
    queue, pending, fullWaiters, notEmpty, notFull, wake,     \* cond and adaptive
    head, tail, count, waiters, wakeBudget,                   \* cond
    signals, workers, retire, lowIdle, minWorkers, maxWorkers, spawn, shrinks, resizes,  \* adaptive
    idle,                                                     \* adaptive and elastic
    active, tasks, taskWG                                     \* elastic

queues == <<queue, pending, fullWaiters, notEmpty, notFull, wake>>
onlyCond == <<head, tail, count, waiters, wakeBudget>>
onlyAdaptive ==
    <<signals, workers, retire, lowIdle, minWorkers, maxWorkers, spawn, shrinks, resizes>>
onlyElastic == <<active, tasks, taskWG>>
vars == <<mu, stopped, pc, task, next, status, queues, onlyCond, onlyAdaptive, idle, onlyElastic>>

Cond == INSTANCE CondPool
    WITH Workers <- Slots, Submitters <- Submitters["cond"], Batch <- Batch["cond"], Size <- queueSize["cond"]

ASSUME CondPoolAssumption == Cond!WellFormed

Adaptive == INSTANCE AdaptivePool
    WITH Submitters <- Submitters["adaptive"], Batch <- Batch["adaptive"], Size <- queueSize["adaptive"]

Elastic == INSTANCE ElasticPool
    WITH Submitters <- Submitters["elastic"], Batch <- Batch["elastic"], QueueSize <- queueSize["elastic"],
         maxWorkers <- maxConcurrent - 1

ASSUME ElasticPoolAssumption == Elastic!WellFormed

\* What a backend leaves alone.
condRest == <<onlyAdaptive, idle, onlyElastic>>
adaptiveRest == <<onlyCond, onlyElastic>>
elasticRest == <<queues, onlyCond, onlyAdaptive>>

\* NewWithMode.
Init ==
    /\ mode \in Modes
    /\ \/ mode = "cond" /\ Cond!Init
          /\ signals = 0 /\ workers = 0 /\ retire = 0 /\ lowIdle = 0 /\ minWorkers = 0
          /\ maxWorkers = 0 /\ spawn = 0 /\ shrinks = 0 /\ resizes = 0
          /\ idle = 0 /\ active = 0 /\ tasks = 0 /\ taskWG = 0
       \/ mode = "adaptive" /\ Adaptive!Init
          /\ head = 0 /\ tail = 0 /\ count = 0 /\ waiters = 0 /\ wakeBudget = 0
          /\ active = 0 /\ tasks = 0 /\ taskWG = 0
       \/ mode = "elastic" /\ Elastic!Init
          /\ queue = 0 /\ pending = 0 /\ fullWaiters = 0 /\ notEmpty = 0 /\ notFull = 0 /\ wake = 0
          /\ head = 0 /\ tail = 0 /\ count = 0 /\ waiters = 0 /\ wakeBudget = 0
          /\ signals = 0 /\ workers = 0 /\ retire = 0 /\ lowIdle = 0 /\ minWorkers = 0
          /\ maxWorkers = 0 /\ spawn = 0 /\ shrinks = 0 /\ resizes = 0

\* The calls of the facade go to the backend.
Next ==
    /\ \/ mode = "cond" /\ Cond!Next /\ UNCHANGED condRest
       \/ mode = "adaptive" /\ Adaptive!Next /\ UNCHANGED adaptiveRest
       \/ mode = "elastic" /\ Elastic!Next /\ UNCHANGED elasticRest
    /\ UNCHANGED mode

Spec == Init /\ [][Next]_<<vars, mode>>

-----------------------------------------------------------------------------
(* Fairness: some submitter that can go on does, some worker does, and so   *)
(* do Stop, the dispatcher and whoever began a shrink or a resize.  Work   *)
(* is finite, so no fairness between goroutines, nor of the mutex, is      *)
(* needed.  The janitor ticks as it likes but returns when told to; nobody *)
(* has to call Stop or Resize.                                             *)

Everyone == UNION {Submitters[m] : m \in Modes}

Submitting(s) ==
    \/ mode = "cond" /\ s \in Submitters["cond"] /\ Cond!Submit(s) /\ UNCHANGED condRest
    \/ /\ mode = "adaptive" /\ s \in Submitters["adaptive"]
       /\ Adaptive!Submit(s) /\ UNCHANGED adaptiveRest
    \/ mode = "elastic" /\ s \in Submitters["elastic"] /\ Elastic!Submit(s) /\ UNCHANGED elasticRest

Working(w) ==
    \/ mode = "cond" /\ Cond!Work(w) /\ UNCHANGED condRest
    \/ mode = "adaptive" /\ Adaptive!Work(w) /\ UNCHANGED adaptiveRest
    \/ mode = "elastic" /\ Elastic!Work(w) /\ UNCHANGED elasticRest

Stopping ==
    \/ mode = "cond" /\ Cond!Finishing /\ UNCHANGED condRest
    \/ mode = "adaptive" /\ (Adaptive!JanitorReturns \/ Adaptive!Stopping) /\ UNCHANGED adaptiveRest
    \/ mode = "elastic" /\ (Elastic!StopTasks \/ Elastic!StopReturn) /\ UNCHANGED elasticRest

\* The janitor, the dispatcher and Resize finish what they began.
Attending ==
    \/ mode = "adaptive" /\ Adaptive!Settling(Janitor, "begin") /\ UNCHANGED adaptiveRest
    \/ mode = "elastic" /\ Elastic!Dispatch /\ UNCHANGED elasticRest

Resizing ==
    /\ mode = "adaptive" /\ (Adaptive!WakeOver \/ Adaptive!Settling(Resizer, "begin"))
    /\ UNCHANGED adaptiveRest

Fairness ==
    /\ WF_vars(\E s \in Everyone : Submitting(s))
    /\ WF_vars(\E w \in Slots : Working(w))
    /\ WF_vars(Stopping) /\ WF_vars(Attending \/ Resizing)

FairSpec == Spec /\ Fairness

-----------------------------------------------------------------------------
(* Properties.                                                             *)

Stage == IF ~stopped THEN "open" ELSE IF pc[Stopper] = "returned" THEN "stopped" ELSE "stopping"

Abstract == INSTANCE TaskPool WITH stage <- Stage

\* Every backend keeps the promises of taskpool.go: what was accepted before
\* Stop runs exactly once, what comes later is refused, and Stop does not
\* return before the last accepted task ended.
Implements == Abstract!Spec

\* An accepted task is run to its end, whatever wake-ups are coalesced, while
\* the population shrinks or is resized and while the pool is being stopped.
TasksRun ==
    LET waits == \E t \in Tasks : status[t] \in {"queued", "running"} IN waits ~> ~waits

\* Nobody is left waiting on a full queue: a parked submitter gets room or is
\* turned away by stop.  Stop returns too, although workers may park or linger
\* after its broadcast.
CallsReturn ==
    LET waits == \E s \in Submitters[mode] : pc[s] \in {"parked", "send"}
    IN (waits ~> ~waits) /\ (pc[Stopper] # "begin" ~> pc[Stopper] = "returned")

\* No wake-up is lost.  cond.go: signals sent outside the mutex, to waiters counted
\* inside it, leave no queued task without a worker coming for it while another
\* is parked, and no free slot without somebody awake while a submitter waits for
\* room.  adaptive.go: somebody awake owes the wake-up of every claimed worker.
NoLostWakeup ==
    /\ mode = "cond" => Cond!NoLostWakeup /\ Cond!NoLostRoom
    /\ mode = "adaptive" => Adaptive!ClaimsWake

\* The bookkeeping of every backend is exact.  cond.go: the ring holds the queued
\* tasks, from head to tail.  elastic.go: the counters follow the goroutines
\* although neither is under the mutex, and no more than maxConcurrent tasks run at
\* a time.  adaptive.go: idle and signals partition the parked workers and workers
\* counts the live and the reserved ones; a shrink never takes the pool below the
\* floor that Resize set, and below the ceiling every queued task has a worker of
\* its own, so that none waits behind a task that blocks.  (A raised ceiling is used
\* by the next submissions only: Resize starts workers for the floor.)
Counted ==
    /\ mode = "cond" => Cond!RingOK
    /\ mode = "elastic" => Elastic!Counted
    /\ mode = "adaptive" => /\ Adaptive!CrewCounted /\ Adaptive!Floor
                            /\ resizes = 0 => Adaptive!OwnWorker

\* adaptive.go: a lowered ceiling is reached, by idle and by busy workers.
CeilingReached ==
    mode = "adaptive" /\ workers > maxWorkers ~> mode # "adaptive" \/ workers <= maxWorkers
=============================================================================
