----------------------------- MODULE ElasticPool -----------------------------
(***************************************************************************)
(* taskpool/elastic.go: the fork-first pool.  A channel of tasks, workers  *)
(* that linger for a while after their last task, and a dispatcher that    *)
(* forks or runs what is left in the channel.  A send to a channel goes to *)
(* a waiting receiver if there is one, else into the buffer, else blocks.  *)
(***************************************************************************)
EXTENDS Integers, Sequences, FiniteSets

CONSTANTS
    Slots,       \* worker goroutines that may live at a time
    Submitters, Batch, Tasks,   \* each submitter's tasks, as in CondPool
    Stopper, Dispatcher,
    QueueSize,   \* capacity of the channel, possibly 0
    maxWorkers,  \* maxConcurrent - 1, possibly 0
    None

VARIABLES
    mu, stopped,
    active, idle,   \* the two atomic counters
    tasks,          \* the channel's buffer
    taskWG,
    pc, task,       \* per goroutine: control point and the task in hand
    next,           \* per submitter: how many of its tasks it got rid of
    status          \* history: what became of each task

vars == <<mu, stopped, active, idle, tasks, taskWG, pc, task, next, status>>

Procs == Slots \cup Submitters \cup {Stopper, Dispatcher}
Runners == Slots \cup {Dispatcher}

\* Goroutines have one role each, every task is submitted once.
WellFormed ==
    /\ QueueSize \in Nat /\ maxWorkers \in Nat
    /\ IsFiniteSet(Slots) /\ IsFiniteSet(Tasks) /\ None \notin Tasks
    /\ Slots \cap Submitters = {} /\ Stopper \notin Runners \cup Submitters
    /\ Dispatcher \notin Slots \cup Submitters
    /\ \A s \in Submitters : Batch[s] \in Seq(Tasks) /\ Batch[s] # <<>>
    /\ \A s, u \in Submitters : \A i \in 1..Len(Batch[s]), j \in 1..Len(Batch[u]) :
          Batch[s][i] = Batch[u][j] => s = u /\ i = j

Goto(p, label) == pc' = [pc EXCEPT ![p] = label]

\* Goroutines blocked in a receive, or in a send.
Receivers == {r \in Runners : pc[r] = "receive"}
Senders == {s \in Submitters : pc[s] = "send"}

-----------------------------------------------------------------------------
(* submit, and submitBatch that calls it for one task after another.       *)

Current(s) == Batch[s][next[s] + 1]

\* What comes after the task in hand has been got rid of.
After(s) == IF next[s] + 1 = Len(Batch[s]) THEN "returned" ELSE "enter"

\* Whether submit turns a task away.
isStopped(s) == stopped

Refuse(s) ==
    /\ pc[s] = "enter" /\ mu = None /\ isStopped(s)
    /\ status' = [t \in Tasks |-> IF \E i \in next[s] + 1..Len(Batch[s]) : Batch[s][i] = t
                                  THEN "refused" ELSE status[t]]
    /\ Goto(s, "returned")
    /\ UNCHANGED <<mu, stopped, active, idle, tasks, taskWG, task, next>>

\* The pool is open: count the task and look for a lingering worker.
Enter(s) ==
    /\ pc[s] = "enter" /\ mu = None /\ ~isStopped(s)
    /\ mu' = s /\ taskWG' = taskWG + 1
    /\ status' = [status EXCEPT ![Current(s)] = "queued"]
    /\ Goto(s, IF idle > 0 THEN "offer" ELSE "fork")
    /\ UNCHANGED <<stopped, active, idle, tasks, task, next>>

\* The send succeeds: a receiver gets the task, or the buffer does.
Put(s) ==
    /\ IF Receivers # {}
       THEN \E r \in Receivers :
                /\ pc' = [pc EXCEPT ![r] = "received", ![s] = After(s)]
                /\ task' = [task EXCEPT ![r] = Current(s)]
                /\ UNCHANGED tasks
       ELSE /\ Len(tasks) < QueueSize
            /\ tasks' = Append(tasks, Current(s))
            /\ Goto(s, After(s)) /\ UNCHANGED task
    /\ next' = [next EXCEPT ![s] = @ + 1]

Offer(s) ==
    /\ pc[s] = "offer" /\ mu' = None /\ Put(s)
    /\ UNCHANGED <<stopped, active, idle, taskWG, status>>

OfferFails(s) ==
    /\ pc[s] = "offer" /\ Receivers = {} /\ Len(tasks) = QueueSize
    /\ Goto(s, "fork")
    /\ UNCHANGED <<mu, stopped, active, idle, tasks, taskWG, task, next, status>>

\* Mutant: the dispatcher's slot is given to a worker as well.
canForkMutant == active <= maxWorkers

\* fork's compare-and-swap succeeds.
canFork == active < maxWorkers

\* A worker starts with the task t.
Forked(p, label, t) ==
    \E w \in Slots :
        /\ pc[w] = "none" /\ active' = active + 1
        /\ pc' = [pc EXCEPT ![w] = "execute", ![p] = label]
        /\ task' = [task EXCEPT ![w] = t, ![p] = None]

Fork(s) ==
    /\ pc[s] = "fork" /\ canFork
    /\ Forked(s, After(s), Current(s))
    /\ mu' = None /\ next' = [next EXCEPT ![s] = @ + 1]
    /\ UNCHANGED <<stopped, idle, tasks, taskWG, status>>

ForkFails(s) ==
    /\ pc[s] = "fork" /\ ~canFork
    /\ Goto(s, "send") /\ mu' = None
    /\ UNCHANGED <<stopped, active, idle, tasks, taskWG, task, next, status>>

Send(s) ==
    /\ pc[s] = "send" /\ Put(s)
    /\ UNCHANGED <<mu, stopped, active, idle, taskWG, status>>

Submit(s) == Refuse(s) \/ Enter(s) \/ Offer(s) \/ OfferFails(s) \/ Fork(s) \/ ForkFails(s) \/ Send(s)

-----------------------------------------------------------------------------
(* run, dispatch and execute.                                              *)

\* r takes a task from the buffer, or from a blocked sender.
Get(r, label) ==
    \/ /\ tasks # <<>>
       /\ task' = [task EXCEPT ![r] = Head(tasks)] /\ tasks' = Tail(tasks)
       /\ Goto(r, label) /\ UNCHANGED next
    \/ /\ tasks = <<>>
       /\ \E s \in Senders :
             /\ task' = [task EXCEPT ![r] = Current(s)]
             /\ pc' = [pc EXCEPT ![r] = label, ![s] = After(s)]
             /\ next' = [next EXCEPT ![s] = @ + 1]
       /\ UNCHANGED tasks

Nothing == tasks = <<>> /\ Senders = {}

Execute(r) ==
    /\ pc[r] = "execute"
    /\ Goto(r, "running") /\ status' = [status EXCEPT ![task[r]] = "running"]
    /\ UNCHANGED <<mu, stopped, active, idle, tasks, taskWG, task, next>>

\* Mutant: a worker forgets to tell the WaitGroup.
taskDoneMutant(r) == IF r = Dispatcher THEN taskWG - 1 ELSE taskWG

\* execute's deferred Done.
taskDone(r) == taskWG - 1

Done(r) ==
    /\ pc[r] = "running"
    /\ Goto(r, IF r = Dispatcher THEN "select" ELSE "poll")
    /\ status' = [status EXCEPT ![task[r]] = "done"]
    /\ task' = [task EXCEPT ![r] = None] /\ taskWG' = taskDone(r)
    /\ UNCHANGED <<mu, stopped, active, idle, tasks, next>>

Poll(w) ==
    /\ pc[w] = "poll"
    /\ Get(w, "execute") \/ (Nothing /\ Goto(w, "linger") /\ UNCHANGED <<task, tasks, next>>)
    /\ UNCHANGED <<mu, stopped, active, idle, taskWG, status>>

Linger(w) ==
    /\ pc[w] = "linger" /\ Goto(w, "select") /\ idle' = idle + 1
    /\ UNCHANGED <<mu, stopped, active, tasks, taskWG, task, next, status>>

\* The select of a lingering worker or of the dispatcher: a task, or wait.
Select(r) ==
    /\ pc[r] = "select"
    /\ Get(r, "received") \/ (Nothing /\ Goto(r, "receive") /\ UNCHANGED <<task, tasks, next>>)
    /\ UNCHANGED <<mu, stopped, active, idle, taskWG, status>>

\* A worker that lingered takes itself off the idle ones.
Received(w) ==
    /\ pc[w] = "received"
    /\ Goto(w, "execute") /\ idle' = idle - 1
    /\ UNCHANGED <<mu, stopped, active, tasks, taskWG, task, next, status>>

\* The timer fires first, or the select picks it over a task.
Expire(w) ==
    /\ pc[w] \in {"select", "receive"} /\ Goto(w, "expired")
    /\ UNCHANGED <<mu, stopped, active, idle, tasks, taskWG, task, next, status>>

Unlinger(w) ==
    /\ pc[w] = "expired" /\ Goto(w, "leave") /\ idle' = idle - 1
    /\ UNCHANGED <<mu, stopped, active, tasks, taskWG, task, next, status>>

Leave(w) ==
    /\ pc[w] = "leave" /\ Goto(w, "none") /\ active' = active - 1
    /\ UNCHANGED <<mu, stopped, idle, tasks, taskWG, task, next, status>>

Work(w) ==
    \/ Execute(w) \/ Done(w) \/ Poll(w) \/ Linger(w) \/ Select(w) \/ Received(w)
    \/ Expire(w) \/ Unlinger(w) \/ Leave(w)

\* The dispatcher forks for the task it received, or runs it itself.
DispatchFork ==
    /\ pc[Dispatcher] = "received" /\ canFork
    /\ Forked(Dispatcher, "select", task[Dispatcher])
    /\ UNCHANGED <<mu, stopped, idle, tasks, taskWG, next, status>>

DispatchRun ==
    /\ pc[Dispatcher] = "received" /\ ~canFork /\ Goto(Dispatcher, "execute")
    /\ UNCHANGED <<mu, stopped, active, idle, tasks, taskWG, task, next, status>>

\* The dispatcher channel is closed.
DispatchReturn ==
    /\ pc[Dispatcher] \in {"select", "receive"} /\ pc[Stopper] = "workers" /\ Goto(Dispatcher, "none")
    /\ UNCHANGED <<mu, stopped, active, idle, tasks, taskWG, task, next, status>>

Dispatch ==
    \/ Select(Dispatcher) \/ DispatchFork \/ DispatchRun
    \/ Execute(Dispatcher) \/ Done(Dispatcher) \/ DispatchReturn

-----------------------------------------------------------------------------

StopBegin ==
    /\ pc[Stopper] = "begin" /\ mu = None
    /\ stopped' = TRUE /\ Goto(Stopper, "tasks")
    /\ UNCHANGED <<mu, active, idle, tasks, taskWG, task, next, status>>

StopTasks ==
    /\ pc[Stopper] = "tasks" /\ taskWG = 0 /\ Goto(Stopper, "workers")
    /\ UNCHANGED <<mu, stopped, active, idle, tasks, taskWG, task, next, status>>

StopReturn ==
    /\ pc[Stopper] = "workers" /\ \A r \in Runners : pc[r] = "none"
    /\ Goto(Stopper, "returned")
    /\ UNCHANGED <<mu, stopped, active, idle, tasks, taskWG, task, next, status>>

Over == (\A p \in Submitters \cup {Stopper} : pc[p] = "returned") /\ UNCHANGED vars

Init ==
    /\ mu = None /\ stopped = FALSE
    /\ active = 0 /\ idle = 0 /\ tasks = <<>> /\ taskWG = 0
    /\ pc = [p \in Procs |-> IF p \in Submitters THEN "enter" ELSE IF p \in Slots THEN "none"
                             ELSE IF p = Dispatcher THEN "select" ELSE "begin"]
    /\ task = [p \in Procs |-> None]
    /\ next = [s \in Submitters |-> 0]
    /\ status = [t \in Tasks |-> "new"]

Next ==
    \/ \E s \in Submitters : Submit(s)
    \/ \E w \in Slots : Work(w)
    \/ Dispatch \/ StopBegin \/ StopTasks \/ StopReturn \/ Over

-----------------------------------------------------------------------------
(* Properties.                                                             *)

Count(labels) == Cardinality({w \in Slots : pc[w] \in labels})

\* The counters follow the goroutines although neither is under the mutex, and
\* the pool never runs more than maxWorkers tasks beside the dispatcher's.
Counted ==
    /\ idle = Count({"select", "receive", "received", "expired"})
    /\ active = Cardinality(Slots) - Count({"none"})
    /\ active <= maxWorkers
    /\ taskWG = Cardinality({t \in Tasks : status[t] \in {"queued", "running"}})
=============================================================================
