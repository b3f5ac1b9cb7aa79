-------------------------- MODULE ElasticPoolFates --------------------------
(***************************************************************************)
(* The invariant of ElasticPool, its types, and where its tasks are: every *)
(* queued or running task is in one place, whichever way it moves.         *)
(***************************************************************************)
EXTENDS ElasticPool, TLAPS

Statuses == {"new", "queued", "running", "done", "refused"}
Labels == {"enter", "offer", "fork", "send", "returned", "none", "execute", "running", "poll", "linger",
           "select", "receive", "received", "expired", "leave", "begin", "tasks", "workers"}

Types ==
    /\ stopped \in BOOLEAN /\ tasks \in Seq(Tasks)
    /\ pc \in [Procs -> Labels] /\ task \in [Procs -> Tasks \cup {None}]
    /\ next \in [Submitters -> Nat] /\ status \in [Tasks -> Statuses]
    /\ active \in Int /\ idle \in Int /\ taskWG \in Int

\* Who has a task in hand, who runs one, and who is getting rid of one.
Hold == {r \in Runners : pc[r] \in {"received", "execute"}}
Running == {r \in Runners : pc[r] = "running"}
Sending == {s \in Submitters : pc[s] \in {"offer", "fork", "send"}}
Entering == {s \in Submitters : pc[s] = "enter"}

\* The first task of s that nobody knows of yet.
Fresh(s) == IF s \in Sending THEN next[s] + 2 ELSE next[s] + 1

\* A queued task is in the channel, in the hands of one goroutine, or with its submitter.
FateInv ==
    /\ \A r \in Hold : task[r] \in Tasks /\ status[task[r]] = "queued"
    /\ \A r \in Running : task[r] \in Tasks /\ status[task[r]] = "running"
    /\ \A q, r \in Hold \cup Running : task[q] = task[r] => q = r
    /\ \A i \in 1..Len(tasks) : status[tasks[i]] = "queued" /\ \A r \in Hold : task[r] # tasks[i]
    /\ \A i, j \in 1..Len(tasks) : tasks[i] = tasks[j] => i = j
    /\ \A s \in Sending \cup Entering : next[s] < Len(Batch[s])
    /\ \A s \in Sending : /\ status[Current(s)] = "queued"
                          /\ \A r \in Hold : task[r] # Current(s)
                          /\ \A i \in 1..Len(tasks) : tasks[i] # Current(s)
    /\ \A s \in Sending \cup Entering : \A i \in Fresh(s)..Len(Batch[s]) : status[Batch[s][i]] = "new"

Live == {t \in Tasks : status[t] \in {"queued", "running"}}

\* taskWG counts what was accepted and has not ended, and nothing is left once stop
\* has seen it at zero.
EndInv ==
    /\ stopped <=> pc[Stopper] # "begin"
    /\ taskWG = Cardinality(Live)
    /\ pc[Stopper] \in {"begin", "tasks", "workers", "returned"}
    /\ pc[Stopper] \in {"workers", "returned"} => Live = {}

Inv == Types /\ FateInv /\ EndInv

Stage == IF ~stopped THEN "open" ELSE IF pc[Stopper] = "returned" THEN "stopped" ELSE "stopping"

Promise == INSTANCE TaskPool WITH stage <- Stage

-----------------------------------------------------------------------------

\* The roles of goroutines.
LEMMA Roles ==
    ASSUME WellFormed
    PROVE /\ Runners \subseteq Procs /\ Submitters \subseteq Procs /\ Stopper \in Procs /\ Dispatcher \in Runners
          /\ Slots \subseteq Runners
          /\ \A r \in Runners : r # Stopper /\ r \notin Submitters
          /\ \A s \in Submitters : s # Stopper /\ s \notin Runners
          /\ Dispatcher \notin Slots
BY DEF WellFormed, Procs, Runners

\* The task in hand of a submitter is one of its tasks.
LEMMA CurrentTask ==
    ASSUME WellFormed, Types, FateInv, NEW s \in Sending \cup Entering
    PROVE /\ s \in Submitters /\ next[s] \in Nat /\ Len(Batch[s]) \in Nat /\ next[s] + 1 \in 1..Len(Batch[s])
          /\ Current(s) = Batch[s][next[s] + 1] /\ Current(s) \in Tasks
<1>1. s \in Submitters /\ next[s] \in Nat /\ Len(Batch[s]) \in Nat /\ next[s] < Len(Batch[s])
  BY DEF WellFormed, Types, FateInv, Sending, Entering
<1>2. next[s] + 1 \in 1..Len(Batch[s])
  BY <1>1
<1>3. QED
  BY <1>1, <1>2 DEF Current, WellFormed

-----------------------------------------------------------------------------
(* Where the tasks are.  One lemma for each way a task can move.           *)

\* Nobody's task moves.
LEMMA QuietFates ==
    ASSUME FateInv, Hold' = Hold, Running' = Running, Sending' = Sending, Entering' = Entering,
           \A r \in Hold \cup Running : task'[r] = task[r], UNCHANGED <<status, tasks, next>>
    PROVE FateInv'
BY DEF FateInv, Fresh, Current

\* A submitter has got rid of its task: what is left of its batch is new.
LEMMA SentRest ==
    ASSUME WellFormed, Types, FateInv, NEW s \in Sending, Sending' = Sending \ {s},
           Entering' = IF next[s] + 1 = Len(Batch[s]) THEN Entering ELSE Entering \cup {s},
           next' = [next EXCEPT ![s] = @ + 1], status' = status
    PROVE /\ \A u \in Sending' \cup Entering' : next'[u] < Len(Batch[u])
          /\ \A u \in Sending' \cup Entering' : \A i \in Fresh(u)'..Len(Batch[u]) : status'[Batch[u][i]] = "new"
          /\ \A u \in Sending' : u # s /\ u \in Sending /\ Current(u)' = Current(u) /\ Current(u) # Current(s)
<1>1. s \in Submitters /\ next[s] \in Nat /\ Len(Batch[s]) \in Nat /\ next[s] + 1 \in 1..Len(Batch[s]) /\ s \notin Entering
  BY CurrentTask DEF Sending, Entering
<1>2. next'[s] = next[s] + 1 /\ \A u \in Submitters : u # s => next'[u] = next[u]
  BY <1>1 DEF Types
<1>3. \A u \in Sending \cup Entering : u \in Submitters
  BY DEF Sending, Entering
<1>4. ASSUME NEW u \in Sending' \cup Entering', u # s
      PROVE u \in Sending \cup Entering /\ next'[u] = next[u] /\ Fresh(u)' = Fresh(u)
  BY <1>2, <1>3, <1>4 DEF Fresh
<1>5. s \in Entering' => next[s] + 1 < Len(Batch[s]) /\ Fresh(s)' = Fresh(s) /\ s \notin Sending'
  BY <1>1, <1>2 DEF Fresh
<1>6. ASSUME NEW u \in Sending' \cup Entering'
      PROVE next'[u] < Len(Batch[u]) /\ \A i \in Fresh(u)'..Len(Batch[u]) : status'[Batch[u][i]] = "new"
  <2>1. CASE u = s
    BY <1>2, <1>5, <2>1 DEF FateInv
  <2>2. CASE u # s
    BY <1>4, <2>2 DEF FateInv
  <2>3. QED
    BY <2>1, <2>2
<1>7. ASSUME NEW u \in Sending' PROVE u # s /\ u \in Sending /\ Current(u)' = Current(u) /\ Current(u) # Current(s)
  <2>1. u # s /\ u \in Sending /\ u \in Submitters /\ next'[u] = next[u]
    BY <1>2, <1>3
  <2>2. Current(u)' = Current(u)
    BY <2>1 DEF Current
  <2>3. Current(u) # Current(s)
    <3>1. next[u] + 1 \in 1..Len(Batch[u]) /\ Current(u) = Batch[u][next[u] + 1]
      BY <2>1, CurrentTask
    <3>2. Current(s) = Batch[s][next[s] + 1]
      BY DEF Current
    <3>3. QED
      BY <1>1, <2>1, <3>1, <3>2 DEF WellFormed
  <2>4. QED
    BY <2>1, <2>2, <2>3
<1>8. QED
  BY <1>6, <1>7

\* From a submitter into the hands of r.
LEMMA SentFates ==
    ASSUME WellFormed, Types, FateInv, NEW s \in Sending, NEW r \in Runners, r \notin Hold \cup Running,
           Sending' = Sending \ {s}, Hold' = Hold \cup {r}, Running' = Running,
           Entering' = IF next[s] + 1 = Len(Batch[s]) THEN Entering ELSE Entering \cup {s},
           next' = [next EXCEPT ![s] = @ + 1], task'[r] = Current(s),
           \A q \in Hold \cup Running : task'[q] = task[q], UNCHANGED <<status, tasks>>
    PROVE FateInv'
<1> DEFINE t == Current(s)
<1>1. t \in Tasks /\ status[t] = "queued" /\ (\A q \in Hold : task[q] # t) /\ \A i \in 1..Len(tasks) : tasks[i] # t
  BY CurrentTask DEF FateInv
<1>2. \A q \in Running : task[q] # t
  BY <1>1 DEF FateInv
<1> HIDE DEF t
<1>3. task'[r] = t
  BY DEF t
<1>4. /\ \A q \in Hold' : task'[q] \in Tasks /\ status'[task'[q]] = "queued"
      /\ \A q \in Running' : task'[q] \in Tasks /\ status'[task'[q]] = "running"
  BY <1>1, <1>3 DEF FateInv
<1>5. \A p, q \in Hold' \cup Running' : task'[p] = task'[q] => p = q
  BY <1>1, <1>2, <1>3 DEF FateInv
<1>6. /\ \A i \in 1..Len(tasks') : status'[tasks'[i]] = "queued" /\ \A q \in Hold' : task'[q] # tasks'[i]
      /\ \A i, j \in 1..Len(tasks') : tasks'[i] = tasks'[j] => i = j
  BY <1>1, <1>3 DEF FateInv
<1>7. ASSUME NEW u \in Sending'
      PROVE /\ status'[Current(u)'] = "queued"
            /\ \A q \in Hold' : task'[q] # Current(u)'
            /\ \A i \in 1..Len(tasks') : tasks'[i] # Current(u)'
  <2>1. u \in Sending /\ Current(u)' = Current(u) /\ Current(u) # t
    BY SentRest, Zenon DEF t
  <2>2. QED
    BY <1>3, <2>1 DEF FateInv
<1>8. QED
  BY <1>4, <1>5, <1>6, <1>7, SentRest, ZenonT(30) DEF FateInv

\* From a submitter into the channel's buffer.
LEMMA BufferedFates ==
    ASSUME WellFormed, Types, FateInv, NEW s \in Sending,
           Sending' = Sending \ {s}, Hold' = Hold, Running' = Running,
           Entering' = IF next[s] + 1 = Len(Batch[s]) THEN Entering ELSE Entering \cup {s},
           next' = [next EXCEPT ![s] = @ + 1], tasks' = Append(tasks, Current(s)), UNCHANGED <<status, task>>
    PROVE FateInv'
<1> DEFINE t == Current(s)
<1>1. t \in Tasks /\ status[t] = "queued" /\ (\A q \in Hold : task[q] # t) /\ \A i \in 1..Len(tasks) : tasks[i] # t
  BY CurrentTask DEF FateInv
<1> HIDE DEF t
<1>2. /\ Len(tasks) \in Nat /\ Len(tasks') = Len(tasks) + 1 /\ tasks'[Len(tasks) + 1] = t
      /\ \A i \in 1..Len(tasks) : tasks'[i] = tasks[i]
  BY <1>1 DEF Types, t
<1>3. \A i \in 1..Len(tasks') : i = Len(tasks) + 1 \/ i \in 1..Len(tasks)
  BY <1>2
<1>4. /\ \A q \in Hold' : task'[q] \in Tasks /\ status'[task'[q]] = "queued"
      /\ \A q \in Running' : task'[q] \in Tasks /\ status'[task'[q]] = "running"
      /\ \A p, q \in Hold' \cup Running' : task'[p] = task'[q] => p = q
  BY DEF FateInv
<1>5. \A i \in 1..Len(tasks') : status'[tasks'[i]] = "queued" /\ \A q \in Hold' : task'[q] # tasks'[i]
  BY <1>1, <1>2, <1>3 DEF FateInv
<1>6. \A i, j \in 1..Len(tasks') : tasks'[i] = tasks'[j] => i = j
  BY <1>1, <1>2, <1>3 DEF FateInv
<1>7. ASSUME NEW u \in Sending'
      PROVE /\ status'[Current(u)'] = "queued"
            /\ \A q \in Hold' : task'[q] # Current(u)'
            /\ \A i \in 1..Len(tasks') : tasks'[i] # Current(u)'
  <2>1. u \in Sending /\ Current(u)' = Current(u) /\ Current(u) # t
    BY SentRest, Zenon DEF t
  <2>2. QED
    BY <1>2, <1>3, <2>1 DEF FateInv
<1>8. QED
  BY <1>4, <1>5, <1>6, <1>7, SentRest, Zenon DEF FateInv

\* From the buffer into the hands of r.
LEMMA TakenFates ==
    ASSUME WellFormed, Types, FateInv, NEW r \in Runners, r \notin Hold \cup Running, tasks # <<>>,
           Hold' = Hold \cup {r}, Running' = Running, Sending' = Sending, Entering' = Entering,
           task'[r] = Head(tasks), tasks' = Tail(tasks),
           \A q \in Hold \cup Running : task'[q] = task[q], UNCHANGED <<status, next>>
    PROVE FateInv'
<1> DEFINE t == Head(tasks)
<1>1. /\ Len(tasks) \in Nat /\ 1 \in 1..Len(tasks) /\ t = tasks[1] /\ t \in Tasks /\ status[t] = "queued"
      /\ Len(tasks') = Len(tasks) - 1 /\ \A i \in 1..Len(tasks') : i + 1 \in 1..Len(tasks) /\ tasks'[i] = tasks[i + 1]
  BY DEF Types, FateInv
<1>2. \A q \in Hold \cup Running : task[q] # t
  BY <1>1 DEF FateInv
<1>3. \A i \in 1..Len(tasks') : tasks'[i] # t
  BY <1>1 DEF FateInv
<1> HIDE DEF t
<1>4. task'[r] = t
  BY DEF t
<1>5. /\ \A q \in Hold' : task'[q] \in Tasks /\ status'[task'[q]] = "queued"
      /\ \A q \in Running' : task'[q] \in Tasks /\ status'[task'[q]] = "running"
  BY <1>1, <1>4 DEF FateInv
<1>6. \A p, q \in Hold' \cup Running' : task'[p] = task'[q] => p = q
  BY <1>2, <1>4 DEF FateInv
<1>7. /\ \A i \in 1..Len(tasks') : status'[tasks'[i]] = "queued" /\ \A q \in Hold' : task'[q] # tasks'[i]
      /\ \A i, j \in 1..Len(tasks') : tasks'[i] = tasks'[j] => i = j
  BY <1>1, <1>3, <1>4 DEF FateInv
<1>8. ASSUME NEW u \in Sending'
      PROVE /\ status'[Current(u)'] = "queued"
            /\ \A q \in Hold' : task'[q] # Current(u)'
            /\ \A i \in 1..Len(tasks') : tasks'[i] # Current(u)'
  <2>1. u \in Sending /\ Current(u)' = Current(u) /\ Current(u) # t
    BY <1>1 DEF Current, FateInv
  <2>2. QED
    BY <1>1, <1>4, <2>1 DEF FateInv
<1>9. QED
  BY <1>5, <1>6, <1>7, <1>8 DEF FateInv, Fresh

\* From the dispatcher into the hands of the worker it forked.
LEMMA MovedFates ==
    ASSUME FateInv, NEW d \in Hold, NEW r \in Runners, r \notin Hold \cup Running,
           Hold' = (Hold \ {d}) \cup {r}, Running' = Running, Sending' = Sending, Entering' = Entering,
           task'[r] = task[d], \A q \in (Hold \ {d}) \cup Running : task'[q] = task[q],
           UNCHANGED <<status, tasks, next>>
    PROVE FateInv'
<1>1. /\ \A q \in Hold' : task'[q] \in Tasks /\ status'[task'[q]] = "queued"
      /\ \A q \in Running' : task'[q] \in Tasks /\ status'[task'[q]] = "running"
  BY DEF FateInv
<1>2. \A p \in Hold' \cup Running' : \E q \in Hold \cup Running :
         task'[p] = task[q] /\ q # r /\ (p = r => q = d) /\ (p # r => q = p /\ q # d)
  <2>1. d \notin Running
    BY DEF Hold, Running
  <2>2. QED
    BY <2>1
<1>3. \A p, q \in Hold' \cup Running' : task'[p] = task'[q] => p = q
  BY <1>2 DEF FateInv
<1>4. /\ \A i \in 1..Len(tasks') : status'[tasks'[i]] = "queued" /\ \A q \in Hold' : task'[q] # tasks'[i]
      /\ \A i, j \in 1..Len(tasks') : tasks'[i] = tasks'[j] => i = j
  BY DEF FateInv
<1>5. \A u \in Sending' :
        /\ status'[Current(u)'] = "queued"
        /\ \A q \in Hold' : task'[q] # Current(u)'
        /\ \A i \in 1..Len(tasks') : tasks'[i] # Current(u)'
  BY DEF Current, FateInv
<1>6. QED
  BY <1>1, <1>3, <1>4, <1>5 DEF FateInv, Fresh

\* A task is accepted: it is its submitter's until it is got rid of.
LEMMA EnterFates ==
    ASSUME WellFormed, Types, FateInv, NEW s \in Entering,
           Hold' = Hold, Running' = Running, Sending' = Sending \cup {s}, Entering' = Entering \ {s},
           status' = [status EXCEPT ![Current(s)] = "queued"], UNCHANGED <<task, tasks, next>>
    PROVE FateInv' /\ Current(s) \in Tasks /\ status[Current(s)] = "new"
<1> DEFINE t == Current(s)
<1>1. /\ s \in Submitters /\ next[s] \in Nat /\ Len(Batch[s]) \in Nat /\ next[s] + 1 \in 1..Len(Batch[s])
      /\ t = Batch[s][next[s] + 1] /\ t \in Tasks /\ s \notin Sending
  BY CurrentTask DEF Sending, Entering
<1>2. status[t] = "new"
  BY <1>1 DEF FateInv, Fresh
<1>3. t' = t
  BY DEF Current
<1> HIDE DEF t
<1>4. status'[t] = "queued" /\ \A x \in Tasks : x # t => status'[x] = status[x]
  BY <1>1 DEF Types, t
<1>5. /\ \A q \in Hold' : task'[q] \in Tasks /\ status'[task'[q]] = "queued"
      /\ \A q \in Running' : task'[q] \in Tasks /\ status'[task'[q]] = "running"
      /\ \A p, q \in Hold' \cup Running' : task'[p] = task'[q] => p = q
  BY <1>2, <1>4 DEF FateInv
<1>6. /\ \A i \in 1..Len(tasks') : status'[tasks'[i]] = "queued" /\ \A q \in Hold' : task'[q] # tasks'[i]
      /\ \A i, j \in 1..Len(tasks') : tasks'[i] = tasks'[j] => i = j
  <2>1. \A i \in 1..Len(tasks) : tasks[i] \in Tasks
    BY DEF Types
  <2>2. QED
    BY <1>2, <1>4, <2>1 DEF FateInv
<1>7. ASSUME NEW u \in Sending'
      PROVE /\ status'[Current(u)'] = "queued"
            /\ \A q \in Hold' : task'[q] # Current(u)'
            /\ \A i \in 1..Len(tasks') : tasks'[i] # Current(u)'
  <2>1. CASE u = s
    BY <1>2, <1>3, <1>4, <2>1 DEF FateInv, t
  <2>2. CASE u # s
    <3>1. u \in Sending /\ Current(u)' = Current(u) /\ Current(u) \in Tasks
      BY <2>2, CurrentTask DEF Current
    <3>2. QED
      BY <1>2, <1>4, <3>1 DEF FateInv
  <2>3. QED
    BY <2>1, <2>2
<1>8. ASSUME NEW u \in Sending' \cup Entering', NEW i \in Fresh(u)'..Len(Batch[u]) PROVE status'[Batch[u][i]] = "new"
  <2>1. u \in Sending \cup Entering /\ u \in Submitters /\ next[u] \in Nat /\ Len(Batch[u]) \in Nat
    BY <1>1, CurrentTask
  <2>2. i \in Fresh(u)..Len(Batch[u]) /\ (u = s => i # next[s] + 1) /\ i \in 1..Len(Batch[u])
    BY <1>1, <2>1 DEF Fresh
  <2>3. status[Batch[u][i]] = "new" /\ Batch[u][i] \in Tasks
    BY <2>1, <2>2 DEF FateInv, WellFormed
  <2>4. Batch[u][i] # t
    BY <1>1, <2>1, <2>2 DEF WellFormed
  <2>5. QED
    BY <1>4, <2>3, <2>4
<1>9. \A u \in Sending' \cup Entering' : next'[u] < Len(Batch[u])
  BY DEF FateInv
<1>10. FateInv'
  BY <1>5, <1>6, <1>7, <1>8, <1>9 DEF FateInv
<1>11. QED
  BY <1>1, <1>2, <1>10 DEF t

\* The rest of a batch is refused, all of it new.
LEMMA RefuseFates ==
    ASSUME WellFormed, Types, FateInv, NEW s \in Entering,
           Hold' = Hold, Running' = Running, Sending' = Sending, Entering' = Entering \ {s},
           NEW S \in SUBSET Tasks, S = {t \in Tasks : \E i \in next[s] + 1..Len(Batch[s]) : Batch[s][i] = t},
           status' = [t \in Tasks |-> IF t \in S THEN "refused" ELSE status[t]], UNCHANGED <<task, tasks, next>>
    PROVE FateInv' /\ \A t \in S : status[t] = "new"
<1>1. s \in Submitters /\ next[s] \in Nat /\ Len(Batch[s]) \in Nat /\ s \notin Sending
  BY CurrentTask DEF Sending, Entering
<1>2. \A t \in S : status[t] = "new"
  BY <1>1 DEF FateInv, Fresh
<1>3. \A x \in Tasks : status[x] # "new" => status'[x] = status[x]
  BY <1>2
<1>4. \A i \in 1..Len(tasks) : tasks[i] \in Tasks
  BY DEF Types
<1>5. /\ \A q \in Hold' : task'[q] \in Tasks /\ status'[task'[q]] = "queued"
      /\ \A q \in Running' : task'[q] \in Tasks /\ status'[task'[q]] = "running"
      /\ \A p, q \in Hold' \cup Running' : task'[p] = task'[q] => p = q
      /\ \A i \in 1..Len(tasks') : status'[tasks'[i]] = "queued" /\ \A q \in Hold' : task'[q] # tasks'[i]
      /\ \A i, j \in 1..Len(tasks') : tasks'[i] = tasks'[j] => i = j
  BY <1>3, <1>4 DEF FateInv
<1>6. ASSUME NEW u \in Sending'
      PROVE /\ status'[Current(u)'] = "queued"
            /\ \A q \in Hold' : task'[q] # Current(u)'
            /\ \A i \in 1..Len(tasks') : tasks'[i] # Current(u)'
  <2>1. u \in Sending /\ Current(u)' = Current(u) /\ Current(u) \in Tasks
    BY CurrentTask DEF Current
  <2>2. QED
    BY <1>3, <2>1 DEF FateInv
<1>7. ASSUME NEW u \in Sending' \cup Entering', NEW i \in Fresh(u)'..Len(Batch[u]) PROVE status'[Batch[u][i]] = "new"
  <2>1. u \in Sending \cup Entering /\ u \in Submitters /\ u # s /\ next[u] \in Nat /\ Len(Batch[u]) \in Nat
    BY <1>1, CurrentTask
  <2>2. i \in Fresh(u)..Len(Batch[u]) /\ i \in 1..Len(Batch[u])
    BY <2>1 DEF Fresh
  <2>3. status[Batch[u][i]] = "new" /\ Batch[u][i] \in Tasks
    BY <2>1, <2>2 DEF FateInv, WellFormed
  <2>4. \A j \in next[s] + 1..Len(Batch[s]) : Batch[s][j] # Batch[u][i]
    BY <1>1, <2>1, <2>2 DEF WellFormed
  <2>5. QED
    BY <2>3, <2>4
<1>8. \A u \in Sending' \cup Entering' : next'[u] < Len(Batch[u])
  BY DEF FateInv
<1>9. QED
  BY <1>2, <1>5, <1>6, <1>7, <1>8, Zenon DEF FateInv

\* What is left of a batch stays new if new tasks do.
LEMMA NewKept ==
    ASSUME WellFormed, Types, FateInv, Sending' = Sending, Entering' = Entering, next' = next,
           \A x \in Tasks : status[x] = "new" => status'[x] = "new"
    PROVE \A u \in Sending' \cup Entering' :
            next'[u] < Len(Batch[u]) /\ \A i \in Fresh(u)'..Len(Batch[u]) : status'[Batch[u][i]] = "new"
<1> SUFFICES ASSUME NEW u \in Sending \cup Entering, NEW i \in Fresh(u)..Len(Batch[u]) PROVE status'[Batch[u][i]] = "new"
  BY DEF FateInv, Fresh
<1>1. u \in Submitters /\ next[u] \in Nat /\ Len(Batch[u]) \in Nat /\ i \in 1..Len(Batch[u])
  BY CurrentTask DEF Fresh
<1>2. Batch[u][i] \in Tasks /\ status[Batch[u][i]] = "new"
  BY <1>1 DEF FateInv, WellFormed
<1>3. QED
  BY <1>2

\* r starts the task in its hands.
LEMMA ExecuteFates ==
    ASSUME WellFormed, Types, FateInv, NEW r \in Hold,
           Hold' = Hold \ {r}, Running' = Running \cup {r}, Sending' = Sending, Entering' = Entering,
           status' = [status EXCEPT ![task[r]] = "running"], UNCHANGED <<task, tasks, next>>
    PROVE FateInv' /\ task[r] \in Tasks /\ status[task[r]] = "queued"
<1> DEFINE t == task[r]
<1>1. t \in Tasks /\ status[t] = "queued" /\ (\A i \in 1..Len(tasks) : tasks[i] # t) /\ \A s \in Sending : Current(s) # t
  BY DEF FateInv
<1>2. \A q \in Hold \cup Running : q # r => task[q] # t
  BY DEF FateInv
<1>3. status'[t] = "running" /\ \A x \in Tasks : x # t => status'[x] = status[x]
  BY <1>1 DEF Types
<1> HIDE DEF t
<1>4. /\ \A q \in Hold' : task'[q] \in Tasks /\ status'[task'[q]] = "queued"
      /\ \A q \in Running' : task'[q] \in Tasks /\ status'[task'[q]] = "running"
      /\ \A p, q \in Hold' \cup Running' : task'[p] = task'[q] => p = q
  BY <1>1, <1>2, <1>3 DEF FateInv, t
<1>5. /\ \A i \in 1..Len(tasks') : status'[tasks'[i]] = "queued" /\ \A q \in Hold' : task'[q] # tasks'[i]
      /\ \A i, j \in 1..Len(tasks') : tasks'[i] = tasks'[j] => i = j
  BY <1>1, <1>3 DEF FateInv, Types
<1>6. \A u \in Sending' : /\ status'[Current(u)'] = "queued"
                          /\ \A q \in Hold' : task'[q] # Current(u)'
                          /\ \A i \in 1..Len(tasks') : tasks'[i] # Current(u)'
  BY <1>1, <1>3, CurrentTask DEF FateInv, Current
<1>7. \A u \in Sending' \cup Entering' :
        next'[u] < Len(Batch[u]) /\ \A i \in Fresh(u)'..Len(Batch[u]) : status'[Batch[u][i]] = "new"
  <2>1. \A x \in Tasks : status[x] = "new" => status'[x] = "new"
    BY <1>1, <1>3
  <2>2. QED
    BY <2>1, NewKept
<1>8. FateInv'
  BY <1>1, <1>4, <1>5, <1>6, <1>7 DEF FateInv
<1>9. QED
  BY <1>1, <1>8 DEF t

\* r is done with the task it ran.
LEMMA DoneFates ==
    ASSUME WellFormed, Types, FateInv, NEW r \in Running,
           Hold' = Hold, Running' = Running \ {r}, Sending' = Sending, Entering' = Entering,
           status' = [status EXCEPT ![task[r]] = "done"], \A q \in Hold \cup (Running \ {r}) : task'[q] = task[q],
           UNCHANGED <<tasks, next>>
    PROVE FateInv' /\ task[r] \in Tasks /\ status[task[r]] = "running"
<1> DEFINE t == task[r]
<1>1. t \in Tasks /\ status[t] = "running"
  BY DEF FateInv
<1>2. \A q \in Hold \cup Running : q # r => task[q] # t
  BY DEF FateInv
<1>3. status'[t] = "done" /\ \A x \in Tasks : x # t => status'[x] = status[x]
  BY <1>1 DEF Types
<1>4. r \notin Hold
  BY DEF Hold, Running
<1> HIDE DEF t
<1>5. /\ \A q \in Hold' : task'[q] \in Tasks /\ status'[task'[q]] = "queued"
      /\ \A q \in Running' : task'[q] \in Tasks /\ status'[task'[q]] = "running"
      /\ \A p, q \in Hold' \cup Running' : task'[p] = task'[q] => p = q
  BY <1>1, <1>2, <1>3, <1>4 DEF FateInv
<1>6. /\ \A i \in 1..Len(tasks') : status'[tasks'[i]] = "queued" /\ \A q \in Hold' : task'[q] # tasks'[i]
      /\ \A i, j \in 1..Len(tasks') : tasks'[i] = tasks'[j] => i = j
  BY <1>1, <1>3 DEF FateInv, Types
<1>7. \A u \in Sending' : /\ status'[Current(u)'] = "queued"
                          /\ \A q \in Hold' : task'[q] # Current(u)'
                          /\ \A i \in 1..Len(tasks') : tasks'[i] # Current(u)'
  BY <1>1, <1>3, CurrentTask DEF FateInv, Current
<1>8. \A u \in Sending' \cup Entering' :
        next'[u] < Len(Batch[u]) /\ \A i \in Fresh(u)'..Len(Batch[u]) : status'[Batch[u][i]] = "new"
  <2>1. \A x \in Tasks : status[x] = "new" => status'[x] = "new"
    BY <1>1, <1>3
  <2>2. QED
    BY <2>1, NewKept
<1>9. FateInv'
  BY <1>1, <1>5, <1>6, <1>7, <1>8 DEF FateInv
<1>10. QED
  BY <1>1, <1>9 DEF t

-----------------------------------------------------------------------------
(* The steps that move a task.                                             *)

\* A send that succeeds moves the task in hand.
LEMMA PutStep ==
    ASSUME WellFormed, Types, FateInv, NEW s \in Sending, Put(s), status' = status
    PROVE FateInv' /\ pc'[Stopper] = pc[Stopper]
<1> USE Roles
<1>1. s \in Submitters /\ After(s) \in {"returned", "enter"} /\ After(s) = (IF next[s] + 1 = Len(Batch[s]) THEN "returned" ELSE "enter")
  BY DEF After, Sending
<1>2. next' = [next EXCEPT ![s] = @ + 1]
  BY DEF Put
<1>3. ASSUME NEW r \in Receivers, pc' = [pc EXCEPT ![r] = "received", ![s] = After(s)],
             task' = [task EXCEPT ![r] = Current(s)], UNCHANGED tasks
      PROVE FateInv' /\ pc'[Stopper] = pc[Stopper]
  <2>1. r \in Runners /\ r \notin Hold \cup Running /\ r # s
    BY <1>1 DEF Receivers, Hold, Running
  <2>2. pc'[r] = "received" /\ pc'[s] = After(s) /\ \A p \in Procs : p # r /\ p # s => pc'[p] = pc[p]
    BY <1>1, <1>3, <2>1 DEF Types
  <2>3. Hold' = Hold \cup {r} /\ Running' = Running
    BY <1>1, <2>1, <2>2 DEF Hold, Running
  <2>4. Sending' = Sending \ {s} /\ Entering' = IF next[s] + 1 = Len(Batch[s]) THEN Entering ELSE Entering \cup {s}
    BY <1>1, <2>1, <2>2 DEF Sending, Entering
  <2>5. task'[r] = Current(s) /\ \A q \in Hold \cup Running : task'[q] = task[q]
    BY <1>3, <2>1 DEF Types, Hold, Running
  <2>6. QED
    BY <1>1, <1>2, <1>3, <2>1, <2>2, <2>3, <2>4, <2>5, SentFates, Zenon
<1>4. ASSUME tasks' = Append(tasks, Current(s)), Goto(s, After(s)), UNCHANGED task
      PROVE FateInv' /\ pc'[Stopper] = pc[Stopper]
  <2>1. pc'[s] = After(s) /\ \A p \in Procs : p # s => pc'[p] = pc[p]
    BY <1>1, <1>4 DEF Types, Goto
  <2>2. Hold' = Hold /\ Running' = Running
    BY <1>1, <2>1 DEF Hold, Running
  <2>3. Sending' = Sending \ {s} /\ Entering' = IF next[s] + 1 = Len(Batch[s]) THEN Entering ELSE Entering \cup {s}
    BY <1>1, <2>1 DEF Sending, Entering
  <2>4. QED
    BY <1>1, <1>2, <1>4, <2>1, <2>2, <2>3, BufferedFates, Zenon
<1>5. QED
  BY <1>3, <1>4 DEF Put

\* A worker is forked with the task in hand of a submitter.
LEMMA ForkStep ==
    ASSUME WellFormed, Types, FateInv, NEW s \in Submitters, Fork(s)
    PROVE FateInv' /\ pc'[Stopper] = pc[Stopper]
<1> USE Roles
<1>1. PICK w \in Slots : /\ pc[w] = "none" /\ pc' = [pc EXCEPT ![w] = "execute", ![s] = After(s)]
                         /\ task' = [task EXCEPT ![w] = Current(s), ![s] = None]
  BY Zenon DEF Fork, Forked
<1>2. /\ s \in Sending /\ w \in Runners /\ w \notin Hold \cup Running /\ w # s
      /\ After(s) = (IF next[s] + 1 = Len(Batch[s]) THEN "returned" ELSE "enter")
  BY <1>1 DEF Fork, Sending, Hold, Running, After
<1>3. pc'[w] = "execute" /\ pc'[s] = After(s) /\ \A p \in Procs : p # w /\ p # s => pc'[p] = pc[p]
  BY <1>1, <1>2 DEF Types
<1>4. Hold' = Hold \cup {w} /\ Running' = Running
  BY <1>2, <1>3 DEF Hold, Running
<1>5. Sending' = Sending \ {s} /\ Entering' = IF next[s] + 1 = Len(Batch[s]) THEN Entering ELSE Entering \cup {s}
  BY <1>2, <1>3 DEF Sending, Entering
<1>6. task'[w] = Current(s) /\ \A q \in Hold \cup Running : task'[q] = task[q]
  BY <1>1, <1>2 DEF Types, Hold, Running
<1>7. next' = [next EXCEPT ![s] = @ + 1] /\ UNCHANGED <<status, tasks>>
  BY DEF Fork
<1>8. QED
  BY <1>2, <1>3, <1>4, <1>5, <1>6, <1>7, SentFates, Zenon

\* A receive that succeeds takes from the buffer or from a sender.
LEMMA GetStep ==
    ASSUME WellFormed, Types, FateInv, NEW r \in Runners, pc[r] \in {"poll", "select"},
           NEW label \in {"received", "execute"}, Get(r, label), status' = status
    PROVE FateInv' /\ pc'[Stopper] = pc[Stopper]
<1> USE Roles
<1>1. r \in Procs /\ r \notin Hold \cup Running
  BY DEF Hold, Running
<1>2. CASE tasks # <<>>
  <2>1. task' = [task EXCEPT ![r] = Head(tasks)] /\ tasks' = Tail(tasks) /\ Goto(r, label) /\ UNCHANGED next
    BY <1>2 DEF Get
  <2>2. pc'[r] = label /\ \A p \in Procs : p # r => pc'[p] = pc[p]
    BY <1>1, <2>1 DEF Types, Goto
  <2>3. Hold' = Hold \cup {r} /\ Running' = Running /\ Sending' = Sending /\ Entering' = Entering
    BY <1>1, <2>2 DEF Hold, Running, Sending, Entering
  <2>4. task'[r] = Head(tasks) /\ \A q \in Hold \cup Running : task'[q] = task[q]
    BY <1>1, <2>1 DEF Types, Hold, Running
  <2>5. QED
    BY <1>1, <1>2, <2>1, <2>2, <2>3, <2>4, TakenFates
<1>3. CASE tasks = <<>>
  <2>1. PICK s \in Senders : /\ task' = [task EXCEPT ![r] = Current(s)] /\ UNCHANGED tasks
                             /\ pc' = [pc EXCEPT ![r] = label, ![s] = After(s)]
                             /\ next' = [next EXCEPT ![s] = @ + 1]
    BY <1>3 DEF Get
  <2>2. s \in Sending /\ s \in Submitters /\ s # r /\ After(s) = (IF next[s] + 1 = Len(Batch[s]) THEN "returned" ELSE "enter")
    BY DEF Senders, Sending, After
  <2>3. pc'[r] = label /\ pc'[s] = After(s) /\ \A p \in Procs : p # r /\ p # s => pc'[p] = pc[p]
    BY <1>1, <2>1, <2>2 DEF Types
  <2>4. Hold' = Hold \cup {r} /\ Running' = Running
    BY <1>1, <2>2, <2>3 DEF Hold, Running
  <2>5. Sending' = Sending \ {s} /\ Entering' = IF next[s] + 1 = Len(Batch[s]) THEN Entering ELSE Entering \cup {s}
    BY <2>2, <2>3 DEF Sending, Entering
  <2>6. task'[r] = Current(s) /\ \A q \in Hold \cup Running : task'[q] = task[q]
    BY <1>1, <2>1 DEF Types, Hold, Running
  <2>7. QED
    BY <1>1, <2>1, <2>2, <2>3, <2>4, <2>5, <2>6, SentFates, Zenon
<1>4. QED
  BY <1>2, <1>3

-----------------------------------------------------------------------------
(* Types.                                                                  *)

\* A submitter's step keeps the types.
LEMMA SubmitTypes == ASSUME WellFormed, Types, FateInv, NEW s \in Submitters, Submit(s) PROVE Types'
<1> USE Roles
<1>1. Refuse(s) \/ s \in Sending \cup Entering
  BY DEF Submit, Enter, Offer, OfferFails, Fork, ForkFails, Send, Sending, Entering, Types
<1>2. CASE Refuse(s)
  BY <1>2 DEF Refuse, Goto, Labels, Statuses, Types
<1>3. ASSUME s \in Sending \cup Entering PROVE Current(s) \in Tasks /\ After(s) \in Labels
  BY <1>3, CurrentTask DEF After, Labels, Types
<1>4. CASE Enter(s)
  <2>1. pc' \in [Procs -> Labels]
    BY <1>4 DEF Enter, Goto, Labels, Types
  <2>2. status' \in [Tasks -> Statuses]
    BY <1>4, Zenon DEF Enter, Statuses, Types
  <2>3. QED
    BY <1>4, <2>1, <2>2 DEF Enter, Types
<1>5. CASE OfferFails(s) \/ ForkFails(s)
  <2>1. pc' \in [Procs -> Labels]
    BY <1>5 DEF OfferFails, ForkFails, Goto, Labels, Types
  <2>2. QED
    BY <1>5, <2>1 DEF OfferFails, ForkFails, Types
<1>6. CASE Fork(s)
  <2>1. s \in Sending
    BY <1>6 DEF Fork, Sending, Types
  <2>2. pc' \in [Procs -> Labels]
    BY <1>3, <1>6, <2>1 DEF Fork, Forked, Labels, Types
  <2>3. task' \in [Procs -> Tasks \cup {None}]
    BY <1>3, <1>6, <2>1 DEF Fork, Forked, Types
  <2>4. next' \in [Submitters -> Nat] /\ active' \in Int
    BY <1>6 DEF Fork, Forked, Types
  <2>5. QED
    BY <1>6, <2>2, <2>3, <2>4 DEF Fork, Types
<1>7. ASSUME s \in Sending, Put(s)
      PROVE /\ tasks' \in Seq(Tasks) /\ pc' \in [Procs -> Labels]
            /\ task' \in [Procs -> Tasks \cup {None}] /\ next' \in [Submitters -> Nat]
  <2>1. Current(s) \in Tasks /\ After(s) \in Labels
    BY <1>3, <1>7
  <2>2. tasks' \in Seq(Tasks)
    <3>1. tasks' = tasks \/ tasks' = Append(tasks, Current(s))
      BY <1>7 DEF Put
    <3>2. tasks \in Seq(Tasks)
      BY DEF Types
    <3>3. Append(tasks, Current(s)) \in Seq(Tasks)
      BY <2>1, <3>2
    <3>4. QED
      BY <3>1, <3>2, <3>3
  <2>3. pc' \in [Procs -> Labels]
    <3>1. pc' = [pc EXCEPT ![s] = After(s)] \/ \E r \in Receivers : pc' = [pc EXCEPT ![r] = "received", ![s] = After(s)]
      BY <1>7 DEF Put, Goto, Types
    <3>2. "received" \in Labels
      BY DEF Labels
    <3>3. QED
      BY <2>1, <3>1, <3>2 DEF Types
  <2>4. task' \in [Procs -> Tasks \cup {None}]
    BY <1>7, <2>1, SMTT(30) DEF Put, Types
  <2>5. next' \in [Submitters -> Nat]
    BY <1>7 DEF Put, Types
  <2>6. QED
    BY <2>2, <2>3, <2>4, <2>5
<1>8. CASE Offer(s) \/ Send(s)
  BY <1>7, <1>8 DEF Offer, Send, Sending, Types
<1>9. QED
  BY <1>2, <1>4, <1>5, <1>6, <1>8 DEF Submit

\* So does a step of a worker or of the dispatcher.
LEMMA RunnerTypes ==
    ASSUME WellFormed, Types, FateInv, (\E w \in Slots : Work(w)) \/ Dispatch
    PROVE Types'
<1> USE Roles
<1>1. ASSUME NEW r \in Runners, NEW label \in Labels, Get(r, label)
      PROVE tasks' \in Seq(Tasks) /\ pc' \in [Procs -> Labels]
            /\ task' \in [Procs -> Tasks \cup {None}] /\ next' \in [Submitters -> Nat]
  <2>1. CASE tasks # <<>>
    <3>1. Head(tasks) \in Tasks /\ Tail(tasks) \in Seq(Tasks)
      BY <2>1 DEF Types
    <3>2. task' = [task EXCEPT ![r] = Head(tasks)] /\ tasks' = Tail(tasks) /\ Goto(r, label) /\ UNCHANGED next
      BY <1>1, <2>1 DEF Get, Types
    <3>3. QED
      BY <3>1, <3>2 DEF Goto, Types
  <2>2. ASSUME NEW s \in Senders PROVE Current(s) \in Tasks /\ After(s) \in Labels /\ s \in Submitters
    <3>1. s \in Sending
      BY DEF Senders, Sending, Types
    <3>2. QED
      BY <3>1, CurrentTask DEF After, Labels, Types
  <2>3. CASE tasks = <<>>
    BY <1>1, <2>2, <2>3 DEF Get, Types
  <2>4. QED
    BY <2>1, <2>3
<1>2. ASSUME NEW r \in Runners, Execute(r) \/ Done(r) PROVE Types'
  <2>1. task[r] \in Tasks
    BY <1>2 DEF Execute, Done, FateInv, Hold, Running, Types
  <2>2. QED
    BY <1>2, <2>1, SMTT(30) DEF Execute, Done, taskDone, Goto, Labels, Statuses, Types
<1>3. ASSUME NEW r \in Runners, Select(r) \/ Poll(r) PROVE Types'
  <2>1. CASE Select(r)
    BY <1>1, <2>1 DEF Select, Goto, Labels, Types
  <2>2. CASE Poll(r)
    BY <1>1, <2>2 DEF Poll, Goto, Labels, Types
  <2>3. QED
    BY <1>3, <2>1, <2>2
<1>4. ASSUME NEW w \in Slots, Linger(w) \/ Received(w) \/ Expire(w) \/ Unlinger(w) \/ Leave(w) PROVE Types'
  BY <1>4, SMTT(30) DEF Linger, Received, Expire, Unlinger, Leave, Goto, Labels, Types
<1>5. CASE DispatchFork
  <2>1. task[Dispatcher] \in Tasks /\ pc' \in [Procs -> Labels]
    BY <1>5 DEF DispatchFork, Forked, Labels, FateInv, Hold, Types
  <2>2. task' \in [Procs -> Tasks \cup {None}] /\ active' \in Int
    BY <1>5, <2>1 DEF DispatchFork, Forked, Types
  <2>3. QED
    BY <1>5, <2>1, <2>2 DEF DispatchFork, Types
<1>6. CASE DispatchRun \/ DispatchReturn
  BY <1>6, SMTT(30) DEF DispatchRun, DispatchReturn, Goto, Labels, Types
<1>7. QED
  BY <1>2, <1>3, <1>4, <1>5, <1>6 DEF Work, Dispatch

\* Every step keeps the types.
LEMMA NextTypes == ASSUME WellFormed, Types, FateInv, [Next]_vars PROVE Types'
<1>1. CASE StopBegin \/ StopTasks \/ StopReturn
  <2>1. pc' \in [Procs -> Labels]
    BY <1>1 DEF StopBegin, StopTasks, StopReturn, Goto, Types, Labels
  <2>2. stopped' \in BOOLEAN
    <3>1. stopped' = stopped \/ stopped' = TRUE
      BY <1>1 DEF StopBegin, StopTasks, StopReturn
    <3>2. QED
      BY <3>1, Zenon DEF Types
  <2>3. QED
    BY <1>1, <2>1, <2>2 DEF StopBegin, StopTasks, StopReturn, Types
<1>2. CASE UNCHANGED vars
  BY <1>2 DEF vars, Types
<1>3. QED
  BY <1>1, <1>2, SubmitTypes, RunnerTypes DEF Next, Over
=============================================================================
