--------------------------- MODULE CondPoolFates ----------------------------
(***************************************************************************)
(* CondPool: the ring holds the queued tasks from head to tail, and every  *)
(* queued or running task is in one place, whichever step is taken.        *)
(***************************************************************************)
EXTENDS CondPoolLists, TLAPS

(* The ring.                                                               *)

\* enqueueLocked puts a task into the slot behind the last one.
LEMMA EnqueueRing == ASSUME WellFormed, Types, RingInv, NEW s \in Submitters, Enqueue(s) PROVE RingInv'
<1> DEFINE t == Batch[s][next[s] + 1]
<1>1. t \in Tasks /\ t # None
  BY DEF WellFormed, Types, Enqueue, Left
<1>2. /\ Size \in Nat /\ Size > 0 /\ head \in Nat /\ head < Size /\ tail \in Nat /\ tail < Size
      /\ count \in Nat /\ count < Size /\ head' = head /\ count' = count + 1 /\ tail' = After(tail)
  BY DEF WellFormed, Types, Indices, Enqueue, mayEnqueue, Full
<1>3. tail = IF head + count < Size THEN head + count ELSE head + count - Size
  BY DEF RingInv
<1>4. tail' = IF head' + count' < Size THEN head' + count' ELSE head' + count' - Size
  BY <1>2, <1>3 DEF After
<1>5. ASSUME NEW i \in Indices PROVE queue'[i] # None <=> Behind(i)' < count'
  <2>1. i \in Nat /\ i < Size
    BY <1>2 DEF Indices
  <2>2. Behind(i)' = Behind(i)
    BY <1>2 DEF Behind
  <2>3. Behind(i) = count <=> i = tail
    BY <1>2, <1>3, <2>1 DEF Behind
  <2>4. Behind(i) \in Int
    BY <1>2, <2>1 DEF Behind
  <2>5. CASE i = tail
    BY <1>1, <1>2, <2>2, <2>3, <2>5 DEF Enqueue, Types
  <2>6. CASE i # tail
    <3>1. queue'[i] = queue[i]
      BY <2>6 DEF Enqueue, Types
    <3>2. Behind(i)' < count' <=> Behind(i) < count
      BY <1>2, <2>2, <2>3, <2>4, <2>6
    <3>3. QED
      BY <3>1, <3>2 DEF RingInv
  <2>7. QED
    BY <2>5, <2>6
<1>6. QED
  BY <1>4, <1>5 DEF RingInv

\* A worker empties the slot at head.
LEMMA TakeRing == ASSUME WellFormed, Types, RingInv, NEW w \in Workers, Take(w) PROVE RingInv'
<1>1. /\ Size \in Nat /\ Size > 0 /\ head \in Nat /\ head < Size /\ tail \in Nat /\ tail < Size
      /\ count \in Nat /\ count <= Size /\ count > 0 /\ head' = After(head) /\ count' = count - 1 /\ tail' = tail
  BY DEF WellFormed, Types, Indices, Take
<1>2. tail = IF head + count < Size THEN head + count ELSE head + count - Size
  BY DEF RingInv
<1>3. tail' = IF head' + count' < Size THEN head' + count' ELSE head' + count' - Size
  BY <1>1, <1>2 DEF After
<1>4. ASSUME NEW i \in Indices PROVE queue'[i] # None <=> Behind(i)' < count'
  <2>1. i \in Nat /\ i < Size
    BY <1>1 DEF Indices
  <2>2. CASE i = head
    <3>1. queue'[i] = None
      BY <2>2 DEF Take, Types
    <3>2. Behind(i)' = Size - 1
      BY <1>1, <2>1, <2>2 DEF Behind, After
    <3>3. QED
      BY <1>1, <3>1, <3>2
  <2>3. CASE i # head
    <3>1. queue'[i] = queue[i]
      BY <2>3 DEF Take, Types
    <3>2. Behind(i)' = Behind(i) - 1 /\ Behind(i) \in Int
      BY <1>1, <2>1, <2>3 DEF Behind, After
    <3>3. Behind(i)' < count' <=> Behind(i) < count
      BY <1>1, <3>2
    <3>4. QED
      BY <3>1, <3>3 DEF RingInv
  <2>4. QED
    BY <2>2, <2>3
<1>5. QED
  BY <1>3, <1>4 DEF RingInv

\* The task at head is there to be taken.
LEMMA HeadTask == ASSUME WellFormed, Types, RingInv, count > 0 PROVE head \in Indices /\ queue[head] \in Tasks
<1>1. head \in Indices /\ head \in Int
  BY DEF Types, WellFormed, Indices
<1>2. Behind(head) = 0
  BY <1>1 DEF Behind
<1>3. QED
  BY <1>1, <1>2 DEF RingInv, Types

-----------------------------------------------------------------------------
(* The fates of tasks.                                                     *)

\* Most steps move no task: nobody takes one, starts one or comes to ask.
LEMMA FatesKept ==
    ASSUME FateInv, UNCHANGED <<queue, task, next, status>>,
           Taken' = Taken, Running' = Running, Asking' \subseteq Asking
    PROVE FateInv'
<1>1. /\ \A i \in Indices : queue'[i] # None => status'[queue'[i]] = "queued"
      /\ \A i, j \in Indices : queue'[i] # None /\ queue'[i] = queue'[j] => i = j
  BY DEF FateInv
<1>2. /\ \A w \in Taken' : /\ task'[w] \in Tasks /\ status'[task'[w]] = "queued"
                           /\ \A i \in Indices : queue'[i] # task'[w]
      /\ \A w \in Running' : task'[w] \in Tasks /\ status'[task'[w]] = "running"
      /\ \A w, v \in Taken' \cup Running' : task'[w] = task'[v] => w = v
  BY DEF FateInv
<1>3. /\ \A t \in Tasks : status'[t] = "queued" =>
            (\E i \in Indices : queue'[i] = t) \/ (\E w \in Taken' : task'[w] = t)
      /\ \A t \in Tasks : status'[t] = "running" => \E w \in Running' : task'[w] = t
  BY DEF FateInv
<1>4. \A s \in Asking' : \A i \in next'[s] + 1..Len(Batch[s]) : status'[Batch[s][i]] = "new"
  BY DEF FateInv
<1>5. QED
  BY <1>1, <1>2, <1>3, <1>4 DEF FateInv

\* What a submitter has left to enqueue is new, and nobody else's.
LEMMA RestIsNew ==
    ASSUME WellFormed, Types, FateInv, NEW s \in Asking
    PROVE /\ \A t \in Rest(s) : t \in Tasks /\ status[t] = "new"
          /\ \A u \in Submitters : \A i \in 1..Len(Batch[u]) : Batch[u][i] \in Rest(s) => u = s
<1>1. s \in Submitters /\ next[s] \in Nat /\ Len(Batch[s]) \in Nat /\ Batch[s] \in Seq(Tasks)
  BY DEF Asking, Types, WellFormed
<1>2. \A i \in next[s] + 1..Len(Batch[s]) : i \in 1..Len(Batch[s]) /\ Batch[s][i] \in Tasks
  BY <1>1
<1>3. \A t \in Rest(s) : t \in Tasks /\ status[t] = "new"
  BY <1>2 DEF Rest, FateInv
<1>4. ASSUME NEW u \in Submitters, NEW i \in 1..Len(Batch[u]), Batch[u][i] \in Rest(s) PROVE u = s
  <2>1. PICK j \in next[s] + 1..Len(Batch[s]) : Batch[u][i] = Batch[s][j]
    BY <1>4 DEF Rest
  <2>2. QED
    BY <1>1, <1>2, <2>1 DEF WellFormed
<1>5. QED
  BY <1>3, <1>4

\* A refusal takes what a submitter has left, and it asks no more.
LEMMA RefuseFates ==
    ASSUME WellFormed, Types, FateInv, NEW s \in Asking, Refused(s), UNCHANGED <<queue, task, next>>,
           Taken' = Taken, Running' = Running, Asking' \subseteq Asking \ {s}
    PROVE FateInv'
<1>1. \A t \in Rest(s) : t \in Tasks /\ status[t] = "new"
  BY RestIsNew
<1>2. \A t \in Tasks : status[t] # "new" => status'[t] = status[t]
  BY <1>1 DEF Refused, Types
<1>3. \A t \in Tasks : status'[t] \in {"queued", "running"} => status'[t] = status[t]
  BY DEF Refused, Types
<1>4. /\ \A i \in Indices : queue'[i] # None => status'[queue'[i]] = "queued"
      /\ \A i, j \in Indices : queue'[i] # None /\ queue'[i] = queue'[j] => i = j
  BY <1>2 DEF FateInv, Types
<1>5. /\ \A w \in Taken' : /\ task'[w] \in Tasks /\ status'[task'[w]] = "queued"
                           /\ \A i \in Indices : queue'[i] # task'[w]
      /\ \A w \in Running' : task'[w] \in Tasks /\ status'[task'[w]] = "running"
      /\ \A w, v \in Taken' \cup Running' : task'[w] = task'[v] => w = v
  BY <1>2 DEF FateInv
<1>6. /\ \A t \in Tasks : status'[t] = "queued" =>
            (\E i \in Indices : queue'[i] = t) \/ (\E w \in Taken' : task'[w] = t)
      /\ \A t \in Tasks : status'[t] = "running" => \E w \in Running' : task'[w] = t
  BY <1>3 DEF FateInv
<1>7. ASSUME NEW u \in Asking', NEW i \in next'[u] + 1..Len(Batch[u]) PROVE status'[Batch[u][i]] = "new"
  <2>1. u \in Asking /\ u # s /\ u \in Submitters
    BY DEF Asking
  <2>2. i \in 1..Len(Batch[u]) /\ Batch[u][i] \in Tasks
    BY <2>1 DEF Types, WellFormed
  <2>3. Batch[u][i] \notin Rest(s)
    BY <2>1, <2>2, RestIsNew
  <2>4. status[Batch[u][i]] = "new"
    BY <2>1 DEF FateInv
  <2>5. QED
    BY <2>2, <2>3, <2>4 DEF Refused
<1>8. QED
  BY <1>4, <1>5, <1>6, <1>7 DEF FateInv

\* The task that is enqueued was new; it is now in the slot at tail.
LEMMA EnqueueFates ==
    ASSUME WellFormed, Types, RingInv, FateInv, NEW s \in Submitters, Enqueue(s)
    PROVE FateInv'
<1> DEFINE t == Batch[s][next[s] + 1]
<1>1. /\ next[s] \in Nat /\ Len(Batch[s]) \in Nat /\ next[s] + 1 \in 1..Len(Batch[s]) /\ t \in Tasks /\ t # None
      /\ next[s] + 1 \in next[s] + 1..Len(Batch[s])
  BY DEF WellFormed, Types, Enqueue, Left
<1>2. s \in Asking
  BY DEF Asking, Enqueue
<1>3. status[t] = "new"
  BY <1>1, <1>2 DEF FateInv
<1>4. /\ queue' = [queue EXCEPT ![tail] = t] /\ status' = [status EXCEPT ![t] = "queued"]
      /\ next' = [next EXCEPT ![s] = @ + 1] /\ UNCHANGED <<pc, task>>
  BY DEF Enqueue, Note
<1>5. tail \in Indices /\ queue[tail] = None
  <2>1. tail \in Indices /\ count < Size /\ Size \in Nat /\ head \in Nat /\ head < Size /\ tail \in Nat /\ count \in Nat
    BY DEF Types, WellFormed, Indices, Enqueue, mayEnqueue, Full
  <2>2. tail = IF head + count < Size THEN head + count ELSE head + count - Size
    BY DEF RingInv
  <2>3. Behind(tail) = count
    BY <2>1, <2>2 DEF Behind
  <2>4. ~(Behind(tail) < count)
    BY <2>1, <2>3
  <2>5. QED
    BY <2>1, <2>4 DEF RingInv
<1>6. Taken' = Taken /\ Running' = Running /\ Asking' = Asking
  BY <1>4 DEF Taken, Running, Asking
<1>7. \A x \in Tasks : x # t => status'[x] = status[x]
  BY <1>4 DEF Types
<1>8. status'[t] = "queued" /\ queue'[tail] = t /\ \A i \in Indices : i # tail => queue'[i] = queue[i]
  BY <1>1, <1>4, <1>5 DEF Types
<1>9. \A i \in Indices : queue[i] # t
  BY <1>1, <1>3 DEF FateInv
<1>10. /\ \A i \in Indices : queue'[i] # None => status'[queue'[i]] = "queued"
       /\ \A i, j \in Indices : queue'[i] # None /\ queue'[i] = queue'[j] => i = j
  <2>1. ASSUME NEW i \in Indices, queue'[i] # None PROVE status'[queue'[i]] = "queued"
    <3>1. CASE i = tail
      BY <1>8, <3>1
    <3>2. CASE i # tail
      <4>1. queue'[i] = queue[i] /\ queue[i] \in Tasks /\ queue[i] # t /\ status[queue[i]] = "queued"
        BY <1>8, <1>9, <2>1, <3>2 DEF FateInv, Types
      <4>2. QED
        BY <1>7, <4>1
    <3>3. QED
      BY <3>1, <3>2
  <2>2. ASSUME NEW i \in Indices, NEW j \in Indices, queue'[i] # None, queue'[i] = queue'[j] PROVE i = j
    BY <1>8, <1>9, <2>2 DEF FateInv
  <2>3. QED
    BY <2>1, <2>2
<1>11. \A w \in Taken \cup Running : task[w] # t
  BY <1>3 DEF FateInv
<1>12. /\ \A w \in Taken' : /\ task'[w] \in Tasks /\ status'[task'[w]] = "queued"
                            /\ \A i \in Indices : queue'[i] # task'[w]
       /\ \A w \in Running' : task'[w] \in Tasks /\ status'[task'[w]] = "running"
       /\ \A w, v \in Taken' \cup Running' : task'[w] = task'[v] => w = v
  <2>1. ASSUME NEW w \in Taken
        PROVE task'[w] \in Tasks /\ status'[task'[w]] = "queued" /\ \A i \in Indices : queue'[i] # task'[w]
    <3>1. task'[w] = task[w] /\ task[w] \in Tasks /\ task[w] # t /\ status[task[w]] = "queued"
      BY <1>4, <1>11 DEF FateInv
    <3>2. \A i \in Indices : queue[i] # task[w]
      BY DEF FateInv
    <3>3. QED
      BY <1>7, <1>8, <3>1, <3>2
  <2>2. \A w \in Running : task'[w] \in Tasks /\ status'[task'[w]] = "running"
    BY <1>4, <1>7, <1>11 DEF FateInv
  <2>3. \A w, v \in Taken \cup Running : task'[w] = task'[v] => w = v
    BY <1>4 DEF FateInv
  <2>4. QED
    BY <1>6, <2>1, <2>2, <2>3
<1>13. /\ \A x \in Tasks : status'[x] = "queued" =>
             (\E i \in Indices : queue'[i] = x) \/ (\E w \in Taken' : task'[w] = x)
       /\ \A x \in Tasks : status'[x] = "running" => \E w \in Running' : task'[w] = x
  <2>1. ASSUME NEW x \in Tasks, status'[x] = "queued"
        PROVE (\E i \in Indices : queue'[i] = x) \/ (\E w \in Taken' : task'[w] = x)
    <3>1. CASE x = t
      BY <1>5, <1>8, <3>1
    <3>2. CASE x # t
      <4>1. (\E i \in Indices : queue[i] = x) \/ (\E w \in Taken : task[w] = x)
        BY <1>7, <2>1, <3>2 DEF FateInv
      <4>2. \A i \in Indices : queue[i] = x => i # tail
        BY <1>5 DEF WellFormed
      <4>3. QED
        BY <1>4, <1>6, <1>8, <4>1, <4>2
    <3>3. QED
      BY <3>1, <3>2
  <2>2. \A x \in Tasks : status'[x] = "running" => \E w \in Running' : task'[w] = x
    BY <1>4, <1>6, <1>7, <1>8 DEF FateInv
  <2>3. QED
    BY <2>1, <2>2
<1>14. ASSUME NEW u \in Asking', NEW i \in next'[u] + 1..Len(Batch[u]) PROVE status'[Batch[u][i]] = "new"
  <2>1. u \in Asking /\ u \in Submitters /\ Len(Batch[u]) \in Nat /\ next[u] \in Nat
    BY <1>6 DEF Asking, Types, WellFormed
  <2>2. /\ next'[u] = IF u = s THEN next[u] + 1 ELSE next[u]
        /\ i \in next[u] + 1..Len(Batch[u]) /\ i \in 1..Len(Batch[u])
    BY <1>4, <2>1 DEF Types
  <2>3. Batch[u][i] \in Tasks /\ status[Batch[u][i]] = "new"
    BY <2>1, <2>2 DEF FateInv, WellFormed
  <2>4. u = s => i # next[s] + 1
    BY <2>1, <2>2
  <2>5. Batch[u][i] # t
    BY <1>1, <2>1, <2>2, <2>4 DEF WellFormed
  <2>6. QED
    BY <1>7, <2>3, <2>5, SMTT(30)
<1>15. QED
  BY <1>10, <1>12, <1>13, <1>14 DEF FateInv

-----------------------------------------------------------------------------
(* The fates of tasks.                                                     *)

\* The task at head passes from the ring into the hands of one worker.
LEMMA TakeFates ==
    ASSUME WellFormed, Types, RingInv, FateInv, NEW w \in Workers, Take(w)
    PROVE FateInv'
<1> USE Roles
<1> DEFINE t == queue[head]
<1>1. head \in Indices /\ t \in Tasks /\ t # None /\ status[t] = "queued"
  <2>1. head \in Indices /\ t \in Tasks
    BY HeadTask DEF Take
  <2>2. QED
    BY <2>1 DEF FateInv, WellFormed
<1>2. /\ queue' = [queue EXCEPT ![head] = None] /\ task' = [task EXCEPT ![w] = t] /\ UNCHANGED <<next, status>>
      /\ pc[w] = "look" /\ pc'[w] \in {"room", "run"} /\ \A p \in Procs : p # w => pc'[p] = pc[p]
  BY DEF Take, Goto, subs, Types
<1>3. Taken' = Taken \cup {w} /\ w \notin Taken \cup Running /\ Running' = Running /\ Asking' = Asking
  BY <1>2 DEF Taken, Running, Asking
<1>4. queue'[head] = None /\ \A i \in Indices : i # head => queue'[i] = queue[i] /\ queue[i] # t
  BY <1>1, <1>2 DEF Types, FateInv
<1>5. /\ Taken \subseteq Workers /\ Running \subseteq Workers
      /\ task'[w] = t /\ \A v \in Workers : v # w => task'[v] = task[v]
  BY <1>2 DEF Types, Taken, Running
<1>6. /\ \A i \in Indices : queue'[i] # None => status'[queue'[i]] = "queued"
      /\ \A i, j \in Indices : queue'[i] # None /\ queue'[i] = queue'[j] => i = j
  BY <1>2, <1>4 DEF FateInv
<1>7. ASSUME NEW v \in Taken'
      PROVE task'[v] \in Tasks /\ status'[task'[v]] = "queued" /\ \A i \in Indices : queue'[i] # task'[v]
  <2>1. CASE v = w
    BY <1>1, <1>2, <1>4, <1>5, <2>1
  <2>2. CASE v # w
    <3>1. task'[v] = task[v] /\ task[v] \in Tasks /\ status[task[v]] = "queued" /\ \A i \in Indices : queue[i] # task[v]
      BY <1>3, <1>5, <2>2 DEF FateInv
    <3>2. task[v] # None
      BY <3>1 DEF WellFormed
    <3>3. QED
      BY <1>2, <1>4, <3>1, <3>2
  <2>3. QED
    BY <2>1, <2>2
<1>8. \A v \in Running' : task'[v] \in Tasks /\ status'[task'[v]] = "running"
  BY <1>2, <1>3, <1>5 DEF FateInv
<1>9. \A v \in Taken \cup Running : task[v] # t
  BY <1>1 DEF FateInv
<1>10. \A u, v \in Taken' \cup Running' : task'[u] = task'[v] => u = v
  BY <1>3, <1>5, <1>9 DEF FateInv
<1>11. ASSUME NEW x \in Tasks, status'[x] = "queued"
       PROVE (\E i \in Indices : queue'[i] = x) \/ (\E v \in Taken' : task'[v] = x)
  <2>1. CASE x = t
    BY <1>3, <1>5, <2>1
  <2>2. CASE x # t
    <3>1. (\E i \in Indices : queue[i] = x /\ i # head) \/ (\E v \in Taken : task[v] = x)
      BY <1>2, <1>11, <2>2 DEF FateInv
    <3>2. \A v \in Taken : v # w /\ v \in Taken' /\ task'[v] = task[v]
      BY <1>3, <1>5
    <3>3. QED
      BY <1>4, <3>1, <3>2
  <2>3. QED
    BY <2>1, <2>2
<1>12. \A x \in Tasks : status'[x] = "running" => \E v \in Running' : task'[v] = x
  BY <1>2, <1>3, <1>5 DEF FateInv
<1>13. \A s \in Asking' : \A i \in next'[s] + 1..Len(Batch[s]) : status'[Batch[s][i]] = "new"
  BY <1>2, <1>3, SMTT(30) DEF FateInv
<1>14. QED
  BY <1>6, <1>7, <1>8, <1>10, <1>11, <1>12, <1>13 DEF FateInv

\* A worker starts the task that it took.
LEMMA RunFates ==
    ASSUME WellFormed, Types, FateInv, NEW w \in Workers, Run(w)
    PROVE FateInv' /\ task[w] \in Tasks /\ status[task[w]] = "queued"
<1> USE Roles
<1> DEFINE t == task[w]
<1>1. /\ status' = [status EXCEPT ![t] = "running"] /\ UNCHANGED <<queue, task, next>>
      /\ pc[w] = "run" /\ pc'[w] = "running" /\ \A p \in Procs : p # w => pc'[p] = pc[p]
  BY DEF Run, Note, Goto, ring, subs, Types
<1>2. w \in Taken /\ Taken' = Taken \ {w} /\ Running' = Running \cup {w} /\ Asking' = Asking
  BY <1>1 DEF Taken, Running, Asking
<1>3. t \in Tasks /\ status[t] = "queued" /\ \A i \in Indices : queue[i] # t
  BY <1>2 DEF FateInv
<1>4. status'[t] = "running" /\ \A x \in Tasks : x # t => status'[x] = status[x]
  BY <1>1, <1>3 DEF Types
<1>5. \A v \in Taken \cup Running : v # w => task[v] # t
  BY <1>2, SMTT(30) DEF FateInv
<1>6. /\ \A i \in Indices : queue'[i] # None => status'[queue'[i]] = "queued"
      /\ \A i, j \in Indices : queue'[i] # None /\ queue'[i] = queue'[j] => i = j
  BY <1>1, <1>3, <1>4, SMTT(30) DEF FateInv, Types
<1>7. \A v \in Taken' : /\ task'[v] \in Tasks /\ status'[task'[v]] = "queued"
                        /\ \A i \in Indices : queue'[i] # task'[v]
  BY <1>1, <1>2, <1>4, <1>5 DEF FateInv
<1>8. \A v \in Running' : task'[v] \in Tasks /\ status'[task'[v]] = "running"
  BY <1>1, <1>2, <1>3, <1>4, <1>5 DEF FateInv
<1>9. \A u, v \in Taken' \cup Running' : task'[u] = task'[v] => u = v
  BY <1>1, <1>2 DEF FateInv
<1>10. ASSUME NEW x \in Tasks, status'[x] = "queued"
       PROVE (\E i \in Indices : queue'[i] = x) \/ (\E v \in Taken' : task'[v] = x)
  <2>1. x # t /\ status[x] = "queued"
    BY <1>4, <1>10
  <2>2. QED
    BY <1>1, <1>2, <2>1 DEF FateInv
<1>11. ASSUME NEW x \in Tasks, status'[x] = "running" PROVE \E v \in Running' : task'[v] = x
  BY <1>1, <1>2, <1>4, <1>11 DEF FateInv
<1>12. ASSUME NEW s \in Asking', NEW i \in next'[s] + 1..Len(Batch[s]) PROVE status'[Batch[s][i]] = "new"
  <2>1. s \in Asking /\ i \in next[s] + 1..Len(Batch[s]) /\ s \in Submitters
    BY <1>1, <1>2, SMTT(30) DEF Asking
  <2>2. Batch[s][i] \in Tasks /\ status[Batch[s][i]] = "new"
    BY <2>1 DEF FateInv, WellFormed, Types
  <2>3. QED
    BY <1>3, <1>4, <2>2, SMTT(30)
<1>13. QED
  BY <1>3, <1>6, <1>7, <1>8, <1>9, <1>10, <1>11, <1>12 DEF FateInv

\* A worker is done with the task that it ran.
LEMMA DoneFates ==
    ASSUME WellFormed, Types, FateInv, NEW w \in Workers, Done(w)
    PROVE FateInv' /\ task[w] \in Tasks /\ status[task[w]] = "running"
<1> USE Roles
<1> DEFINE t == task[w]
<1>1. /\ status' = [status EXCEPT ![t] = "done"] /\ UNCHANGED <<queue, next>> /\ task' = [task EXCEPT ![w] = None]
      /\ pc[w] = "running" /\ pc'[w] = "begin" /\ \A p \in Procs : p # w => pc'[p] = pc[p]
  BY DEF Done, Note, Goto, ring, subs, Types
<1>2. w \in Running /\ w \notin Taken /\ Taken' = Taken /\ Running' = Running \ {w} /\ Asking' = Asking
  BY <1>1 DEF Taken, Running, Asking
<1>3. t \in Tasks /\ status[t] = "running"
  BY <1>2 DEF FateInv
<1>4. status'[t] = "done" /\ \A x \in Tasks : x # t => status'[x] = status[x]
  BY <1>1, <1>3 DEF Types
<1>5. /\ Taken \subseteq Workers /\ Running \subseteq Workers
      /\ \A v \in Taken \cup Running : v # w => task[v] # t /\ task'[v] = task[v]
  <2>1. Taken \subseteq Workers /\ Running \subseteq Workers
    BY DEF Taken, Running
  <2>2. \A v \in Workers : v # w => task'[v] = task[v]
    BY <1>1 DEF Types
  <2>3. \A v \in Taken \cup Running : v # w => task[v] # t
    BY <1>2, SMTT(30) DEF FateInv
  <2>4. QED
    BY <2>1, <2>2, <2>3
<1>6. /\ \A i \in Indices : queue'[i] # None => status'[queue'[i]] = "queued"
      /\ \A i, j \in Indices : queue'[i] # None /\ queue'[i] = queue'[j] => i = j
  BY <1>1, <1>3, <1>4, SMTT(30) DEF FateInv, Types
<1>7. \A v \in Taken' : /\ task'[v] \in Tasks /\ status'[task'[v]] = "queued"
                        /\ \A i \in Indices : queue'[i] # task'[v]
  BY <1>1, <1>2, <1>4, <1>5 DEF FateInv
<1>8. \A v \in Running' : task'[v] \in Tasks /\ status'[task'[v]] = "running"
  BY <1>1, <1>2, <1>3, <1>4, <1>5, SMTT(30) DEF FateInv
<1>9. \A u, v \in Taken' \cup Running' : task'[u] = task'[v] => u = v
  BY <1>2, <1>5 DEF FateInv
<1>10. ASSUME NEW x \in Tasks, status'[x] = "queued"
       PROVE (\E i \in Indices : queue'[i] = x) \/ (\E v \in Taken' : task'[v] = x)
  <2>1. status[x] = "queued"
    BY <1>4, <1>10, SMTT(30)
  <2>2. QED
    BY <1>1, <1>2, <1>5, <2>1 DEF FateInv
<1>11. ASSUME NEW x \in Tasks, status'[x] = "running" PROVE \E v \in Running' : task'[v] = x
  <2>1. x # t /\ status[x] = "running"
    BY <1>4, <1>11
  <2>2. QED
    BY <1>2, <1>5, <2>1 DEF FateInv
<1>12. ASSUME NEW s \in Asking', NEW i \in next'[s] + 1..Len(Batch[s]) PROVE status'[Batch[s][i]] = "new"
  <2>1. s \in Asking /\ i \in next[s] + 1..Len(Batch[s]) /\ s \in Submitters
    BY <1>1, <1>2 DEF Asking
  <2>2. Batch[s][i] \in Tasks /\ status[Batch[s][i]] = "new"
    BY <2>1 DEF FateInv, WellFormed, Types
  <2>3. QED
    BY <1>3, <1>4, <2>2
<1>13. QED
  BY <1>3, <1>6, <1>7, <1>8, <1>9, <1>10, <1>11, <1>12 DEF FateInv

Busy == {"room", "run", "running"}
Asks == {"enter", "each", "parked", "woken"}

\* Steps that neither begin nor end a worker's business with a task.
Quiet ==
    \A p \in Procs : \/ pc'[p] = pc[p]
                     \/ pc[p] = "room" /\ pc'[p] = "run"
                     \/ pc[p] \notin Busy /\ pc'[p] \notin Busy /\ (p \in Submitters /\ pc'[p] \in Asks => pc[p] \in Asks)

\* They leave the tasks where they are.
LEMMA QuietFates ==
    ASSUME WellFormed, FateInv, UNCHANGED <<queue, task, next, status>>, Quiet
    PROVE FateInv'
<1>1. Taken' = Taken /\ Running' = Running /\ Asking' \subseteq Asking
  BY Roles DEF Quiet, Busy, Asks, Taken, Running, Asking
<1>2. QED
  BY <1>1, FatesKept

\* A submitter's step.
LEMMA SubmitFates ==
    ASSUME WellFormed, Types, Waiting, RingInv, FateInv, NEW s \in Submitters, Submit(s)
    PROVE FateInv'
<1> USE Roles
<1>1. CASE Enqueue(s)
  BY <1>1, EnqueueFates
<1>2. CASE Release(s) \/ TurnAway(s)
  <2>1. /\ s \in Asking /\ Refused(s) /\ UNCHANGED <<queue, task, next>>
        /\ pc'[s] \in {"signal", "returned"} /\ \A p \in Procs : p # s => pc'[p] = pc[p]
    BY <1>2 DEF Release, TurnAway, Asking, Goto, ring, subs, Types
  <2>2. Taken' = Taken /\ Running' = Running /\ Asking' \subseteq Asking \ {s}
    BY <2>1 DEF Taken, Running, Asking
  <2>3. QED
    BY <2>1, <2>2, RefuseFates
<1>3. CASE Park(s)
  <2>1. \A i \in 1..Len(notEmpty) : pc[notEmpty[i]] = "parked" /\ notEmpty[i] \in Workers
    BY DEF Waiting, Listed
  <2>2. Quiet
    <3> DEFINE n == IF Owed(s) <= Len(notEmpty) THEN Owed(s) ELSE Len(notEmpty)
    <3>1. n \in 0..Len(notEmpty) /\ Len(notEmpty) \in Nat
      BY DEF Types, Owed, Waiting, Listed
    <3>2. \A p \in Procs : pc'[p] = IF p = s THEN "parked"
                                   ELSE IF \E i \in 1..n : notEmpty[i] = p THEN "woken" ELSE pc[p]
      BY <1>3 DEF Park
    <3>3. pc[s] = "each"
      BY <1>3 DEF Park
    <3>4. \A p \in Procs : (\E i \in 1..n : notEmpty[i] = p) => pc[p] = "parked"
      BY <2>1, <3>1
    <3>5. QED
      BY <3>2, <3>3, <3>4, SMTT(30) DEF Quiet, Busy, Asks
  <2>3. QED
    BY <1>3, <2>2, QuietFates DEF Park, ring
<1>4. CASE Signal(s)
  <2>1. Quiet
    <3>1. CASE notEmpty # <<>>
      <4>1. Head(notEmpty) \in Workers /\ pc[Head(notEmpty)] = "parked"
        BY <3>1 DEF Waiting, Listed
      <4>2. pc' = pc \/ pc' = [pc EXCEPT ![Head(notEmpty)] = "woken"] \/ pc' = [pc EXCEPT ![s] = "returned"]
        BY <1>4 DEF Signal, Goto
      <4>3. pc[s] = "signal"
        BY <1>4 DEF Signal
      <4>4. QED
        BY <4>1, <4>2, <4>3 DEF Quiet, Busy, Asks, Types
    <3>2. CASE notEmpty = <<>>
      BY <1>4, <3>2 DEF Signal, Goto, Quiet, Busy, Asks, Types
    <3>3. QED
      BY <3>1, <3>2
  <2>2. QED
    BY <1>4, <2>1, QuietFates DEF Signal, ring
<1>5. CASE Enter(s) \/ Unpark(s)
  <2>1. Quiet
    BY <1>5 DEF Enter, Unpark, Goto, Quiet, Busy, Asks, Types
  <2>2. QED
    BY <1>5, <2>1, QuietFates DEF Enter, Unpark, ring
<1>6. QED
  BY <1>1, <1>2, <1>3, <1>4, <1>5 DEF Submit

\* A worker's step.
LEMMA WorkFates ==
    ASSUME WellFormed, Types, Waiting, RingInv, FateInv, NEW w \in Workers, Work(w)
    PROVE FateInv'
<1> USE Roles
<1>1. CASE Take(w)
  BY <1>1, TakeFates
<1>2. CASE Run(w)
  BY <1>2, RunFates
<1>3. CASE Done(w)
  BY <1>3, DoneFates
<1>4. CASE Room(w)
  <2>1. Quiet
    <3>1. CASE notFull # <<>>
      <4>1. Head(notFull) \in Submitters /\ pc[Head(notFull)] = "parked"
        BY <3>1 DEF Waiting, Listed
      <4>2. pc[w] = "room" /\ pc' = [pc EXCEPT ![w] = "run", ![Head(notFull)] = "woken"]
        BY <1>4, <3>1 DEF Room
      <4>3. QED
        BY <4>1, <4>2 DEF Quiet, Busy, Asks, Types
    <3>2. CASE notFull = <<>>
      BY <1>4, <3>2 DEF Room, Goto, Quiet, Busy, Asks, Types
    <3>3. QED
      BY <3>1, <3>2
  <2>2. QED
    BY <1>4, <2>1, QuietFates DEF Room, ring, subs
<1>5. CASE Begin(w) \/ Wait(w) \/ Exit(w)
  <2>1. Quiet
    BY <1>5 DEF Begin, Wait, Exit, Goto, Quiet, Busy, Asks, Types
  <2>2. QED
    BY <1>5, <2>1, QuietFates DEF Begin, Wait, Exit, ring, subs
<1>6. QED
  BY <1>1, <1>2, <1>3, <1>4, <1>5 DEF Work

\* A step of stop.
LEMMA StopFates ==
    ASSUME WellFormed, Types, Waiting, FateInv, EndInv, StopBegin \/ Finishing
    PROVE FateInv'
<1> USE Roles
<1>1. \A p \in Procs : Broadcast(notEmpty, p) \/ Broadcast(notFull, p) => pc[p] = "parked"
  BY DEF Waiting, Listed, Broadcast
<1>2. Quiet
  <2>1. pc[Stopper] \in {"begin", "pending", "workers"}
    BY DEF StopBegin, Finishing, StopPending, StopReturn
  <2>2. \A p \in Procs : \/ pc'[p] = pc[p]
                         \/ pc[p] = "parked" /\ pc'[p] = "woken"
                         \/ p = Stopper /\ pc'[p] \in {"pending", "workers", "returned"}
    <3>1. CASE StopBegin
      BY <1>1, <3>1 DEF StopBegin
    <3>2. CASE StopPending
      BY <1>1, <3>2 DEF StopPending
    <3>3. CASE StopReturn
      BY <3>3 DEF StopReturn, Goto, Types
    <3>4. QED
      BY <3>1, <3>2, <3>3 DEF Finishing
  <2>3. QED
    BY <2>1, <2>2 DEF Quiet, Busy, Asks
<1>3. UNCHANGED <<queue, task, next, status>>
  BY DEF StopBegin, Finishing, StopPending, StopReturn, ring, subs
<1>4. QED
  BY <1>2, <1>3, QuietFates
=============================================================================
