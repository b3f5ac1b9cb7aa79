--------------------------- MODULE CondPoolLists ----------------------------
(***************************************************************************)
(* The invariant of CondPool, its types, and the lists of its condition    *)
(* variables: who stands in one is parked, and stands there once.          *)
(***************************************************************************)
EXTENDS CondPool, TLAPS

Indices == 0..Size - 1
Statuses == {"new", "queued", "running", "done", "refused"}
Labels == {"enter", "each", "parked", "woken", "signal", "returned", "begin", "look", "room", "run",
           "running", "exited", "pending", "workers"}

Types ==
    /\ queue \in [Indices -> Tasks \cup {None}]
    /\ head \in Indices /\ tail \in Indices /\ count \in 0..Size
    /\ stopped \in BOOLEAN /\ pc \in [Procs -> Labels]
    /\ task \in [Workers -> Tasks \cup {None}]
    /\ next \in [Submitters -> Nat] /\ \A s \in Submitters : next[s] <= Len(Batch[s])
    /\ wake \in [Submitters -> Nat]
    /\ status \in [Tasks -> Statuses]

\* Who stands in the list of a condition variable is parked, and stands there once.
Listed(list, S, at) ==
    /\ list \in Seq(S)
    /\ \A i \in 1..Len(list) : at[list[i]] = "parked"
    /\ \A i, j \in 1..Len(list) : list[i] = list[j] => i = j

Waiting == Listed(notEmpty, Workers, pc) /\ Listed(notFull, Submitters, pc)

\* How far behind head a slot is.
Behind(i) == IF i >= head THEN i - head ELSE i - head + Size

\* count slots from head on are in use, and tail is the first that is not.
RingInv ==
    /\ tail = IF head + count < Size THEN head + count ELSE head + count - Size
    /\ \A i \in Indices : queue[i] # None <=> Behind(i) < count

Taken == {w \in Workers : pc[w] \in {"room", "run"}}
Running == {w \in Workers : pc[w] = "running"}
Asking == {s \in Submitters : pc[s] \in {"enter", "each", "parked", "woken"}}

\* A queued task is in one slot or in the hands of one worker, a running one with
\* the worker that runs it, and what a submitter has left is new.
FateInv ==
    /\ \A i \in Indices : queue[i] # None => status[queue[i]] = "queued"
    /\ \A i, j \in Indices : queue[i] # None /\ queue[i] = queue[j] => i = j
    /\ \A w \in Taken : /\ task[w] \in Tasks /\ status[task[w]] = "queued"
                        /\ \A i \in Indices : queue[i] # task[w]
    /\ \A w \in Running : task[w] \in Tasks /\ status[task[w]] = "running"
    /\ \A w, v \in Taken \cup Running : task[w] = task[v] => w = v
    /\ \A t \in Tasks : status[t] = "queued" =>
          (\E i \in Indices : queue[i] = t) \/ (\E w \in Taken : task[w] = t)
    /\ \A t \in Tasks : status[t] = "running" => \E w \in Running : task[w] = t
    /\ \A s \in Asking : \A i \in next[s] + 1..Len(Batch[s]) : status[Batch[s][i]] = "new"

\* A worker leaves only a stopped pool with nothing queued, which it then stays.
EndInv ==
    /\ stopped <=> pc[Stopper] # "begin"
    /\ \A w \in Workers : pc[w] = "exited" => stopped /\ count = 0

Inv == Types /\ Waiting /\ RingInv /\ FateInv /\ EndInv

-----------------------------------------------------------------------------

\* The roles of goroutines.
LEMMA Roles ==
    ASSUME WellFormed
    PROVE /\ Workers \subseteq Procs /\ Submitters \subseteq Procs /\ Stopper \in Procs
          /\ \A w \in Workers : w # Stopper /\ w \notin Submitters
          /\ \A s \in Submitters : s # Stopper /\ s \notin Workers
BY DEF WellFormed, Procs

\* The pool starts in order.
LEMMA InitInv == ASSUME WellFormed, Init PROVE Inv
<1> USE Roles DEF Init
<1>1. Types
  <2>1. queue \in [Indices -> Tasks \cup {None}]
    BY DEF Indices
  <2>6. pc \in [Procs -> Labels]
    BY DEF Labels
  <2>2. head \in Indices /\ tail \in Indices /\ count \in 0..Size
    BY DEF WellFormed, Indices
  <2>3. \A s \in Submitters : next[s] = 0 /\ Len(Batch[s]) \in Nat
    BY DEF WellFormed
  <2>4. next \in [Submitters -> Nat] /\ wake \in [Submitters -> Nat]
    OBVIOUS
  <2>7. stopped \in BOOLEAN /\ task \in [Workers -> Tasks \cup {None}]
    BY Zenon
  <2>8. status \in [Tasks -> Statuses]
    BY DEF Statuses
  <2>9. \A s \in Submitters : next[s] <= Len(Batch[s])
    BY <2>3
  <2>5. QED
    BY <2>1, <2>2, <2>4, <2>6, <2>7, <2>8, <2>9 DEF Types
<1>2. Waiting
  BY DEF Waiting, Listed
<1>3. RingInv
  BY DEF WellFormed, RingInv, Behind, Indices
<1>4. FateInv
  <2>1. Taken = {} /\ Running = {}
    BY DEF Taken, Running, Procs
  <2>2. \A i \in Indices : queue[i] = None
    BY DEF Indices
  <2>3. \A s \in Asking : \A i \in next[s] + 1..Len(Batch[s]) : status[Batch[s][i]] = "new"
    BY DEF Asking, WellFormed
  <2>4. QED
    BY <2>1, <2>2, <2>3, Zenon DEF FateInv
<1>5. EndInv
  BY DEF EndInv, Procs
<1>6. QED
  BY <1>1, <1>2, <1>3, <1>4, <1>5 DEF Inv

-----------------------------------------------------------------------------
(* The lists of the condition variables.                                   *)

\* The released goroutines leave the front of a list; those that stay are
\* not among them.
LEMMA ListTail ==
    ASSUME NEW S, NEW list \in Seq(S), NEW n \in 0..Len(list)
    PROVE LET rest == SubSeq(list, n + 1, Len(list)) IN
          /\ rest \in Seq(S) /\ Len(rest) = Len(list) - n
          /\ \A i \in 1..Len(rest) : rest[i] = list[i + n] /\ i + n \in 1..Len(list)
<1> DEFINE rest == SubSeq(list, n + 1, Len(list))
<1>1. Len(list) \in Nat
  OBVIOUS
<1>2. n + 1 \in 1..Len(list) + 1 /\ Len(list) \in n..Len(list)
  BY <1>1
<1>3. rest \in Seq(S) /\ Len(rest) = Len(list) - n
  BY <1>1, <1>2
<1>4. \A i \in 1..Len(rest) : rest[i] = list[i + n] /\ i + n \in 1..Len(list)
  BY <1>1, <1>2, <1>3
<1>5. QED
  BY <1>3, <1>4

-----------------------------------------------------------------------------
(* Types.                                                                  *)

\* The index after another is one.
LEMMA AfterIndex == ASSUME WellFormed, NEW i \in Indices PROVE After(i) \in Indices
BY DEF WellFormed, Indices, After

\* A submitter's step keeps the types.
LEMMA SubmitTypes == ASSUME WellFormed, Types, NEW s \in Submitters, Submit(s) PROVE Types'
<1> USE Roles
<1>1. s \in Procs /\ next[s] \in Nat /\ Len(Batch[s]) \in Nat /\ next[s] <= Len(Batch[s]) /\ wake[s] \in Nat
  BY DEF WellFormed, Types
<1>2. pc' \in [Procs -> Labels]
  <2>1. CASE Park(s)
    BY <2>1 DEF Park, Types, Labels
  <2>2. CASE Signal(s)
    BY <2>2 DEF Signal, Goto, Types, Labels
  <2>3. CASE Enter(s) \/ Unpark(s) \/ Enqueue(s) \/ Release(s) \/ TurnAway(s)
    BY <2>3, SMTT(30) DEF Enter, Unpark, Enqueue, Release, TurnAway, Goto, Types, Labels
  <2>4. QED
    BY <2>1, <2>2, <2>3 DEF Submit
<1>3. wake' \in [Submitters -> Nat]
  <2>1. CASE Signal(s)
    BY <1>1, <2>1 DEF Signal, Types
  <2>2. CASE ~Signal(s)
    BY <1>1, <2>2 DEF Submit, Enter, Park, Unpark, Enqueue, Release, TurnAway, subs, Types
  <2>3. QED
    BY <2>1, <2>2
<1>4. status' \in [Tasks -> Statuses]
  <2>1. CASE Release(s) \/ TurnAway(s)
    BY <2>1 DEF Release, TurnAway, Refused, Types, Statuses
  <2>2. CASE Enqueue(s)
    BY <2>2, Zenon DEF Enqueue, Note, Types, Statuses
  <2>3. CASE Enter(s) \/ Park(s) \/ Unpark(s) \/ Signal(s)
    BY <2>3 DEF Enter, Park, Unpark, Signal, Types
  <2>4. QED
    BY <2>1, <2>2, <2>3 DEF Submit
<1>5. CASE Enqueue(s)
  <2>1. Batch[s][next[s] + 1] \in Tasks /\ next[s] + 1 <= Len(Batch[s])
    BY <1>1, <1>5 DEF WellFormed, Enqueue, Left
  <2>2. queue' \in [Indices -> Tasks \cup {None}] /\ tail' \in Indices
    BY <1>5, <2>1, AfterIndex DEF Enqueue, Types
  <2>3. count' \in 0..Size
    BY <1>5 DEF Enqueue, mayEnqueue, Full, Types, WellFormed
  <2>4. next' \in [Submitters -> Nat] /\ \A u \in Submitters : next'[u] <= Len(Batch[u])
    BY <1>1, <1>5, <2>1 DEF Enqueue, Types
  <2>5. UNCHANGED <<head, stopped, task>>
    BY <1>5 DEF Enqueue
  <2>6. QED
    BY <1>2, <1>3, <1>4, <2>2, <2>3, <2>4, <2>5 DEF Types
<1>6. CASE ~Enqueue(s)
  <2>1. UNCHANGED <<queue, head, tail, count, stopped, task, next>>
    BY <1>6 DEF Submit, Enter, Park, Unpark, Release, TurnAway, Signal, ring, subs
  <2>2. QED
    BY <1>2, <1>3, <1>4, <2>1 DEF Types
<1>7. QED
  BY <1>5, <1>6

\* A worker's step keeps the types.
LEMMA WorkTypes == ASSUME WellFormed, Types, NEW w \in Workers, Work(w) PROVE Types'
<1> USE Roles
<1>1. w \in Procs
  OBVIOUS
<1>2. pc' \in [Procs -> Labels]
  <2>1. CASE Room(w)
    BY <2>1, ZenonT(30) DEF Room, Goto, Types, Labels
  <2>2. CASE ~Room(w)
    BY <2>2 DEF Work, Begin, Wait, Exit, Take, Run, Done, Goto, Types, Labels
  <2>3. QED
    BY <2>1, <2>2
<1>3. UNCHANGED <<stopped, next, wake>>
  BY DEF Work, Begin, Wait, Exit, Take, Room, Run, Done, subs
<1>4. status' \in [Tasks -> Statuses]
  <2>1. CASE Run(w) \/ Done(w)
    BY <2>1 DEF Run, Done, Note, Types, Statuses
  <2>2. CASE Begin(w) \/ Wait(w) \/ Exit(w) \/ Take(w) \/ Room(w)
    BY <2>2 DEF Begin, Wait, Exit, Take, Room, Types
  <2>3. QED
    BY <2>1, <2>2 DEF Work
<1>5. CASE Take(w)
  <2>1. task' \in [Workers -> Tasks \cup {None}] /\ queue' \in [Indices -> Tasks \cup {None}]
    BY <1>5 DEF Take, Types
  <2>2. head' \in Indices /\ tail' \in Indices /\ count' \in 0..Size
    BY <1>5, AfterIndex DEF Take, Types, WellFormed
  <2>3. QED
    BY <1>2, <1>3, <1>4, <2>1, <2>2 DEF Types
<1>6. CASE ~Take(w)
  <2>1. UNCHANGED <<queue, head, tail, count>>
    BY <1>6 DEF Work, Begin, Wait, Exit, Room, Run, Done, ring
  <2>2. task' \in [Workers -> Tasks \cup {None}]
    BY <1>6 DEF Work, Begin, Wait, Exit, Room, Run, Done, Types
  <2>3. QED
    BY <1>2, <1>3, <1>4, <2>1, <2>2 DEF Types
<1>7. QED
  BY <1>5, <1>6

\* So does every step of stop.
LEMMA StopTypes == ASSUME WellFormed, Types, StopBegin \/ Finishing PROVE Types'
<1> USE Roles
<1>1. pc' \in [Procs -> Labels]
  BY DEF StopBegin, Finishing, StopPending, StopReturn, Goto, Types, Labels
<1>2. UNCHANGED <<queue, head, tail, count, task, next, wake, status>> /\ stopped' \in BOOLEAN
  BY Zenon DEF StopBegin, Finishing, StopPending, StopReturn, ring, subs, Types
<1>3. QED
  BY <1>1, <1>2 DEF Types

-----------------------------------------------------------------------------
(* Condition variables.                                                    *)

\* A list stays in order while those on it stay parked.
LEMMA SameList ==
    ASSUME NEW S, NEW at, NEW bt, NEW list, Listed(list, S, at),
           \A x \in S : at[x] = "parked" => bt[x] = "parked"
    PROVE Listed(list, S, bt)
<1>1. \A i \in 1..Len(list) : list[i] \in S
  BY DEF Listed
<1>2. QED
  BY <1>1 DEF Listed

\* Signal and Broadcast: the first n leave.
LEMMA ShorterList ==
    ASSUME NEW S, NEW at, NEW bt, NEW list, Listed(list, S, at), NEW n \in 0..Len(list),
           \A x \in S : at[x] = "parked" /\ (\A i \in 1..n : list[i] # x) => bt[x] = "parked"
    PROVE Listed(SubSeq(list, n + 1, Len(list)), S, bt)
<1> DEFINE rest == SubSeq(list, n + 1, Len(list))
<1>1. list \in Seq(S) /\ Len(list) \in Nat
  BY DEF Listed
<1>2. /\ rest \in Seq(S) /\ Len(rest) = Len(list) - n
      /\ \A i \in 1..Len(rest) : rest[i] = list[i + n] /\ i + n \in 1..Len(list)
  BY <1>1, ListTail
<1>3. ASSUME NEW i \in 1..Len(rest) PROVE bt[rest[i]] = "parked"
  <2>1. rest[i] = list[i + n] /\ i + n \in 1..Len(list) /\ list[i + n] \in S
    BY <1>1, <1>2
  <2>2. \A j \in 1..n : list[j] # list[i + n]
    BY <1>1, <1>2, <2>1 DEF Listed
  <2>3. QED
    BY <2>1, <2>2 DEF Listed
<1>4. ASSUME NEW i \in 1..Len(rest), NEW j \in 1..Len(rest), rest[i] = rest[j] PROVE i = j
  <2>1. list[i + n] = list[j + n] /\ i + n \in 1..Len(list) /\ j + n \in 1..Len(list)
    BY <1>2, <1>4
  <2>2. i + n = j + n
    BY <2>1 DEF Listed
  <2>3. QED
    BY <1>1, <1>2, <2>2
<1>5. QED
  BY <1>2, <1>3, <1>4, SMTT(30) DEF Listed

\* Signal: the first leaves.
LEMMA ListWithoutHead ==
    ASSUME NEW S, NEW at, NEW bt, NEW list, Listed(list, S, at), list # <<>>,
           \A x \in S : at[x] = "parked" /\ x # Head(list) => bt[x] = "parked"
    PROVE Listed(Tail(list), S, bt) /\ Head(list) \in S /\ at[Head(list)] = "parked"
<1>1. list \in Seq(S) /\ Len(list) \in Nat /\ Len(list) > 0 /\ Head(list) = list[1] /\ list[1] \in S
  BY DEF Listed
<1>2. /\ Tail(list) \in Seq(S) /\ Len(Tail(list)) = Len(list) - 1
      /\ \A i \in 1..Len(Tail(list)) : i + 1 \in 1..Len(list) /\ Tail(list)[i] = list[i + 1]
  BY <1>1
<1>3. \A i \in 1..Len(list) : at[list[i]] = "parked" /\ list[i] \in S /\ (list[i] = list[1] => i = 1)
  BY <1>1 DEF Listed
<1>4. \A i \in 1..Len(Tail(list)) : bt[Tail(list)[i]] = "parked"
  BY <1>1, <1>2, <1>3
<1>5. \A i, j \in 1..Len(Tail(list)) : Tail(list)[i] = Tail(list)[j] => i = j
  BY <1>1, <1>2 DEF Listed
<1>6. QED
  BY <1>1, <1>2, <1>3, <1>4, <1>5 DEF Listed

\* Wait: one more parks.
LEMMA LongerList ==
    ASSUME NEW S, NEW at, NEW bt, NEW list, Listed(list, S, at), NEW x \in S,
           at[x] # "parked", bt[x] = "parked", \A y \in S : at[y] = "parked" => bt[y] = "parked"
    PROVE Listed(Append(list, x), S, bt)
<1> DEFINE more == Append(list, x)
<1>1. list \in Seq(S) /\ Len(list) \in Nat
  BY DEF Listed
<1>2. /\ more \in Seq(S) /\ Len(more) = Len(list) + 1 /\ more[Len(list) + 1] = x
      /\ \A i \in 1..Len(list) : more[i] = list[i]
  BY <1>1
<1>3. \A i \in 1..Len(list) : list[i] \in S /\ list[i] # x /\ bt[list[i]] = "parked"
  BY <1>1 DEF Listed
<1>4. ASSUME NEW i \in 1..Len(more) PROVE bt[more[i]] = "parked"
  BY <1>1, <1>2, <1>3
<1>5. ASSUME NEW i \in 1..Len(more), NEW j \in 1..Len(more), more[i] = more[j] PROVE i = j
  <2>1. CASE i <= Len(list) /\ j <= Len(list)
    BY <1>1, <1>2, <1>5, <2>1 DEF Listed
  <2>2. CASE ~(i <= Len(list) /\ j <= Len(list))
    BY <1>1, <1>2, <1>3, <1>5, <2>2, SMTT(30)
  <2>3. QED
    BY <2>1, <2>2
<1>6. QED
  BY <1>2, <1>4, <1>5 DEF Listed

\* A submitter's step leaves the lists in order.
LEMMA SubmitWaiting == ASSUME WellFormed, Types, Waiting, NEW s \in Submitters, Submit(s) PROVE Waiting'
<1> USE Roles
<1>1. CASE Park(s)
  <2> DEFINE n == IF Owed(s) <= Len(notEmpty) THEN Owed(s) ELSE Len(notEmpty)
  <2>1. n \in 0..Len(notEmpty)
    BY DEF Types, Owed, Waiting, Listed
  <2>2. \A w \in Workers : pc[w] = "parked" /\ (\A i \in 1..n : notEmpty[i] # w) => pc'[w] = "parked"
    BY <1>1 DEF Park
  <2>3. notEmpty' = SubSeq(notEmpty, n + 1, Len(notEmpty))
    BY <1>1 DEF Park
  <2>4. Listed(notEmpty', Workers, pc')
    BY <2>1, <2>2, <2>3, ShorterList, Zenon DEF Waiting
  <2>5. \A i \in 1..n : notEmpty[i] \in Workers
    BY <2>1 DEF Waiting, Listed
  <2>6. pc[s] = "each" /\ pc'[s] = "parked" /\ notFull' = Append(notFull, s)
    BY <1>1 DEF Park
  <2>7. \A u \in Submitters : pc[u] = "parked" => pc'[u] = "parked"
    BY <1>1, <2>5 DEF Park
  <2>8. Listed(notFull', Submitters, pc')
    BY <2>6, <2>7, LongerList DEF Waiting
  <2>9. QED
    BY <2>4, <2>8 DEF Waiting
<1>2. CASE Signal(s) /\ notEmpty' # notEmpty
  <2>1. notEmpty # <<>> /\ pc' = [pc EXCEPT ![Head(notEmpty)] = "woken"] /\ notEmpty' = Tail(notEmpty)
    BY <1>2 DEF Signal, Goto
  <2>2. \A x \in Workers : pc[x] = "parked" /\ x # Head(notEmpty) => pc'[x] = "parked"
    BY <2>1 DEF Types
  <2>3. Listed(Tail(notEmpty), Workers, pc') /\ Head(notEmpty) \in Workers
    BY <2>1, <2>2, ListWithoutHead, Zenon DEF Waiting
  <2>4. \A u \in Submitters : pc[u] = "parked" => pc'[u] = "parked"
    BY <2>1, <2>3 DEF Types
  <2>5. notFull' = notFull /\ Listed(notFull, Submitters, pc')
    BY <1>2, <2>4, SameList DEF Waiting, Signal
  <2>6. QED
    BY <2>1, <2>3, <2>5 DEF Waiting
<1>3. CASE ~Park(s) /\ notEmpty' = notEmpty
  <2>1. notFull' = notFull
    BY <1>3 DEF Submit, Enter, Unpark, Enqueue, Release, TurnAway, Signal, conds
  <2>2. \A p \in Procs : pc[p] = "parked" => pc'[p] = "parked"
    <3>1. CASE Signal(s) /\ pc' # pc
      <4>1. CASE wake[s] = 0
        BY <3>1, <4>1 DEF Signal, Goto, Types
      <4>2. CASE wake[s] # 0
        <5>1. notEmpty # <<>>
          BY <3>1, <4>2 DEF Signal
        <5>2. Len(Tail(notEmpty)) = Len(notEmpty) - 1 /\ Len(notEmpty) \in Nat
          BY <5>1 DEF Waiting, Listed
        <5>3. notEmpty' = Tail(notEmpty)
          BY <3>1, <4>2, <5>1 DEF Signal
        <5>4. Len(notEmpty) = Len(Tail(notEmpty))
          BY <1>3, <5>3, Zenon
        <5>5. QED
          BY <5>2, <5>4
      <4>3. QED
        BY <4>1, <4>2
    <3>2. CASE ~(Signal(s) /\ pc' # pc)
      BY <1>3, <3>2 DEF Submit, Enter, Unpark, Enqueue, Release, TurnAway, Goto, Types
    <3>3. QED
      BY <3>1, <3>2
  <2>3. QED
    BY <1>3, <2>1, <2>2, SameList DEF Waiting
<1>4. QED
  BY <1>1, <1>2, <1>3 DEF Submit, Enter, Unpark, Enqueue, Release, TurnAway, conds

\* A worker's step leaves the lists in order.
LEMMA WorkWaiting == ASSUME WellFormed, Types, Waiting, NEW w \in Workers, Work(w) PROVE Waiting'
<1> USE Roles
<1>1. CASE Wait(w)
  <2>1. pc[w] = "look" /\ pc' = [pc EXCEPT ![w] = "parked"] /\ notEmpty' = Append(notEmpty, w) /\ notFull' = notFull
    BY <1>1 DEF Wait, Goto
  <2>2. pc'[w] = "parked" /\ \A p \in Procs : pc[p] = "parked" => pc'[p] = "parked"
    BY <2>1 DEF Types
  <2>3. Listed(notEmpty', Workers, pc')
    BY <2>1, <2>2, LongerList, Zenon DEF Waiting
  <2>4. QED
    BY <2>1, <2>2, <2>3, SameList, Zenon DEF Waiting
<1>2. CASE Room(w) /\ notFull # <<>>
  <2>1. /\ pc[w] = "room" /\ pc' = [pc EXCEPT ![w] = "run", ![Head(notFull)] = "woken"]
        /\ notFull' = Tail(notFull) /\ notEmpty' = notEmpty
    BY <1>2 DEF Room
  <2>2. \A x \in Submitters : pc[x] = "parked" /\ x # Head(notFull) => pc'[x] = "parked"
    BY <2>1 DEF Types
  <2>3. Listed(Tail(notFull), Submitters, pc') /\ Head(notFull) \in Submitters
    BY <1>2, <2>2, ListWithoutHead DEF Waiting
  <2>4. \A x \in Workers : pc[x] = "parked" => pc'[x] = "parked"
    BY <2>1, <2>3 DEF Types
  <2>5. QED
    BY <2>1, <2>3, <2>4, SameList, ZenonT(30) DEF Waiting
<1>3. CASE ~Wait(w) /\ ~(Room(w) /\ notFull # <<>>)
  <2>1. UNCHANGED <<notEmpty, notFull>>
    BY <1>3 DEF Work, Begin, Exit, Take, Room, Run, Done, conds
  <2>2. \A p \in Procs : pc[p] = "parked" => pc'[p] = "parked"
    BY <1>3 DEF Work, Begin, Exit, Take, Room, Run, Done, Goto, Types
  <2>3. QED
    BY <2>1, <2>2, SameList DEF Waiting
<1>4. QED
  BY <1>1, <1>2, <1>3

\* So does every step of stop.
LEMMA StopWaiting == ASSUME WellFormed, Types, Waiting, StopBegin \/ Finishing PROVE Waiting'
<1> USE Roles
<1>1. \A S, at : Listed(<<>>, S, at)
  BY DEF Listed
<1>2. CASE StopBegin
  BY <1>1, <1>2 DEF StopBegin, Waiting
<1>3. CASE StopPending
  <2>1. \A x \in Submitters : pc[x] = "parked" => pc'[x] = "parked"
    BY <1>3 DEF StopPending, Broadcast, Waiting, Listed
  <2>2. QED
    BY <1>1, <1>3, <2>1, SameList DEF StopPending, Waiting
<1>4. CASE StopReturn
  <2>1. UNCHANGED <<notEmpty, notFull>> /\ \A p \in Procs : pc[p] = "parked" => pc'[p] = "parked"
    BY <1>4 DEF StopReturn, Goto, conds, Types
  <2>2. QED
    BY <2>1, SameList DEF Waiting
<1>5. QED
  BY <1>2, <1>3, <1>4 DEF Finishing
=============================================================================
