--------------------------- MODULE CondPoolProofs ---------------------------
(***************************************************************************)
(* CondPool keeps what TaskPool promises, for any number of workers,       *)
(* submitters and tasks and any length of the ring.                        *)
(***************************************************************************)
EXTENDS CondPoolFates, TLAPS

(* The end.                                                                *)

\* Only stop moves the goroutine that calls it, and workers leave in the end only.
LEMMA SubmitEnd ==
    ASSUME WellFormed, Types, Waiting, EndInv, NEW s \in Submitters, Submit(s)
    PROVE EndInv'
<1> USE Roles
<1>1. stopped' = stopped
  BY DEF Submit, Enter, Park, Unpark, Enqueue, Release, TurnAway, Signal
<1>2. count' = count \/ (~stopped /\ Enqueue(s))
  BY DEF Submit, Enter, Park, Unpark, Enqueue, mayEnqueue, Release, TurnAway, Signal, ring
<1>3. pc'[Stopper] = pc[Stopper] /\ \A w \in Workers : pc'[w] = "exited" => pc[w] = "exited"
  <2>1. CASE Park(s)
    <3>1. \A i \in 1..Len(notEmpty) : notEmpty[i] \in Workers
      BY DEF Waiting, Listed
    <3>2. \A i \in 1..(IF Owed(s) <= Len(notEmpty) THEN Owed(s) ELSE Len(notEmpty)) : notEmpty[i] \in Workers
      BY <3>1 DEF Owed, Types, Waiting, Listed
    <3>3. QED
      BY <2>1, <3>2 DEF Park
  <2>2. CASE Signal(s) /\ notEmpty # <<>>
    <3>1. Head(notEmpty) \in Workers
      BY <2>2 DEF Waiting, Listed
    <3>2. pc' = pc \/ pc' = [pc EXCEPT ![Head(notEmpty)] = "woken"] \/ pc' = [pc EXCEPT ![s] = "returned"]
      BY <2>2 DEF Signal, Goto
    <3>3. QED
      BY <3>1, <3>2 DEF Types
  <2>3. CASE ~Park(s) /\ ~(Signal(s) /\ notEmpty # <<>>)
    BY <2>3 DEF Submit, Enter, Unpark, Enqueue, Release, TurnAway, Signal, Goto, Types
  <2>4. QED
    BY <2>1, <2>2, <2>3
<1>4. QED
  BY <1>1, <1>2, <1>3 DEF EndInv

\* A worker leaves a stopped pool when nothing is queued.
LEMMA WorkEnd ==
    ASSUME WellFormed, Types, Waiting, EndInv, NEW w \in Workers, Work(w)
    PROVE EndInv'
<1> USE Roles
<1>1. stopped' = stopped
  BY DEF Work, Begin, Wait, Exit, Take, Room, Run, Done
<1>2. pc'[Stopper] = pc[Stopper] /\ \A v \in Workers : pc'[v] = "exited" => pc[v] = "exited" \/ Exit(w)
  <2>1. CASE Room(w) /\ notFull # <<>>
    <3>1. Head(notFull) \in Submitters
      BY <2>1 DEF Waiting, Listed
    <3>2. pc' = [pc EXCEPT ![w] = "run", ![Head(notFull)] = "woken"]
      BY <2>1 DEF Room
    <3>3. QED
      BY <3>1, <3>2 DEF Types
  <2>2. CASE ~(Room(w) /\ notFull # <<>>)
    BY <2>2 DEF Work, Begin, Wait, Take, Room, Run, Done, Exit, Goto, Types
  <2>3. QED
    BY <2>1, <2>2
<1>3. CASE Exit(w)
  BY <1>1, <1>2, <1>3 DEF Exit, mayExit, ring, EndInv
<1>4. CASE Take(w)
  BY <1>1, <1>2, <1>4 DEF Take, Exit, mayExit, EndInv, Types
<1>5. CASE ~Exit(w) /\ ~Take(w)
  <2>1. count' = count
    BY <1>5 DEF Work, Begin, Wait, Room, Run, Done, ring
  <2>2. QED
    BY <1>1, <1>2, <1>5, <2>1 DEF EndInv
<1>6. QED
  BY <1>3, <1>4, <1>5

\* A step of stop.
LEMMA StopEnd ==
    ASSUME WellFormed, Types, Waiting, EndInv, StopBegin \/ Finishing
    PROVE EndInv'
<1> USE Roles
<1>1. count' = count
  BY DEF StopBegin, Finishing, StopPending, StopReturn, ring
<1>2. \A v \in Workers : pc'[v] = "exited" => pc[v] = "exited"
  <2>1. CASE StopBegin
    BY <2>1 DEF StopBegin
  <2>2. CASE StopPending
    BY <2>2 DEF StopPending
  <2>3. CASE StopReturn
    BY <2>3 DEF StopReturn, Goto, Types
  <2>4. QED
    BY <2>1, <2>2, <2>3 DEF Finishing
<1>3. stopped' /\ pc'[Stopper] # "begin"
  <2>1. CASE StopBegin
    BY <2>1 DEF StopBegin
  <2>2. CASE StopPending
    BY <2>2 DEF StopPending, EndInv
  <2>3. CASE StopReturn
    BY <2>3 DEF StopReturn, Goto, Types, EndInv
  <2>4. QED
    BY <2>1, <2>2, <2>3 DEF Finishing
<1>4. QED
  BY <1>1, <1>2, <1>3 DEF EndInv

-----------------------------------------------------------------------------
(* The invariant and the promise.                                          *)

\* Every step keeps the invariant.
LEMMA NextInv == ASSUME WellFormed, Inv, [Next]_vars PROVE Inv'
<1>1. ASSUME NEW s \in Submitters, Submit(s) PROVE Inv'
  <2>1. RingInv'
    <3>1. CASE Enqueue(s)
      BY <3>1, EnqueueRing DEF Inv
    <3>2. CASE ~Enqueue(s)
      <4>1. UNCHANGED <<queue, head, tail, count>>
        BY <1>1, <3>2 DEF Submit, Enter, Park, Unpark, Release, TurnAway, Signal, ring
      <4>2. QED
        BY <4>1 DEF Inv, RingInv, Behind
    <3>3. QED
      BY <3>1, <3>2
  <2>2. QED
    BY <1>1, <2>1, SubmitTypes, SubmitWaiting, SubmitFates, SubmitEnd DEF Inv
<1>2. ASSUME NEW w \in Workers, Work(w) PROVE Inv'
  <2>1. RingInv'
    <3>1. CASE Take(w)
      BY <3>1, TakeRing DEF Inv
    <3>2. CASE ~Take(w)
      <4>1. UNCHANGED <<queue, head, tail, count>>
        BY <1>2, <3>2 DEF Work, Begin, Wait, Exit, Room, Run, Done, ring
      <4>2. QED
        BY <4>1 DEF Inv, RingInv, Behind
    <3>3. QED
      BY <3>1, <3>2
  <2>2. QED
    BY <1>2, <2>1, WorkTypes, WorkWaiting, WorkFates, WorkEnd DEF Inv
<1>3. CASE StopBegin \/ Finishing
  <2>1. UNCHANGED <<queue, head, tail, count>>
    BY <1>3 DEF StopBegin, Finishing, StopPending, StopReturn, ring
  <2>2. RingInv'
    BY <2>1 DEF Inv, RingInv, Behind
  <2>3. QED
    BY <1>3, <2>2, StopTypes, StopWaiting, StopFates, StopEnd DEF Inv
<1>4. CASE UNCHANGED vars
  BY <1>4 DEF vars, ring, conds, subs, Inv, Types, Waiting, RingInv, Behind, FateInv, EndInv, Taken, Running, Asking
<1>5. QED
  BY <1>1, <1>2, <1>3, <1>4 DEF Next, Over

\* The stages of TaskPool, as stop goes through them.
Stage == IF ~stopped THEN "open" ELSE IF pc[Stopper] = "returned" THEN "stopped" ELSE "stopping"

Promise == INSTANCE TaskPool WITH stage <- Stage

\* Nothing is queued or running once every worker has left.
LEMMA AllLeft ==
    ASSUME WellFormed, Inv, \A w \in Workers : pc[w] = "exited"
    PROVE \A t \in Tasks : status[t] \notin {"queued", "running"}
<1>1. Taken = {} /\ Running = {}
  BY DEF Taken, Running
<1>2. count = 0
  BY DEF WellFormed, Inv, EndInv
<1>3. \A i \in Indices : queue[i] = None
  <2>1. ASSUME NEW i \in Indices PROVE ~(Behind(i) < count)
    BY <1>2 DEF WellFormed, Inv, Types, Indices, Behind
  <2>2. QED
    BY <2>1 DEF Inv, RingInv
<1>4. QED
  BY <1>1, <1>3 DEF Inv, FateInv, WellFormed

\* Every step is one of the promise, or changes nothing that it speaks of.
LEMMA StepRefines == ASSUME WellFormed, Inv, [Next]_vars PROVE [Promise!Next]_(Promise!pool)
<1> USE Roles
<1>1. ASSUME NEW s \in Submitters, Submit(s) PROVE [Promise!Next]_(Promise!pool)
  <2>1. Stage' = Stage
    <3>1. stopped' = stopped
      BY <1>1 DEF Submit, Enter, Park, Unpark, Enqueue, Release, TurnAway, Signal
    <3>2. EndInv /\ EndInv' /\ Types /\ Waiting
      BY <1>1, SubmitEnd DEF Inv
    <3>3. pc'[Stopper] = pc[Stopper]
      <4>1. CASE Park(s)
        <5>1. \A i \in 1..(IF Owed(s) <= Len(notEmpty) THEN Owed(s) ELSE Len(notEmpty)) : notEmpty[i] \in Workers
          BY <3>2 DEF Owed, Types, Waiting, Listed
        <5>2. QED
          BY <4>1, <5>1, SMTT(30) DEF Park
      <4>2. CASE Signal(s) /\ notEmpty # <<>>
        <5>1. Head(notEmpty) \in Workers
          BY <3>2, <4>2 DEF Waiting, Listed
        <5>2. pc' = pc \/ pc' = [pc EXCEPT ![Head(notEmpty)] = "woken"] \/ pc' = [pc EXCEPT ![s] = "returned"]
          BY <4>2, SMTT(30) DEF Signal, Goto
        <5>3. QED
          BY <3>2, <5>1, <5>2 DEF Types
      <4>3. CASE ~Park(s) /\ ~(Signal(s) /\ notEmpty # <<>>)
        BY <1>1, <3>2, <4>3 DEF Submit, Enter, Unpark, Enqueue, Release, TurnAway, Signal, Goto, Types
      <4>4. QED
        BY <4>1, <4>2, <4>3
    <3>4. QED
      BY <3>1, <3>3 DEF Stage
  <2>2. CASE Enqueue(s)
    <3> DEFINE t == Batch[s][next[s] + 1]
    <3>1. /\ t \in Tasks /\ s \in Asking /\ next[s] + 1 \in next[s] + 1..Len(Batch[s])
      BY <2>2, SMTT(30) DEF Enqueue, Left, Asking, WellFormed, Inv, Types
    <3>2. status[t] = "new" /\ status' = [status EXCEPT ![t] = "queued"] /\ Stage = "open"
      BY <2>2, <3>1 DEF Enqueue, Note, mayEnqueue, Stage, Inv, FateInv
    <3>3. Promise!Accept(t)
      BY <2>1, <3>2 DEF Promise!Accept, Promise!Moves
    <3>4. QED
      BY <3>1, <3>3, SMTT(30) DEF Promise!Next
  <2>3. CASE Release(s) \/ TurnAway(s)
    <3>1. s \in Asking /\ Refused(s) /\ status \in [Tasks -> Statuses]
      BY <2>3 DEF Release, TurnAway, Asking, Inv, Types
    <3>2. Rest(s) \subseteq Tasks /\ \A t \in Rest(s) : status[t] = "new"
      BY <3>1, RestIsNew DEF Inv
    <3>3. CASE stopped
      <4>1. Stage # "open"
        BY <3>3 DEF Stage
      <4>2. Promise!Refuse(Rest(s))
        BY <2>1, <3>1, <3>2, <4>1 DEF Promise!Refuse, Refused
      <4>3. QED
        BY <3>2, <4>2 DEF Promise!Next
    <3>4. CASE ~stopped
      <4>1. Left(s) = 0
        BY <2>3, <3>4 DEF Release, TurnAway
      <4>2. Rest(s) = {}
        BY <4>1 DEF Rest, Left, WellFormed, Inv, Types
      <4>3. status' = status
        BY <3>1, <4>2 DEF Refused
      <4>4. QED
        BY <2>1, <4>3 DEF Promise!pool
    <3>5. QED
      BY <3>3, <3>4
  <2>4. CASE Enter(s) \/ Park(s) \/ Unpark(s) \/ Signal(s)
    BY <2>1, <2>4 DEF Enter, Park, Unpark, Signal, Promise!pool
  <2>5. QED
    BY <1>1, <2>2, <2>3, <2>4 DEF Submit
<1>2. ASSUME NEW w \in Workers, Work(w) PROVE [Promise!Next]_(Promise!pool)
  <2>1. Stage' = Stage
    <3>1. stopped' = stopped
      BY <1>2 DEF Work, Begin, Wait, Exit, Take, Room, Run, Done
    <3>2. pc'[Stopper] = pc[Stopper]
      <4>1. CASE Room(w) /\ notFull # <<>>
        <5>1. Head(notFull) \in Submitters
          BY <4>1 DEF Inv, Waiting, Listed
        <5>2. pc' = [pc EXCEPT ![w] = "run", ![Head(notFull)] = "woken"]
          BY <4>1 DEF Room
        <5>3. QED
          BY <5>1, <5>2 DEF Inv, Types
      <4>2. CASE ~(Room(w) /\ notFull # <<>>)
        BY <1>2, <4>2 DEF Work, Begin, Wait, Take, Room, Run, Done, Exit, Goto, Inv, Types
      <4>3. QED
        BY <4>1, <4>2
    <3>3. QED
      BY <3>1, <3>2 DEF Stage
  <2>2. CASE Run(w)
    <3>1. task[w] \in Tasks /\ status[task[w]] = "queued"
      BY <2>2, RunFates DEF Inv
    <3>2. Promise!Start(task[w])
      BY <2>1, <2>2, <3>1 DEF Run, Note, Promise!Start, Promise!Moves
    <3>3. QED
      BY <3>1, <3>2 DEF Promise!Next
  <2>3. CASE Done(w)
    <3>1. task[w] \in Tasks /\ status[task[w]] = "running"
      BY <2>3, DoneFates DEF Inv
    <3>2. Promise!Finish(task[w])
      BY <2>1, <2>3, <3>1 DEF Done, Note, Promise!Finish, Promise!Moves
    <3>3. QED
      BY <3>1, <3>2 DEF Promise!Next
  <2>4. CASE Begin(w) \/ Wait(w) \/ Exit(w) \/ Take(w) \/ Room(w)
    BY <2>1, <2>4 DEF Begin, Wait, Exit, Take, Room, Promise!pool
  <2>5. QED
    BY <1>2, <2>2, <2>3, <2>4 DEF Work
<1>3. CASE StopBegin
  <2>1. ~stopped /\ stopped' /\ pc'[Stopper] = "pending" /\ status' = status
    BY <1>3 DEF StopBegin, Inv, EndInv
  <2>2. Promise!Stop
    BY <2>1 DEF Promise!Stop, Stage
  <2>3. QED
    BY <2>2 DEF Promise!Next
<1>4. CASE StopPending
  <2>1. /\ stopped /\ stopped' = stopped /\ pc[Stopper] = "pending" /\ pc'[Stopper] = "workers"
        /\ status' = status
    BY <1>4 DEF StopPending, Inv, EndInv
  <2>2. QED
    BY <2>1 DEF Stage, Promise!pool
<1>5. CASE StopReturn
  <2>1. /\ stopped /\ stopped' = stopped /\ pc[Stopper] = "workers" /\ pc'[Stopper] = "returned"
        /\ status' = status
    BY <1>5 DEF StopReturn, Goto, Inv, EndInv, Types
  <2>2. \A t \in Tasks : status[t] \notin {"queued", "running"}
    BY <1>5, AllLeft DEF StopReturn
  <2>3. Promise!Stopped
    BY <2>1, <2>2 DEF Promise!Stopped, Stage
  <2>4. QED
    BY <2>3 DEF Promise!Next
<1>6. CASE UNCHANGED vars
  BY <1>6 DEF vars, Stage, Promise!pool
<1>7. QED
  BY <1>1, <1>2, <1>3, <1>4, <1>5, <1>6 DEF Next, Finishing, Over

\* A shard of cond.go keeps the promise of taskpool.go, for any number of workers and
\* submitters and any length of the ring: a task is accepted only before stop, runs
\* once if accepted, is refused only after stop began, and stop returns only
\* when no accepted task is left, in its ring or with a worker.
THEOREM CondPoolKeepsPromise == ASSUME WellFormed PROVE Init /\ [][Next]_vars => Promise!Spec
<1>1. Init => Inv
  BY InitInv
<1>2. Inv /\ [Next]_vars => Inv'
  BY NextInv
<1>3. Init => Promise!Init
  BY Roles DEF Init, Promise!Init, Stage
<1>4. Inv /\ [Next]_vars => [Promise!Next]_(Promise!pool)
  BY StepRefines
<1>5. QED
  BY <1>1, <1>2, <1>3, <1>4, PTL DEF Promise!Spec
=============================================================================
