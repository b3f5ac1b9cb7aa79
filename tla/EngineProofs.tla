---------------------------- MODULE EngineProofs ----------------------------
(***************************************************************************)
(* Proofs about Engine, for every number of connections, workers and       *)
(* application goroutines and every configuration: the scheduled flag is   *)
(* an exact account of who owns a connection's round, so two workers never *)
(* execute the same connection.                                            *)
(***************************************************************************)
EXTENDS Engine, TLAPS

\* The types the argument needs.
SchedTypes ==
    /\ scheduled \in [Conns -> BOOLEAN]
    /\ ready \in [Conns -> Nat] /\ redeliver \in [Conns -> Nat] /\ tasks \in [Conns -> Nat]
    /\ pc \in [Procs -> Labels] /\ ret \in [Procs -> Labels]
    /\ on \in [Procs -> Conns \cup {None}]

\* A worker that gave its connection up (Panic) only has the close left to do.
GivenUp ==
    \A w \in Workers : ret[w] = "idle" => pc[w] \in {"idle", "close", "request"}

\* A worker inside a round is on a connection.
OnConn == \A w \in Workers : pc[w] # "idle" => on[w] \in Conns

SchedInv == SchedTypes /\ GivenUp /\ OnConn /\ Ownership /\ ExclusiveExecution

\* A step that leaves the lists, the flag and who holds what alone.
SameOwners ==
    /\ UNCHANGED <<scheduled, lists, on>>
    /\ \A w \in Workers : (pc[w] # "idle" /\ ret[w] # "idle") <=> (pc'[w] # "idle" /\ ret'[w] # "idle")

\* Such a step keeps the account of ownership.
LEMMA OwnersKept ==
    ASSUME Ownership, ExclusiveExecution, SameOwners
    PROVE  Ownership' /\ ExclusiveExecution'
<1>1. \A w \in Workers, c \in Conns : Holds(w, c)' <=> Holds(w, c)
  BY DEF SameOwners, Holds
<1>2. \A c \in Conns : Listed(c)' = Listed(c)
  BY DEF SameOwners, lists, Listed
<1>3. scheduled' = scheduled
  BY DEF SameOwners
<1>4. Ownership'
  BY <1>1, <1>2, <1>3 DEF Ownership
<1>5. ExclusiveExecution'
  BY <1>1 DEF ExclusiveExecution
<1> QED BY <1>4, <1>5

\* A goroutine moves to label a, to come back to b: a worker in its round stays
\* in it, and one that gave its connection up only finishes the close.
Stays(p, a, b) ==
    p \in Workers =>
        /\ pc[p] # "idle"
        /\ \/ ret[p] = "idle" /\ b = "idle" /\ a \in {"idle", "close", "request"}
           \/ ret[p] # "idle" /\ b # "idle" /\ a # "idle"

\* Such a move keeps the invariant.
LEMMA Jump ==
    ASSUME SchedInv, NEW p \in Procs, NEW a \in Labels, NEW b \in Labels,
           UNCHANGED <<scheduled, lists, on>>,
           pc' = [pc EXCEPT ![p] = a], ret' = [ret EXCEPT ![p] = b],
           Stays(p, a, b)
    PROVE  SchedInv'
<1> USE DEF SchedInv
<1>0. Workers \subseteq Procs
  BY DEF Procs
<1>1. SchedTypes'
  BY DEF SchedTypes, lists
<1>2. SameOwners
  <2> SUFFICES ASSUME NEW w \in Workers
      PROVE (pc[w] # "idle" /\ ret[w] # "idle") <=> (pc'[w] # "idle" /\ ret'[w] # "idle")
    BY DEF SameOwners
  <2> QED BY <1>0 DEF SchedTypes, Stays
<1>3. GivenUp'
  BY <1>0 DEF SchedTypes, Stays, GivenUp
<1>4. OnConn'
  BY <1>0 DEF SchedTypes, Stays, OnConn
<1> QED BY <1>1, <1>2, <1>3, <1>4, OwnersKept

-----------------------------------------------------------------------------
(* Steps of a call in progress.                                            *)

\* closeWithError, request, uncork, flushOutput and the end of SendFile only move
\* their goroutine.
LEMMA StepKeeps ==
    ASSUME SchedInv, NEW p \in Procs, Step(p)
    PROVE  SchedInv'
<1> USE DEF Goto, At, Local
<1>0. /\ pc[p] \in Labels /\ ret[p] \in Labels
      /\ p \in Workers /\ ret[p] = "idle" => pc[p] \in {"idle", "close", "request"}
  BY DEF SchedInv, SchedTypes, GivenUp
<1>r. ret = [ret EXCEPT ![p] = ret[p]]
  BY DEF SchedInv, SchedTypes
<1>h. Home(p) \in Labels /\ (p \in Workers => Home(p) # "idle")
  BY DEF Home, Labels
<1>1. CASE CloseWithError(p)
  <2>1. PICK a \in {"request", ret[p]} : pc' = [pc EXCEPT ![p] = a]
    BY <1>1, Zenon DEF CloseWithError
  <2>2. Stays(p, a, ret[p])
    BY <1>0, <1>1 DEF CloseWithError, Stays
  <2>8. UNCHANGED <<scheduled, lists, on>>
    BY <1>1 DEF CloseWithError, connVars
  <2>9. a \in Labels
    BY <1>0 DEF Labels
  <2>a. ret' = [ret EXCEPT ![p] = ret[p]]
    BY <1>1, <1>r DEF CloseWithError
  <2> QED BY <1>0, <2>8, <2>1, <2>9, <2>2, <2>a, Jump, Zenon
<1>2. CASE Request(p)
  <2>1. Stays(p, ret[p], ret[p])
    BY <1>0, <1>2 DEF Request, Stays
  <2>8. UNCHANGED <<scheduled, lists, on>>
    BY <1>2 DEF Request, connVars
  <2>a. ret' = [ret EXCEPT ![p] = ret[p]]
    BY <1>2, <1>r DEF Request
  <2>b. pc' = [pc EXCEPT ![p] = ret[p]]
    BY <1>2 DEF Request
  <2> QED BY <1>0, <2>8, <2>1, <2>a, <2>b, Jump, Zenon
<1>3. CASE Uncork(p)
  <2>1. PICK a \in {"flush", ret[p]} : pc' = [pc EXCEPT ![p] = a]
    BY <1>3, Zenon DEF Uncork
  <2>2. Stays(p, a, ret[p])
    BY <1>0, <1>3 DEF Uncork, Stays
  <2>8. UNCHANGED <<scheduled, lists, on>>
    BY <1>3 DEF Uncork, connVars
  <2>9. a \in Labels
    BY <1>0 DEF Labels
  <2>a. ret' = [ret EXCEPT ![p] = ret[p]]
    BY <1>3, <1>r DEF Uncork
  <2> QED BY <1>0, <2>8, <2>1, <2>9, <2>2, <2>a, Jump, Zenon
<1>4. CASE FlushOutput(p)
  <2>1. PICK a \in {"write", ret[p]} : pc' = [pc EXCEPT ![p] = a]
    BY <1>4 DEF FlushOutput
  <2>2. Stays(p, a, ret[p])
    BY <1>0, <1>4 DEF FlushOutput, Stays
  <2>8. UNCHANGED <<scheduled, lists, on>>
    BY <1>4 DEF FlushOutput, connVars
  <2>9. a \in Labels
    BY <1>0 DEF Labels
  <2>a. ret' = [ret EXCEPT ![p] = ret[p]]
    BY <1>4, <1>r DEF FlushOutput
  <2> QED BY <1>0, <2>8, <2>1, <2>9, <2>2, <2>a, Jump, Zenon
<1>5. CASE FlushDone(p)
  <2>1. PICK a \in {"close", "request", ret[p]} : pc' = [pc EXCEPT ![p] = a]
    BY <1>5 DEF FlushDone, RequestRefresh
  <2>2. ret' = [ret EXCEPT ![p] = ret[p]]
    BY <1>5, <1>r DEF FlushDone, RequestRefresh
  <2>3. Stays(p, a, ret[p])
    BY <1>0, <1>5 DEF FlushDone, Stays
  <2>8. UNCHANGED <<scheduled, lists, on>>
    BY <1>5 DEF FlushDone, connVars
  <2>9. a \in Labels
    BY <1>0 DEF Labels
  <2> QED BY <1>0, <2>8, <2>1, <2>9, <2>2, <2>3, Jump, Zenon
<1>6. CASE FlushWrite(p)
  <2>1. PICK a \in {"write", "request", ret[p]} : pc' = [pc EXCEPT ![p] = a]
    <3>1. pc = [pc EXCEPT ![p] = "write"]
      BY <1>6, Zenon DEF FlushWrite, SchedInv, SchedTypes
    <3> QED BY <1>6, <3>1, Zenon DEF FlushWrite, RequestRefresh
  <2>2. ret' = [ret EXCEPT ![p] = ret[p]]
    BY <1>6, <1>r, Zenon DEF FlushWrite, RequestRefresh
  <2>3. Stays(p, a, ret[p])
    BY <1>0, <1>6, Zenon DEF FlushWrite, Stays
  <2>8. UNCHANGED <<scheduled, lists, on>>
    BY <1>6, Zenon DEF FlushWrite, connVars
  <2>9. a \in Labels
    BY <1>0 DEF Labels
  <2> QED BY <1>0, <2>8, <2>1, <2>9, <2>2, <2>3, Jump, Zenon
<1>7. CASE FlushError(p)
  <2>1. Stays(p, ret[p], ret[p])
    BY <1>0, <1>7 DEF FlushError, Stays
  <2>8. UNCHANGED <<scheduled, lists, on>>
    BY <1>7 DEF FlushError, connVars
  <2>a. ret' = [ret EXCEPT ![p] = ret[p]]
    BY <1>7, <1>r DEF FlushError
  <2>b. pc' = [pc EXCEPT ![p] = ret[p]]
    BY <1>7 DEF FlushError
  <2> QED BY <1>0, <2>8, <2>1, <2>a, <2>b, Jump, Zenon
<1>8. CASE SendFileReturn(p)
  <2>1. PICK a \in {"close", Home(p)} : pc' = [pc EXCEPT ![p] = a]
    BY <1>8, Zenon DEF SendFileReturn
  <2>2. Stays(p, a, Home(p))
    BY <1>0, <1>8, <1>h DEF SendFileReturn, Stays
  <2>8. UNCHANGED <<scheduled, lists, on>>
    BY <1>8 DEF SendFileReturn, connVars
  <2>9. a \in Labels
    BY <1>0, <1>h DEF Labels
  <2>a. ret' = [ret EXCEPT ![p] = Home(p)]
    BY <1>8 DEF SendFileReturn
  <2> QED BY <1>0, <2>8, <2>1, <2>9, <2>2, <2>a, <1>h, Jump, Zenon
<1> QED BY <1>1, <1>2, <1>3, <1>4, <1>5, <1>6, <1>7, <1>8 DEF Step, Flushing

-----------------------------------------------------------------------------
(* Operations of callbacks and application goroutines.                     *)

\* A panicking callback gives its connection up.
LEMMA PanicKeeps ==
    ASSUME SchedInv, NEW p \in Procs, pc[p] = Home(p), Panic(p), UNCHANGED <<lists, on>>
    PROVE  SchedInv'
<1> DEFINE d == on[p]
<1> USE DEF SchedInv
<1>1. /\ p \in Workers /\ pc[p] = "handler" /\ ret[p] # "idle"
      /\ pc' = [pc EXCEPT ![p] = "close"] /\ ret' = [ret EXCEPT ![p] = "idle"]
      /\ scheduled' = [scheduled EXCEPT ![d] = FALSE]
  BY DEF Panic, Home, Goto, GivenUp
<1>2. d \in Conns /\ Holds(p, d)
  BY <1>1 DEF OnConn, Holds
<1>3. Workers \subseteq Procs
  BY DEF Procs
<1>4. SchedTypes'
  BY <1>1, Zenon DEF SchedTypes, Labels, lists
<1>5. GivenUp' /\ OnConn'
  BY <1>1, <1>2, <1>3 DEF SchedTypes, GivenUp, OnConn
<1>6. \A w \in Workers, c \in Conns : Holds(w, c)' <=> w # p /\ Holds(w, c)
  BY <1>1, <1>3 DEF SchedTypes, Holds
<1>7. \A c \in Conns : Listed(c)' = Listed(c)
  BY DEF lists, Listed
<1>8. ExclusiveExecution'
  BY <1>6 DEF ExclusiveExecution
<1>9. \A w \in Workers : ~Holds(w, d)'
  BY <1>1, <1>2, <1>6 DEF ExclusiveExecution
<1>10. Listed(d) # 1
  BY <1>1, <1>2 DEF Ownership
<1>11. ASSUME NEW c \in Conns
       PROVE  /\ Listed(c)' <= 1
              /\ scheduled'[c] <=> Listed(c)' = 1 \/ \E w \in Workers : Holds(w, c)'
              /\ Listed(c)' = 1 => \A w \in Workers : ~Holds(w, c)'
  <2>1. CASE c = d
    BY <1>1, <1>2, <1>7, <1>9, <1>10, <2>1 DEF Ownership, SchedTypes
  <2>2. CASE c # d
    <3>1. scheduled'[c] = scheduled[c]
      BY <1>1, <2>2 DEF SchedTypes
    <3>2. \A w \in Workers : Holds(w, c)' <=> Holds(w, c)
      BY <1>2, <1>6, <2>2 DEF Holds
    <3> QED BY <1>7, <3>1, <3>2 DEF Ownership
  <2> QED BY <2>1, <2>2
<1>12. Ownership'
  BY <1>11 DEF Ownership
<1> QED BY <1>4, <1>5, <1>8, <1>12

\* Of the operations only a panic touches the scheduled flag.
LEMMA OperateKeeps ==
    ASSUME SchedInv, NEW p \in Procs, Operate(p)
    PROVE  SchedInv'
<1> USE DEF Goto, At
<1>0. /\ pc[p] = Home(p) /\ UNCHANGED <<lists, on>>
      /\ pc[p] \in Labels /\ ret[p] \in Labels
      /\ p \in Workers => pc[p] = "handler" /\ ret[p] # "idle"
  BY DEF Operate, SchedInv, SchedTypes, GivenUp, Home
<1>r. /\ ret = [ret EXCEPT ![p] = ret[p]] /\ pc = [pc EXCEPT ![p] = pc[p]]
  BY DEF SchedInv, SchedTypes
<1>h. Home(p) \in Labels /\ (p \in Workers => Home(p) # "idle")
  BY DEF Home, Labels
<1>1. CASE Panic(p)
  BY <1>0, <1>1, PanicKeeps
<1>2. CASE ~Panic(p)
  <2>1. PICK a \in Labels, b \in Labels :
            /\ a \in {"close", "request", "flush", "uncork", Home(p)} /\ b \in {"sent", Home(p), ret[p]}
            /\ pc' = [pc EXCEPT ![p] = a] /\ ret' = [ret EXCEPT ![p] = b]
    <3> DEFINE To(a, b) == pc' = [pc EXCEPT ![p] = a] /\ ret' = [ret EXCEPT ![p] = b]
    <3>0. /\ {"close", "request", "flush", "uncork", "sent"} \subseteq Labels
          /\ pc[p] = Home(p)
      BY <1>0 DEF Labels
    <3>1. CASE \E k \in config.sendSizes : Send(p, k)
      <4>1. To("close", Home(p)) \/ To("request", Home(p)) \/ To(Home(p), Home(p))
        BY <3>1, Zenon DEF Send, RequestRefresh
      <4> QED BY <1>h, <3>0, <4>1
    <3>2. CASE \E k \in config.sendSizes : SendFile(p, k)
      <4>1. To("flush", "sent") \/ UNCHANGED <<pc, ret>>
        BY <3>2 DEF SendFile, Call
      <4>2. To("flush", "sent") \/ To(Home(p), ret[p])
        BY <1>r, <3>0, <4>1
      <4> QED BY <1>0, <1>h, <3>0, <4>2
    <3>3. CASE Call(p, "uncork", Home(p)) \/ Call(p, "close", Home(p))
      BY <1>h, <3>0, <3>3 DEF Call
    <3>4. CASE CloseAfterSend(p)
      <4>1. To("close", Home(p)) \/ UNCHANGED <<pc, ret>>
        BY <3>4 DEF CloseAfterSend
      <4>2. To("close", Home(p)) \/ To(Home(p), ret[p])
        BY <1>r, <3>0, <4>1
      <4> QED BY <1>0, <1>h, <3>0, <4>2
    <3> QED BY <1>2, <3>1, <3>2, <3>3, <3>4 DEF Operate
  <2>2. scheduled' = scheduled
    BY <1>2, Zenon DEF Operate, Send, SendFile, CloseAfterSend, connVars
  <2>3. Stays(p, a, b)
    BY <1>0, <1>h, <2>1 DEF Stays
  <2> QED BY <1>0, <2>1, <2>2, <2>3, Jump, Zenon
<1> QED BY <1>1, <1>2

-----------------------------------------------------------------------------
(* A worker's round.                                                       *)

\* A worker starts a round: the connection moves from the pool to the worker.
LEMMA TakeTaskKeeps ==
    ASSUME SchedInv, NEW w \in Workers, TakeTask(w)
    PROVE  SchedInv'
<1> USE DEF SchedInv
<1>0. w \in Procs /\ Workers \subseteq Procs
  BY DEF Procs
<1>1. PICK d \in Conns : /\ tasks[d] > 0
                         /\ tasks' = [tasks EXCEPT ![d] = @ - 1]
                         /\ on' = [on EXCEPT ![w] = d]
  BY Zenon DEF TakeTask
<1>2. /\ pc[w] = "idle" /\ pc' = [pc EXCEPT ![w] = "top"] /\ ret' = [ret EXCEPT ![w] = "top"]
      /\ UNCHANGED <<scheduled, ready, redeliver>>
  BY DEF TakeTask, At, Goto, connVars
<1>3. SchedTypes'
  <2>1. tasks' \in [Conns -> Nat]
    BY <1>1 DEF SchedTypes
  <2> QED BY <1>0, <1>1, <1>2, <2>1 DEF SchedTypes, Labels
<1>4. GivenUp' /\ OnConn'
  BY <1>0, <1>1, <1>2 DEF SchedTypes, GivenUp, OnConn
<1>5. \A v \in Workers, c \in Conns : Holds(v, c)' <=> (v = w /\ c = d) \/ Holds(v, c)
  BY <1>0, <1>1, <1>2 DEF SchedTypes, Holds
<1>6. \A c \in Conns : /\ Listed(c) \in Nat
                       /\ Listed(c)' = IF c = d THEN Listed(c) - 1 ELSE Listed(c)
  BY <1>1, <1>2 DEF SchedTypes, Listed
<1>7. Listed(d) = 1 /\ \A v \in Workers : ~Holds(v, d)
  <2>1. Listed(d) >= 1
    BY <1>1 DEF SchedTypes, Listed
  <2> QED BY <1>6, <2>1 DEF Ownership
<1>8. ExclusiveExecution'
  BY <1>5, <1>7 DEF ExclusiveExecution
<1>9. ASSUME NEW c \in Conns
      PROVE  /\ Listed(c)' <= 1
             /\ scheduled'[c] <=> Listed(c)' = 1 \/ \E v \in Workers : Holds(v, c)'
             /\ Listed(c)' = 1 => \A v \in Workers : ~Holds(v, c)'
  <2>1. CASE c = d
    <3>1. Listed(c)' = 0
      BY <1>6, <1>7, <2>1
    <3>2. scheduled'[c] /\ Holds(w, c)'
      BY <1>2, <1>5, <1>7, <2>1 DEF Ownership
    <3> QED BY <3>1, <3>2
  <2>2. CASE c # d
    <3>1. Listed(c)' = Listed(c) /\ \A v \in Workers : Holds(v, c)' <=> Holds(v, c)
      BY <1>5, <1>6, <2>2
    <3> QED BY <1>2, <3>1 DEF Ownership
  <2> QED BY <2>1, <2>2
<1>10. Ownership'
  BY <1>9 DEF Ownership
<1> QED BY <1>3, <1>4, <1>8, <1>10

\* The head of the round's loop: it keeps the connection, or gives it up and
\* clears the flag in the same critical section.
LEMMA TopKeeps ==
    ASSUME SchedInv, NEW w \in Workers, Top(w)
    PROVE  SchedInv'
<1> USE DEF SchedInv
<1>0. w \in Procs /\ Workers \subseteq Procs
  BY DEF Procs
<1>1. PICK d \in Conns : pc[w] = "top" /\ ret[w] # "idle" /\ d = on[w]
  BY DEF Top, At, GivenUp, OnConn
<1> DEFINE stop == Gathered(d, proc[w].deferred) = proc[w].deferred
<1>2. /\ UNCHANGED lists
      /\ scheduled' = [scheduled EXCEPT ![d] = ~stop]
      /\ on' = [on EXCEPT ![w] = IF stop THEN None ELSE d]
      /\ ret' = [ret EXCEPT ![w] = IF stop THEN "idle" ELSE "top"]
      /\ pc' = [pc EXCEPT ![w] = IF stop THEN "idle" ELSE IF Usable(d) THEN "out" ELSE "end"]
  BY <1>1 DEF Top, Goto
<1>3. Holds(w, d) /\ scheduled[d] /\ Listed(d) # 1
  BY <1>1 DEF Holds, Ownership
<1> HIDE DEF stop
<1>4. CASE stop
  <2>1. /\ scheduled' = [scheduled EXCEPT ![d] = FALSE] /\ on' = [on EXCEPT ![w] = None]
        /\ ret' = [ret EXCEPT ![w] = "idle"] /\ pc' = [pc EXCEPT ![w] = "idle"]
    BY <1>2, <1>4, Zenon
  <2>2. SchedTypes'
    BY <1>0, <1>1, <1>2, <2>1 DEF SchedTypes, Labels, lists
  <2>3. GivenUp' /\ OnConn'
    BY <1>0, <2>1 DEF SchedTypes, GivenUp, OnConn
  <2>4. \A v \in Workers, c \in Conns : Holds(v, c)' <=> v # w /\ Holds(v, c)
    BY <1>0, <2>1 DEF SchedTypes, Holds
  <2>5. \A c \in Conns : Listed(c)' = Listed(c)
    BY <1>2 DEF lists, Listed
  <2>6. ExclusiveExecution'
    BY <2>4 DEF ExclusiveExecution
  <2>7. \A v \in Workers : ~Holds(v, d)'
    BY <1>1, <1>3, <2>4 DEF ExclusiveExecution
  <2>8. ASSUME NEW c \in Conns
        PROVE  /\ Listed(c)' <= 1
               /\ scheduled'[c] <=> Listed(c)' = 1 \/ \E v \in Workers : Holds(v, c)'
               /\ Listed(c)' = 1 => \A v \in Workers : ~Holds(v, c)'
    <3>1. CASE c = d
      BY <1>1, <1>3, <2>1, <2>5, <2>7, <3>1 DEF Ownership, SchedTypes
    <3>2. CASE c # d
      <4>1. scheduled'[c] = scheduled[c] /\ ~Holds(w, c)
        BY <1>3, <2>1, <3>2 DEF SchedTypes, Holds
      <4>2. \A v \in Workers : Holds(v, c)' <=> Holds(v, c)
        BY <2>4, <4>1
      <4> QED BY <2>5, <4>1, <4>2 DEF Ownership
    <3> QED BY <3>1, <3>2
  <2>9. Ownership'
    BY <2>8 DEF Ownership
  <2> QED BY <2>2, <2>3, <2>6, <2>9
<1>5. CASE ~stop
  <2>1. scheduled' = scheduled /\ on' = on
    BY <1>0, <1>1, <1>2, <1>3, <1>5, Zenon DEF SchedTypes
  <2>2. PICK a \in {"out", "end"} : pc' = [pc EXCEPT ![w] = a]
    BY <1>2, <1>5, Zenon
  <2>3. ret' = [ret EXCEPT ![w] = "top"]
    BY <1>2, <1>5
  <2>4. Stays(w, a, "top")
    BY <1>1, <2>2 DEF Stays
  <2>5. a \in Labels /\ "top" \in Labels
    BY <2>2 DEF Labels
  <2> QED BY <1>0, <1>2, <2>1, <2>2, <2>3, <2>4, <2>5, Jump, Zenon
<1> QED BY <1>4, <1>5

\* The other steps of a round move the worker from label to label inside it.
LEMMA RoundKeeps ==
    ASSUME SchedInv, NEW w \in Workers, Round(w)
    PROVE  SchedInv'
<1> DEFINE Inner == {"pri", "in", "drain", "read", "handler", "mark", "marked", "finish", "end",
                     "uncork", "flush", "close", "request", "top"}
           Moves(a, b) == pc' = [pc EXCEPT ![w] = a] /\ ret' = [ret EXCEPT ![w] = b]
<1>0. w \in Procs /\ Inner \subseteq Labels /\ "idle" \notin Inner
  BY DEF Procs, Labels
<1>1. CASE TakeTask(w)
  BY <1>1, TakeTaskKeeps
<1>2. CASE Top(w)
  BY <1>2, TopKeeps
<1>3. CASE \/ Out(w) \/ Pri(w) \/ In(w) \/ Drain(w) \/ Read(w) \/ HandlerReturn(w)
           \/ Mark(w) \/ Marked(w) \/ Finish(w) \/ End(w)
  <2> USE DEF At, Goto, Local, Call, ReadOn
  <2>1. pc[w] \notin {"idle", "close", "request"} /\ UNCHANGED <<scheduled, lists, on>>
    BY <1>3, Zenon DEF Out, Pri, In, Drain, Read, HandlerReturn, Mark, Marked, Finish, End,
                connVars
  <2>2. ret[w] # "idle" /\ ret[w] \in Labels /\ ret = [ret EXCEPT ![w] = ret[w]]
    BY <1>0, <2>1 DEF SchedInv, SchedTypes, GivenUp
  <2>3. \E a \in Inner : \E b \in Inner \cup {ret[w]} : Moves(a, b)
    <3>1. CASE Out(w)
      <4>1. Moves("flush", "pri") \/ Moves("pri", ret[w])
        BY <2>2, <3>1, Zenon DEF Out
      <4> QED BY <4>1
    <3>2. CASE Pri(w)
      <4>1. Moves("end", ret[w]) \/ Moves("handler", ret[w]) \/ Moves("in", ret[w])
        BY <2>2, <3>2, Zenon DEF Pri
      <4> QED BY <4>1
    <3>3. CASE In(w)
      <4>1. Moves("drain", ret[w]) \/ Moves("end", ret[w])
        BY <2>2, <3>3, Zenon DEF In
      <4> QED BY <4>1
    <3>4. CASE Drain(w)
      <4>1. Moves("read", ret[w])
        BY <2>2, <3>4, Zenon DEF Drain
      <4> QED BY <4>1
    <3>5. CASE Read(w)
      <4>1. Moves("handler", ret[w]) \/ Moves("finish", ret[w])
        BY <2>2, <3>5, Zenon DEF Read
      <4> QED BY <4>1
    <3>6. CASE HandlerReturn(w)
      <4>1. Moves("pri", ret[w]) \/ Moves("mark", ret[w])
        BY <2>2, <3>6, Zenon DEF HandlerReturn
      <4> QED BY <4>1
    <3>7. CASE Mark(w)
      <4>1. Moves("uncork", "marked") \/ Moves("finish", ret[w]) \/ Moves("read", ret[w])
        BY <2>2, <3>7, Zenon DEF Mark
      <4> QED BY <4>1
    <3>8. CASE Marked(w)
      <4>1. \/ Moves("request", "finish")
            \/ Moves("finish", ret[w]) \/ Moves("read", ret[w])
        BY <2>2, <3>8, Zenon DEF Marked, RequestRefresh
      <4> QED BY <4>1
    <3>9. CASE Finish(w)
      <4>1. Moves("flush", "end") \/ Moves("end", "end")
        BY <3>9, Zenon DEF Finish
      <4> QED BY <4>1
    <3>10. CASE End(w)
      <4>1. Moves("close", "top") \/ Moves("top", "top")
        BY <3>10, Zenon DEF End
      <4> QED BY <4>1
    <3> QED BY <1>3, <3>1, <3>2, <3>3, <3>4, <3>5, <3>6, <3>7, <3>8, <3>9, <3>10, Zenon
  <2>4. PICK a \in Labels, b \in Labels : a # "idle" /\ b # "idle" /\ Moves(a, b)
    BY <1>0, <2>2, <2>3, Zenon
  <2>5. Stays(w, a, b)
    BY <2>1, <2>2, <2>4 DEF Stays
  <2> QED BY <1>0, <2>1, <2>4, <2>5, Jump, Zenon
<1> QED BY <1>1, <1>2, <1>3 DEF Round

-----------------------------------------------------------------------------
(* The event loop.                                                         *)

\* A step of the loop or of a peer that touches no list, flag or worker.
LEMMA QuietKeeps ==
    ASSUME SchedInv, UNCHANGED <<scheduled, ready, redeliver, tasks, pc, ret, on>>
    PROVE  SchedInv'
<1>1. SameOwners
  BY DEF SameOwners, lists
<1>2. SchedTypes' /\ GivenUp' /\ OnConn'
  BY DEF SchedInv, SchedTypes, GivenUp, OnConn
<1> QED BY <1>1, <1>2, OwnersKept DEF SchedInv

\* One list gains the connection that was not scheduled, if it gains any.
Gains(list, other, d, noted) ==
    /\ other' = other
    /\ list' = [list EXCEPT ![d] = @ + (IF noted /\ ~scheduled[d] THEN 1 ELSE 0)]

\* noteEvent: a connection goes on a list together with its flag.
LEMMA NoteKeeps ==
    ASSUME SchedInv, NEW d \in Conns, NEW noted \in BOOLEAN,
           UNCHANGED <<tasks, pc, ret, on>>,
           scheduled' = [scheduled EXCEPT ![d] = @ \/ noted],
           Gains(ready, redeliver, d, noted) \/ Gains(redeliver, ready, d, noted)
    PROVE  SchedInv'
<1> USE DEF SchedInv
<1>1. CASE noted /\ ~scheduled[d]
  <2>1. SchedTypes'
    BY <1>1 DEF SchedTypes, Gains
  <2>2. GivenUp' /\ OnConn'
    BY DEF GivenUp, OnConn
  <2>3. \A w \in Workers, c \in Conns : Holds(w, c)' <=> Holds(w, c)
    BY DEF Holds
  <2>4. ExclusiveExecution'
    BY <2>3 DEF ExclusiveExecution
  <2>5. \A c \in Conns : Listed(c) \in Nat /\ Listed(c)' = IF c = d THEN Listed(c) + 1 ELSE Listed(c)
    BY <1>1 DEF SchedTypes, Gains, Listed
  <2>6. Listed(d) = 0 /\ \A w \in Workers : ~Holds(w, d)
    BY <1>1, <2>5 DEF Ownership
  <2>7. ASSUME NEW c \in Conns
        PROVE  /\ Listed(c)' <= 1
               /\ scheduled'[c] <=> Listed(c)' = 1 \/ \E w \in Workers : Holds(w, c)'
               /\ Listed(c)' = 1 => \A w \in Workers : ~Holds(w, c)'
    <3>1. CASE c = d
      <4>1. Listed(c)' = 1
        BY <2>5, <2>6, <3>1
      <4>3. scheduled'[c]
        BY <1>1, <3>1, Zenon DEF SchedTypes
      <4>2. \A w \in Workers : ~Holds(w, c)'
        BY <2>3, <2>6, <3>1
      <4> QED BY <4>1, <4>2, <4>3
    <3>2. CASE c # d
      <4>1. Listed(c)' = Listed(c) /\ scheduled'[c] = scheduled[c]
        BY <2>5, <3>2 DEF SchedTypes
      <4> QED BY <2>3, <4>1 DEF Ownership
    <3> QED BY <3>1, <3>2
  <2>8. Ownership'
    BY <2>7 DEF Ownership
  <2> QED BY <2>1, <2>2, <2>4, <2>8
<1>2. CASE ~(noted /\ ~scheduled[d])
  <2>1. ready' = ready /\ redeliver' = redeliver
    BY <1>2 DEF SchedTypes, Gains
  <2>2. scheduled' = scheduled
    BY <1>2 DEF SchedTypes
  <2> QED BY <2>1, <2>2, QuietKeeps
<1> QED BY <1>1, <1>2

\* submitReady: the round's connections go to the pool; the refused ones are
\* given up.
LEMMA SubmitKeeps ==
    ASSUME SchedInv, SubmitReady
    PROVE  SchedInv'
<1> DEFINE count(c) == ready[c] + redeliver[c]
<1> USE DEF SchedInv
<1>1. PICK refused \in SUBSET {c \in Conns : count(c) > 0} :
          /\ tasks' = [c \in Conns |-> tasks[c] + IF c \in refused THEN 0 ELSE count(c)]
          /\ scheduled' = [c \in Conns |-> scheduled[c] /\ c \notin refused]
  BY Zenon DEF SubmitReady
<1>2. ready' = [c \in Conns |-> 0] /\ redeliver' = [c \in Conns |-> 0] /\ UNCHANGED <<pc, ret, on>>
  BY DEF SubmitReady, procVars
<1>3. SchedTypes'
  BY <1>1, <1>2 DEF SchedTypes
<1>4. GivenUp' /\ OnConn'
  BY <1>2 DEF GivenUp, OnConn
<1>5. \A w \in Workers, c \in Conns : Holds(w, c)' <=> Holds(w, c)
  BY <1>2 DEF Holds
<1>6. ExclusiveExecution'
  BY <1>5 DEF ExclusiveExecution
<1>7. ASSUME NEW c \in Conns
      PROVE  /\ Listed(c)' <= 1
             /\ scheduled'[c] <=> Listed(c)' = 1 \/ \E w \in Workers : Holds(w, c)'
             /\ Listed(c)' = 1 => \A w \in Workers : ~Holds(w, c)'
  <2>0. ready[c] \in Nat /\ redeliver[c] \in Nat /\ tasks[c] \in Nat /\ Listed(c) <= 1
    BY DEF SchedTypes, Ownership
  <2>1. CASE c \in refused
    <3>1. Listed(c) = 1 /\ Listed(c)' = 0
      BY <1>1, <1>2, <2>0, <2>1 DEF Listed
    <3>2. ~scheduled'[c] /\ \A w \in Workers : ~Holds(w, c)'
      BY <1>1, <1>5, <2>1, <3>1, Zenon DEF Ownership
    <3> QED BY <3>1, <3>2
  <2>2. CASE c \notin refused
    <3>1. Listed(c)' = Listed(c)
      BY <1>1, <1>2, <2>0, <2>2 DEF Listed
    <3>2. scheduled'[c] = scheduled[c]
      BY <1>1, <2>2 DEF SchedTypes
    <3> QED BY <1>5, <3>1, <3>2 DEF Ownership
  <2> QED BY <2>1, <2>2
<1>8. Ownership'
  BY <1>7 DEF Ownership
<1> QED BY <1>3, <1>4, <1>6, <1>8

\* The same for the action as the loop uses it, with either list.
LEMMA NoteEventKeeps ==
    ASSUME SchedInv, NEW c, NEW events, UNCHANGED <<tasks, pc, ret, on>>,
           \/ NoteEvent(c, events, ready) /\ redeliver' = redeliver
           \/ NoteEvent(c, events, redeliver) /\ ready' = ready
    PROVE  SchedInv'
<1> DEFINE noted == Noted(c, events)
<1>1. noted \in BOOLEAN
  BY DEF Noted
<1>2. /\ scheduled' = [scheduled EXCEPT ![c] = @ \/ noted]
      /\ Gains(ready, redeliver, c, noted) \/ Gains(redeliver, ready, c, noted)
  BY Zenon DEF NoteEvent, Gains, needsSubmit
<1>3. CASE c \in Conns
  <2> HIDE DEF noted
  <2> QED BY <1>1, <1>2, <1>3, NoteKeeps, Zenon
<1>4. CASE c \notin Conns
  <2> HIDE DEF noted
  <2>1. UNCHANGED <<scheduled, ready, redeliver>>
    BY <1>2, <1>4 DEF SchedInv, SchedTypes, Gains
  <2> QED BY <2>1, QuietKeeps
<1> QED BY <1>3, <1>4

\* The loop changes ownership only in noteEvent and submitReady.
LEMMA LoopKeeps ==
    ASSUME SchedInv, Loop
    PROVE  SchedInv'
<1> USE DEF Idle, procVars, connVars, lists
<1>1. CASE \/ Wait \/ HandleWake \/ CommandsDone \/ CloseConnection \/ RefreshCommand
           \/ EventsDone \/ ResumeBudgetPaused
  <2>1. UNCHANGED <<scheduled, ready, redeliver, tasks, pc, ret, on>>
    BY <1>1, Zenon DEF Wait, HandleWake, CommandsDone, CloseConnection, RefreshCommand, EventsDone,
                ResumeBudgetPaused
  <2> QED BY <2>1, QuietKeeps
<1>2. CASE HandleEvent
  <2> DEFINE item == Head(loop.batch)
  <2>1. /\ UNCHANGED <<redeliver, tasks, pc, ret, on>>
        /\ \/ NoteEvent(item.c, item.events, ready)
           \/ UNCHANGED <<scheduled, ready>>
    BY <1>2, Zenon DEF HandleEvent
  <2> HIDE DEF item
  <2> QED BY <2>1, NoteEventKeeps, QuietKeeps
<1>3. CASE Settle
  <2> DEFINE r == loop.ref
  <2>1. /\ UNCHANGED <<ready, tasks, pc, ret, on>>
        /\ \/ NoteEvent(r.c, {"in"}, redeliver)
           \/ UNCHANGED <<scheduled, redeliver>>
    BY <1>3, Zenon DEF Settle
  <2> HIDE DEF r
  <2> QED BY <2>1, NoteEventKeeps, QuietKeeps
<1>4. CASE SubmitReady
  BY <1>4, SubmitKeeps
<1> QED BY <1>1, <1>2, <1>3, <1>4 DEF Loop

\* Nothing is scheduled at first.
LEMMA InitSched == Init => SchedInv
<1> SUFFICES ASSUME Init PROVE SchedInv
  OBVIOUS
<1>1. SchedTypes
  BY EngineAssumption DEF Init, SchedTypes, Labels, Procs
<1>2. \A w \in Workers : pc[w] = "idle"
  BY DEF Init, Procs
<1>3. \A c \in Conns : Listed(c) = 0 /\ ~scheduled[c] /\ \A w \in Workers : ~Holds(w, c)
  <2>1. \A c \in Conns : ready[c] = 0 /\ redeliver[c] = 0 /\ tasks[c] = 0
    BY DEF Init
  <2>2. \A c \in Conns : Listed(c) = 0
    BY <2>1 DEF Listed
  <2>3. \A c \in Conns : scheduled[c] = FALSE
    BY DEF Init
  <2> QED BY <1>2, <2>2, <2>3 DEF Holds
<1>5. GivenUp /\ OnConn
  BY <1>2 DEF GivenUp, OnConn
<1>4. Ownership /\ ExclusiveExecution
  BY <1>3 DEF Ownership, ExclusiveExecution
<1> QED BY <1>1, <1>4, <1>5 DEF SchedInv

\* Every step keeps the invariant.
LEMMA NextSched == SchedInv /\ [Next]_<<vars, config>> => SchedInv'
<1> SUFFICES ASSUME SchedInv, [Next]_<<vars, config>> PROVE SchedInv'
  OBVIOUS
<1>1. CASE \E p \in Procs : Step(p)
  BY <1>1, StepKeeps
<1>2. CASE \E p \in Procs : Operate(p)
  BY <1>2, OperateKeeps
<1>3. CASE \E w \in Workers : Round(w)
  BY <1>3, RoundKeeps
<1>4. CASE Loop
  BY <1>4, LoopKeeps
<1>5. CASE (\E c \in Conns : Peer(c)) \/ UNCHANGED vars
  <2>1. UNCHANGED <<scheduled, ready, redeliver, tasks, pc, ret, on>>
    BY <1>5, Zenon DEF Peer, PeerSend, PeerSignal, PeerDrain, vars, connVars, lists, procVars
  <2> QED BY <2>1, QuietKeeps
<1> QED BY <1>1, <1>2, <1>3, <1>4, <1>5 DEF Next

\* The scheduled flag is an exact account of ownership: it is set if and only if
\* the connection stands once in one of the loop's lists or the pool's queue, or
\* is executed by a worker, and never both (noteEvent, process, submitReady).
THEOREM OwnershipAlways == Spec => []Ownership
<1>1. SchedInv => Ownership
  BY DEF SchedInv
<1> QED BY <1>1, InitSched, NextSched, PTL DEF Spec

\* A single connection is never executed by two workers at the same time, for
\* any number of workers and connections, whatever panics, refusals, closes and
\* redelivered reads happen around it (Connection.scheduled).
THEOREM ExclusiveExecutionAlways == Spec => []ExclusiveExecution
<1>1. SchedInv => ExclusiveExecution
  BY DEF SchedInv
<1> QED BY <1>1, InitSched, NextSched, PTL DEF Spec

=============================================================================
