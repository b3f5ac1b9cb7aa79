---------------------------- MODULE MCTaskPools ----------------------------
(* Instances of TaskPools for TLC: a larger one for safety, a smaller one  *)
(* for liveness.                                                           *)
EXTENDS TaskPools, TLC

CONSTANTS t1, t2, t3, t4, s1, s2

TwoAndOne == (s1 :> <<t1, t2>> @@ s2 :> <<t3>>)
ThreeAndOne == (s1 :> <<t1, t2, t3>> @@ s2 :> <<t4>>)

LargeSubmitters == ("cond" :> {s1, s2} @@ "adaptive" :> {s1, s2} @@ "elastic" :> {s1, s2})
LargeBatch == ("cond" :> ThreeAndOne @@ "adaptive" :> TwoAndOne @@ "elastic" :> ThreeAndOne)
LargeQueues == ("cond" :> 2 @@ "adaptive" :> 1 @@ "elastic" :> 1)
LargeSizings == {<<0, 1>>, <<2, 2>>}

SmallSubmitters == ("cond" :> {s1, s2} @@ "adaptive" :> {s1} @@ "elastic" :> {s1, s2})
SmallBatch == [m \in Modes |-> TwoAndOne]
SmallQueues == ("cond" :> 1 @@ "adaptive" :> 1 @@ "elastic" :> 0)
SmallSizings == {<<0, 1>>}

OneToTwo == <<1, 2>>

\* Workers are interchangeable: no property or action names one.
SlotSymmetry == Permutations(Slots)
=============================================================================
