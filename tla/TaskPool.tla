------------------------------ MODULE TaskPool ------------------------------
(***************************************************************************)
(* What a task pool promises its callers (taskpool.go), whatever backend   *)
(* runs it: a task is accepted only before Stop, an accepted task is run   *)
(* once, a task is refused only because the pool is stopping, and Stop     *)
(* returns after everything accepted has run.                              *)
(***************************************************************************)
EXTENDS Naturals

CONSTANT Tasks

VARIABLES
    status,  \* [Tasks -> "new" | "queued" | "running" | "done" | "refused"]
    stage    \* "open", "stopping" or "stopped"

pool == <<status, stage>>

Statuses == {"new", "queued", "running", "done", "refused"}

TypeOK ==
    /\ status \in [Tasks -> Statuses]
    /\ stage \in {"open", "stopping", "stopped"}

Moves(t, from, to) ==
    /\ status[t] = from
    /\ status' = [status EXCEPT ![t] = to]
    /\ UNCHANGED stage

Accept(t) == stage = "open" /\ Moves(t, "new", "queued")
Start(t) == Moves(t, "queued", "running")
Finish(t) == Moves(t, "running", "done")

\* A batch is refused as a whole, or what is left of it.
Refuse(S) ==
    /\ stage # "open" /\ \A t \in S : status[t] = "new"
    /\ status' = [t \in Tasks |-> IF t \in S THEN "refused" ELSE status[t]]
    /\ UNCHANGED stage

Stop ==
    /\ stage = "open" /\ stage' = "stopping"
    /\ UNCHANGED status

\* Stop returns.
Stopped ==
    /\ stage = "stopping" /\ stage' = "stopped"
    /\ \A t \in Tasks : status[t] \notin {"queued", "running"}
    /\ UNCHANGED status

Init == status = [t \in Tasks |-> "new"] /\ stage = "open"

Next ==
    \/ \E t \in Tasks : Accept(t) \/ Start(t) \/ Finish(t)
    \/ \E S \in SUBSET Tasks : Refuse(S)
    \/ Stop \/ Stopped

Spec == Init /\ [][Next]_pool
=============================================================================
