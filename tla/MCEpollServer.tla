--------------------------- MODULE MCEpollServer ---------------------------
(***************************************************************************)
(* Small instances of EpollServer: what peers, the application and the     *)
(* machine may do is one of a few budgets, each aimed at one part.         *)
(***************************************************************************)
EXTENDS EpollServer, TLC

CONSTANTS c1, c2, w1, Chosen

Nothing == [crew |-> Workers, dials |-> {c1}, input |-> 0, urgent |-> 0, ends |-> 0, 
            sends |-> 0, closes |-> 0, stops |-> 0, fails |-> 0]

\* Senders and flushes on a slow peer.
Output == [Nothing EXCEPT !.crew = {w1}, !.sends = 4]

\* A connection speaks, urgently too, ends or is closed, and the server stops.
Life == [Nothing EXCEPT !.input = 1, !.closes = 1, !.stops = 1]
Urgent == [Nothing EXCEPT !.input = 1, !.urgent = 1, !.ends = 1]

\* Two connections share the workers and the command list.
Pair == [Nothing EXCEPT !.dials = {c1, c2}, !.input = 1, !.closes = 1]

\* A failing allocation or system call.
Failures == [Nothing EXCEPT !.crew = {w1}, !.sends = 2, !.fails = 1]

AllBudgets == IF Chosen = "all" THEN {Output, Life, Urgent, Pair, Failures}
              ELSE {CASE Chosen = "output" -> Output [] Chosen = "life" -> Life
                      [] Chosen = "pair" -> Pair
                      [] Chosen = "urgent" -> Urgent
                      [] Chosen = "failures" -> Failures}
=============================================================================
