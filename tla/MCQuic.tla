------------------------------- MODULE MCQuic ------------------------------
(* Plans for the connection of Quic.                                       *)
EXTENDS Quic

CONSTANT Chosen

B(n, by) == [n |-> n, by |-> by, kind |-> "bidi"]
U(n, by) == [n |-> n, by |-> by, kind |-> "uni"]
Op(do, id) == [do |-> do, id |-> id, n |-> 0, fin |-> FALSE, after |-> FALSE]
Starts(id, n) == [Op("write", id) EXCEPT !.n = n]
Writes(id, n) == [Op("write", id) EXCEPT !.n = n, !.fin = TRUE]
Answers(id, n) == [Writes(id, n) EXCEPT !.after = TRUE]
Base ==
  [from |-> "open", last |-> "none", flight |-> 2, losses |-> 0, repeats |-> 0, overtakes |-> 0, early |-> 0,
   timeouts |-> 0, retries |-> 0, keepalives |-> 0, does |-> [x \in Sides |-> <<>>]]
Both(c, s) == [client |-> c, server |-> s]
Faults(l, o, r, e) == [Base EXCEPT !.losses = l, !.overtakes = o, !.repeats = r, !.early = e]

C0 == B(0, "client")
S0 == U(0, "server")
S1 == U(1, "server")
Request == Both(<<Op("open", C0), Writes(C0, 3)>>, <<Answers(C0, 3)>>)

\* The handshake, its flight longer than three datagrams.
Hands ==
  {[f EXCEPT !.from = "dial", !.flight = 7] : f \in {Faults(3, 0, 0, 0), Faults(0, 1, 0, 1)}}
    \union {[f EXCEPT !.from = "dial"] : f \in {Faults(1, 1, 0, 0), [Faults(1, 0, 0, 0) EXCEPT !.retries = 1]}}
\* A request and its answer.
Echo == {[f EXCEPT !.does = Request] : f \in {Faults(2, 0, 0, 0), Faults(1, 1, 0, 0), Faults(1, 0, 1, 1)}}
\* More streams than the peer allows at once.
Many2 ==
  {[Faults(1, 0, 0, 0) EXCEPT !.does = Both(FlattenSeq([i \in 1..4 |-> <<Op("open", U(i - 1, "client")), Writes(U(i - 1, "client"), 1)>>]), <<>>)]}
\* More data than the windows hold, one way.
Bulk ==
  {[f EXCEPT !.does = Both(<<>>, <<Op("open", S0), Writes(S0, 5), Op("open", S1), Writes(S1, 5)>>)]
     : f \in {Faults(1, 0, 0, 0), Faults(0, 1, 0, 1)}}
\* Streams given up by either side.
Cuts == {[f EXCEPT !.does = d] : f \in {Faults(1, 0, 0, 0), Faults(0, 1, 0, 0)},
           d \in {Both(<<Op("open", C0), Starts(C0, 3), Op("reset", C0)>>, <<Writes(C0, 1)>>),
                  Both(<<Op("open", C0), Starts(C0, 3)>>, <<Op("stop", C0), Writes(C0, 1)>>)}}
\* The end: at once, when all is done, by silence.
Ends ==
  {[Faults(1, 0, 0, 0) EXCEPT !.does = Both(Request["client"] \o <<Op("closeWhenDone", C0)>>, Request["server"])],
   [Faults(1, 0, 0, 0) EXCEPT !.does = Both(Request["client"] \o <<Op("close", C0)>>, Request["server"])],
   [Faults(0, 0, 0, 0) EXCEPT !.does = Request, !.timeouts = 1, !.keepalives = 1],
   [Faults(1, 0, 0, 0) EXCEPT !.from = "dial", !.flight = 7, !.timeouts = 1, !.does = Both(<<>>, <<Op("close", C0)>>)]}
\* A stream given up while a part of it is missing.
Leak == {[Faults(1, 0, 0, 0) EXCEPT !.does = Both(<<Op("open", C0), Writes(C0, 4)>>, <<Op("stop", C0), Writes(C0, 0)>>)]}

All == CASE Chosen = "hands" -> Hands [] Chosen = "echo" -> Echo [] Chosen = "many" -> Many2
         [] Chosen = "bulk" -> Bulk [] Chosen = "cuts" -> Cuts [] Chosen = "ends" -> Ends [] Chosen = "leak" -> Leak
         [] OTHER -> Hands \union Echo \union Many2 \union Bulk \union Cuts \union Ends \union Leak
=============================================================================
