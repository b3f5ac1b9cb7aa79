------------------------------ MODULE MCHttp2 ------------------------------
EXTENDS Http2
CONSTANT Chosen

Fields == <<"method", "scheme", "path", "other">>
Q(body) == [body |-> body, declared |-> body, trailer |-> FALSE, long |-> FALSE,
            x |-> [fields |-> Fields, large |-> FALSE]]
R(body) == [body |-> body, trailer |-> FALSE, long |-> FALSE, close |-> FALSE]

Plain(asks, replies) ==
  [foreign |-> FALSE, upgrade |-> FALSE, malformed |-> FALSE, asks |-> asks, replies |-> replies,
   bodies |-> [i \in {2 * j - 1 : j \in 1..Len(asks)} |-> asks[(i + 1) \div 2].body],
   cancels |-> 0, pushes |-> 0, breaks |-> 0, leaves |-> 0, tunes |-> <<>>]

\* Bodies larger than the windows, both ways.
Bodies == Plain(<<Q(3), Q(3)>>, {R(3)})
Three == Plain(<<Q(1), Q(0), Q(1)>>, {R(1)})
Cancels == [Plain(<<Q(3), Q(0)>>, {R(3)}) EXCEPT !.cancels = 1]
Breaks == [Plain(<<Q(3)>>, {R(3), R(0)}) EXCEPT !.breaks = 1]
Retires == Plain(<<Q(0), Q(2), Q(0)>>, {R(1), [R(1) EXCEPT !.close = TRUE]})
Large == Plain(<<[Q(4) EXCEPT !.declared = -1], Q(0)>>, {R(1)})
Heavy == Plain(<<Q(0), Q(2)>>, {R(4)})
Larger == Plain(<<Q(4), [Q(1) EXCEPT !.x.large = TRUE]>>, {R(1)})
Blocks == Plain(<<[Q(1) EXCEPT !.long = TRUE, !.x.fields = Append(Fields, "expect")]>>,
                {[R(1) EXCEPT !.trailer = TRUE, !.long = TRUE], [R(0) EXCEPT !.trailer = TRUE]})

Foreign(p) == [p EXCEPT !.foreign = TRUE]
Odd == [Foreign(Plain(<<[Q(1) EXCEPT !.trailer = TRUE],
               [Q(0) EXCEPT !.x.fields = <<"method", "scheme", "other", "path">>]>>, {R(1)})) EXCEPT !.malformed = TRUE]
Connect == [Foreign(Plain(<<[Q(0) EXCEPT !.x.fields = <<"CONNECT", "authority">>],
               [Q(0) EXCEPT !.x.fields = <<"method", "scheme", "path", "path">>]>>, {R(1)}))  EXCEPT !.malformed = TRUE]
Tunes == [Foreign(Plain(<<Q(0), Q(0)>>, {R(3)}))
            EXCEPT !.tunes = <<[window |-> 0, limit |-> 1], [window |-> 1, limit |-> 1]>>]
Pushes == [Foreign(Plain(<<Q(0)>>, {R(1), R(3)})) EXCEPT !.pushes = 2, !.tunes = <<[window |-> 2, limit |-> 1]>>]
Upgrade == [Foreign(Plain(<<Q(0)>>, {R(1), R(3)})) EXCEPT !.upgrade = TRUE, !.pushes = 1,
                                                            !.bodies = [i \in {1, 3} |-> 0]]
Leaving == [Foreign(Plain(<<Q(0), Q(1)>>, {R(1)})) EXCEPT !.leaves = 1]
Closing == Plain(<<Q(0), Q(0)>>, {R(3), [R(1) EXCEPT !.close = TRUE]})
Cut == Plain(<<Q(0), Q(0), [Q(5) EXCEPT !.declared = -1]>>, {R(4)})
All == CASE Chosen = "cut" -> {Cut} [] Chosen = "all" -> {Bodies, Three, Cancels, Breaks, Retires, Large, Larger, Heavy, Blocks, Odd, Connect, Tunes, Pushes, Upgrade, Leaving}
         [] Chosen = "closing" -> {Closing}
=============================================================================
