--------------------------- MODULE MCCommandQueue ---------------------------
EXTENDS CommandQueue, TLC
CONSTANTS c1, c2, c3, c4, w, a
MCOwner == (c1 :> w @@ c2 :> w @@ c3 :> a @@ c4 :> Loop)
MCChained == (c1 :> None @@ c2 :> None @@ c3 :> c4 @@ c4 :> None)
=============================================================================
