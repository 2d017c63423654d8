--------------------------- MODULE MCWriterState ---------------------------
(* Instances of WriterState for TLC: a small group, whose leader wakes       *)
(* everyone, and a group large enough to have a caller.                      *)
EXTENDS WriterState, TLC

CONSTANTS m0, m1, m2, m3

Three == {m0, m1, m2}

PosThree == m0 :> 0 @@ m1 :> 1 @@ m2 :> 2

Four == {m0, m1, m2, m3}

PosFour == m0 :> 0 @@ m1 :> 1 @@ m2 :> 2 @@ m3 :> 3

Made == {{m0}}

NotMade == {{}}

=============================================================================
