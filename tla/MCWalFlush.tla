---------------------------- MODULE MCWalFlush ----------------------------
(* Instance of WalFlush for TLC. *)
EXTENDS WalFlush, TLC
\* Three writes with one sync among them, or two writes with two syncs; one
\* write less when one of them is to a single family, of which there is at
\* most one.
Bounds ==
  LET single == {s \in DOMAIN batch : batch[s] # families}
  IN  /\ Len(batch) + syncs <= 4
      /\ Cardinality(single) <= 1
      /\ single # {} => Len(batch) + syncs <= 3
Symmetry == Permutations(CFs)
=============================================================================
