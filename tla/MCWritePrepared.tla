-------------------------- MODULE MCWritePrepared --------------------------
(* Instances of WritePrepared for TLC.                                       *)
EXTENDS WritePrepared, TLC

CONSTANTS r1, r2

Fresh(two, max) ==
  [two_write_queues |-> two, last |-> 0, open |-> {}, limit |-> max]

\* A database recovered with one number committed and one still prepared.
Recovered(two, max) ==
  [two_write_queues |-> two, last |-> 2, open |-> {1}, limit |-> max]

SmallStarts ==
  {Fresh(TRUE, 4), Recovered(TRUE, 6), Fresh(FALSE, 2), Recovered(FALSE, 5)}

Symmetry == Permutations(Readers)

=============================================================================
