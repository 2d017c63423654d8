-------------------------- MODULE SequenceNumbers --------------------------
(* The range of sequence numbers (db/dbformat.h) and how many of them a write *)
(* takes: what WriteLog and the mapping of WriteThread to it share.           *)
EXTENDS Naturals

CONSTANTS
  MaxSequence,   \* kMaxSequenceNumber
  Counts         \* how many entries a write may have for the memtable

ASSUME MaxSequenceAssumption == MaxSequence \in Nat
ASSUME CountsAssumption == Counts \subseteq Nat

=============================================================================
