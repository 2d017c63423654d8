-------------------------- MODULE WalFlushProofs ----------------------------
(***************************************************************************)
(* Proofs about WalFlush for any number of column families, writes, logs   *)
(* and syncs: what is synced survives a power failure, batches survive     *)
(* whole, what returned survives a stop of the process, nothing flushed is *)
(* replayed, and the claims on the logs have one owner.                    *)
(***************************************************************************)
EXTENDS WalFlushSteps, FiniteSetTheorems, WellFoundedInduction

\* Most leaves are first-order; those that need arithmetic cite SMT.
USE ZenonT(30), SMTT(30)

-----------------------------------------------------------------------------
(* The invariant is inductive.                                             *)

\* A non-empty set of numbers has a smallest member.
LEMMA OldestExists == LogsHaveOldest
<1> SUFFICES ASSUME NEW S \in SUBSET Nat, S # {}
             PROVE  Oldest(S) \in S /\ \A y \in S : Oldest(S) <= y
  BY DEF LogsHaveOldest
<1>1. \E x \in S : \A y \in S : ~(<<y, x>> \in OpToRel(<, Nat))
  BY NatLessThanWellFounded, WFMin
<1>2. PICK x \in S : \A y \in S : ~(<<y, x>> \in OpToRel(<, Nat))
  BY <1>1
<1>3. ASSUME NEW y \in S
      PROVE  x =< y
  <2>1. ~(<<y, x>> \in OpToRel(<, Nat))
    BY <1>2
  <2>2. ~(y < x)
    BY <2>1 DEF OpToRel
  <2> QED
    BY <2>2, SMTT(30)
<1>4. \E z \in S : \A y \in S : z =< y
  BY <1>3
<1> QED
  BY <1>4 DEF Oldest

\* The invariant holds in every reachable state.
THEOREM Inductive == Spec => []WFInv
<1>1. Init => WFInv
  BY InitInv
<1>2. WFInv /\ [Next]_vars => WFInv'
  BY NextInv, OldestExists
<1> QED
  BY <1>1, <1>2, PTL DEF Spec

-----------------------------------------------------------------------------
(* The properties.                                                         *)

\* A write that returned from a sync, or that DB::SyncWAL covered, is recovered
\* after a power failure: whatever syncs, switches and flushes overlap.
THEOREM SyncedWritesSurvive == Spec => []SyncedSurvive
<1>1. WFInv => SyncedSurvive
  <2> SUFFICES ASSUME WFInv, NEW m \in manifests, NEW s \in synced, NEW c \in batch[s]
               PROVE  s \in m.flushed[c] \/ SurvivesPowerLoss(m, c, s)
    BY DEF SyncedSurvive
  <2>1. s \in acked /\ Durable(s)
    BY DEF WFInv, DurableInv
  <2> QED
    BY <2>1, DurableSurvives, OldestExists
<1> QED
  BY <1>1, Inductive, PTL

\* No log is deleted, or skipped by recovery, while a write that returned needs
\* it.
THEOREM NothingIsLost == Spec => []NothingLost
<1>1. WFInv => NothingLost
  BY IsFound, OldestExists DEF NothingLost
<1> QED
  BY <1>1, Inductive, PTL

\* Recovery never replays what the tables of a family hold.
THEOREM FlushedIsNotReplayed == Spec => []NoReplayOfFlushed
<1>1. WFInv => NoReplayOfFlushed
  <2> SUFFICES ASSUME WFInv, NEW m \in manifests, NEW c \in families,
                      NEW n \in ReplayedLogs(m, c), NEW s,
                      s \in wal[n].recs, s \in m.flushed[c]
               PROVE  FALSE
    BY DEF NoReplayOfFlushed
  <2>1. n \in DOMAIN wal /\ n >= m.log[c]
    BY DEF ReplayedLogs
  <2>2. n < m.log[c]
    BY <2>1, FlushedFacts
  <2>3. n \in Nat /\ m.log[c] \in Nat
    <3>1. n \in Nat /\ m \in Manifests /\ c \in CFs
      BY <2>1, ManifestCases DEF WFInv, TypeOK
    <3> QED
      BY <3>1 DEF Manifests
  <2> QED
    BY <2>1, <2>2, <2>3, SMTT(30)
<1> QED
  BY <1>1, Inductive, PTL

\* The sizes of small sets.
LEMMA SmallSets ==
  Cardinality({}) = 0 /\ \A x : Cardinality({x}) = 1
BY FS_EmptySet, FS_Singleton

\* Two members make more than one.
LEMMA TwoMembers ==
  ASSUME NEW T, IsFiniteSet(T), NEW S \in SUBSET T, NEW c \in S, NEW d \in S, c # d
  PROVE  Cardinality(S) > 1
<1>1. IsFiniteSet(S)
  BY FS_Subset
<1>2. IsFiniteSet({c}) /\ Cardinality({c}) = 1
  BY FS_Singleton
<1>3. Cardinality({c} \union {d}) = Cardinality({c}) + 1
  BY <1>2, FS_AddElement
<1>4. Cardinality({c} \union {d}) <= Cardinality(S)
  <2>1. {c} \union {d} \subseteq S
    OBVIOUS
  <2> QED
    BY <1>1, <2>1, FS_Subset
<1>5. Cardinality(S) \in Nat
  BY <1>1, FS_CardinalityType
<1> QED
  BY <1>2, <1>3, <1>4, <1>5, SMTT(30)

\* What MANIFEST holds of a batch for one family is recovered for the others.
THEOREM BatchesSurviveWhole == Spec => []BatchesWhole
<1>1. WFInv => BatchesWhole
  <2> SUFFICES ASSUME WFInv, NEW m \in manifests, NEW s \in DOMAIN batch,
                      NEW c \in batch[s], NEW d \in batch[s], s \in m.flushed[c]
               PROVE  s \in m.flushed[d] \/ SurvivesPowerLoss(m, d, s)
    BY DEF BatchesWhole
  <2>1. CASE c = d
    BY <2>1
  <2>2. CASE c # d
    <3>1. s \in 1..Len(batch)
      BY ListLength DEF WFInv, TypeOK
    <3>2. c \in families /\ d \in families
      BY <3>1 DEF WFInv, LogsInv
    <3>3. IsFiniteSet(CFs) /\ families \in SUBSET CFs
      BY WalFlushAssumption DEF WFInv, TypeOK
    <3>4. Cardinality(families) > 1
      BY <2>2, <3>2, <3>3, TwoMembers
    <3>5. s \in acked /\ Durable(s)
      BY <3>2, <3>4, FlushedFacts
    <3> QED
      BY <3>5, DurableSurvives, OldestExists
  <2> QED
    BY <2>1, <2>2
<1> QED
  BY <1>1, Inductive, PTL

\* A log is marked as being synced exactly while one thread has claimed it.
THEOREM ClaimsHaveOneOwner == Spec => []ClaimsAreHeld
<1>1. WFInv => ClaimsAreHeld
  <2> SUFFICES ASSUME WFInv, NEW n \in DOMAIN logs_
               PROVE  Claims(n) = IF logs_[n] THEN 1 ELSE 0
    BY DEF ClaimsAreHeld
  <2> DEFINE A == {a \in Syncers : Holds(a, n)}
             B == {c \in CFs : Closes(c, n)}
             W == IF writer.pc = "sync" THEN 1 ELSE 0
  <2>1. Claims(n) = Cardinality(A) + Cardinality(B) + W
    <3>1. DOMAIN sync = Syncers
      BY DEF WFInv, TypeOK
    <3> QED
      BY <3>1 DEF Claims, Holds, Closes
  <2>2. /\ Cardinality({}) = 0
        /\ \A x : Cardinality({x}) = 1
    BY SmallSets
  <2>3. /\ logs_[n] <=> \/ writer.pc = "sync"
                        \/ \E a \in Syncers : Holds(a, n)
                        \/ \E c \in CFs : Closes(c, n)
        /\ writer.pc = "sync" => /\ \A a \in Syncers : ~Holds(a, n)
                                 /\ \A c \in CFs : ~Closes(c, n)
        /\ \A a, b \in Syncers : Holds(a, n) /\ Holds(b, n) => a = b
        /\ \A c, d \in CFs : Closes(c, n) /\ Closes(d, n) => c = d
        /\ \A a \in Syncers, c \in CFs : ~(Holds(a, n) /\ Closes(c, n))
    BY DEF WFInv, ClaimInv
  <2>4. CASE writer.pc = "sync"
    <3>1. A = {} /\ B = {} /\ W = 1 /\ logs_[n]
      BY <2>3, <2>4
    <3> HIDE DEF A, B, W
    <3> QED
      BY <2>1, <2>2, <3>1, SMTT(30)
  <2>5. CASE writer.pc # "sync" /\ \E a \in Syncers : Holds(a, n)
    <3>1. PICK a \in Syncers : Holds(a, n)
      BY <2>5
    <3>2. A = {a} /\ B = {} /\ W = 0 /\ logs_[n]
      BY <2>3, <2>5, <3>1
    <3> HIDE DEF A, B, W
    <3>3. Cardinality(A) = 1 /\ Cardinality(B) = 0
      BY <2>2, <3>2
    <3> QED
      BY <2>1, <3>2, <3>3, SMTT(30)
  <2>6. CASE writer.pc # "sync" /\ \E c \in CFs : Closes(c, n)
    <3>1. PICK c \in CFs : Closes(c, n)
      BY <2>6
    <3>2. A = {} /\ B = {c} /\ W = 0 /\ logs_[n]
      BY <2>3, <2>6, <3>1
    <3> HIDE DEF A, B, W
    <3>3. Cardinality(A) = 0 /\ Cardinality(B) = 1
      BY <2>2, <3>2
    <3> QED
      BY <2>1, <3>2, <3>3, SMTT(30)
  <2>7. CASE /\ writer.pc # "sync" /\ \A a \in Syncers : ~Holds(a, n)
             /\ \A c \in CFs : ~Closes(c, n)
    <3>1. A = {} /\ B = {} /\ W = 0 /\ ~logs_[n]
      BY <2>3, <2>7
    <3> HIDE DEF A, B, W
    <3> QED
      BY <2>1, <2>2, <3>1, SMTT(30)
  <2> QED
    BY <2>4, <2>5, <2>6, <2>7
<1> QED
  BY <1>1, Inductive, PTL

=============================================================================
