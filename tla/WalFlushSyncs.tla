--------------------------- MODULE WalFlushSyncs ----------------------------
(***************************************************************************)
(* The inductive invariant WFInv of WalFlush, what its parts keep when a   *)
(* step leaves most of the state alone, and the steps that sync and close  *)
(* logs and those of the flush jobs: each keeps WFInv.                     *)
(*                                                                         *)
(* WFInv has five parts: the shape of the logs (LogsInv, WriterInv), who   *)
(* has claimed which logs (ClaimInv, CloseInv), how far each sync has come *)
(* (SyncInv, ClosedInv), where the data of the memtables and of MANIFEST   *)
(* is (DataInv, FlushInv, ReplayInv, ManifestInv), and what is durable     *)
(* (DurableInv).                                                           *)
(***************************************************************************)
EXTENDS WalFlush, TLAPS

\* Most leaves are first-order; those that need arithmetic cite SMT.
USE ZenonT(30), SMTT(30)

-----------------------------------------------------------------------------
(* The inductive invariant.                                                *)

Syncers == CFs \union {User}
Wals == [recs : SUBSET Nat, synced : SUBSET Nat, dir : BOOLEAN]
Memtables == [data : SUBSET Nat, next_log : Nat]
Manifests == [flushed : [CFs -> SUBSET Nat], log : [CFs -> Nat], min : Nat]
WriterStates == [pc : {"idle", "sync", "switch"}, todo : SUBSET Nat, dir : BOOLEAN,
                 cf : Syncers, number : Nat]
SyncStates == [pc : {"idle", "sync", "mark"}, todo : SUBSET Nat, done : SUBSET Nat,
               dir : BOOLEAN, active : Nat, up_to : Nat, pre : SUBSET Nat,
               promise : Nat]
FlushStates == [pc : {"idle", "claim", "sync", "write", "queue", "commit", "find",
                      "logs", "close"},
                n : Nat, next_log : Nat, min : Nat, del : SUBSET Nat]

\* Type correctness.
TypeOK ==
  /\ families \in (SUBSET CFs) \ {{}}
  /\ DOMAIN wal \subseteq Nat /\ wal \in [DOMAIN wal -> Wals]
  /\ logs_ \in [DOMAIN logs_ -> BOOLEAN]
  /\ alive_log_files_ \subseteq Nat /\ logfile_number_ \in Nat \ {0}
  /\ log_empty_ \in BOOLEAN /\ log_dir_synced_ \in BOOLEAN
  /\ next_file_number_ \in Nat
  /\ mem \in [CFs -> SUBSET Nat] /\ imm \in [CFs -> Seq(Memtables)]
  /\ log_number \in [CFs -> Nat] /\ min_log_number_to_keep_ \in Nat
  /\ manifest \in Manifests /\ next_manifest \in Manifests
  /\ batch \in Seq(SUBSET CFs) /\ acked \subseteq Nat /\ synced \subseteq Nat
  /\ writer \in WriterStates
  /\ sync \in [Syncers -> SyncStates]
  /\ flush \in [CFs -> FlushStates]
  /\ syncs \in Nat

\* Every record of the log is synced.
Full(n) == wal[n].synced = wal[n].recs

\* The log files that recovery may still read.
Kept == {n \in DOMAIN wal : n >= min_log_number_to_keep_}

\* The active log is the newest and is open; an open log is there; what was
\* numbered was appended, and what was appended has returned, save the record
\* of the sync write in progress.
LogsInv ==
  /\ logfile_number_ \in DOMAIN logs_ /\ DOMAIN logs_ \subseteq DOMAIN wal
  /\ logfile_number_ < next_file_number_
  /\ \A n \in DOMAIN wal : /\ n <= logfile_number_
                           /\ wal[n].synced \subseteq wal[n].recs
                           /\ wal[n].recs \subseteq 1..Len(batch)
  /\ log_empty_ => wal[logfile_number_].recs = {}
  /\ acked = IF writer.pc = "sync" THEN 1..(Len(batch) - 1) ELSE 1..Len(batch)
  /\ \A s \in 1..Len(batch) : batch[s] \subseteq families
  /\ log_dir_synced_ => \A n \in DOMAIN wal : wal[n].dir

\* A sync write has its record in the active log and syncs all of logs_; a
\* switch has the number of a new log, or of the active one if that is empty.
WriterInv ==
  /\ writer.pc = "sync" =>
       /\ Len(batch) \in wal[logfile_number_].recs
       /\ writer.todo \subseteq DOMAIN logs_
       /\ \A n \in Kept : n \in writer.todo \/ Full(n)
       /\ ~writer.dir => \A n \in DOMAIN wal : wal[n].dir
  /\ writer.pc = "switch" =>
       /\ writer.cf \in families
       /\ writer.number < next_file_number_
       /\ writer.number >= logfile_number_
       /\ writer.number = logfile_number_ => wal[logfile_number_].recs = {}

\* How far a call of SyncWalImpl has come, and what it began with.
SyncOK(a) ==
  LET y == sync[a]
  IN  /\ y.active <= logfile_number_
      /\ y.up_to = IF a = User THEN y.active ELSE y.active - 1
      /\ y.todo \subseteq {n \in DOMAIN logs_ : n <= y.up_to}
      /\ y.done \subseteq {n \in DOMAIN logs_ : n <= y.up_to /\ n < y.active}
      /\ y.pc = "mark" => y.todo = {}
      /\ \A n \in Kept : n <= y.up_to =>
           \/ n \in y.todo
           \/ n < y.active /\ Full(n)
           \/ n = y.active /\ y.pre \subseteq wal[n].synced
      /\ ~y.dir \/ y.pc = "mark" =>
           \A n \in DOMAIN wal : n <= y.active => wal[n].dir
      /\ \A n \in DOMAIN wal : n = y.active => y.pre \subseteq wal[n].recs
      /\ \A n \in DOMAIN wal : \A s \in wal[n].recs :
           s <= y.promise => n < y.active \/ (n = y.active /\ s \in y.pre)
      /\ y.promise <= Len(batch)
      /\ a = User => 1..y.promise \subseteq acked

SyncInv ==
  /\ \A a \in Syncers : sync[a].pc # "idle" => SyncOK(a)
  /\ \A c \in CFs : flush[c].pc = "sync" <=> sync[c].pc # "idle"

\* A log that left logs_ is synced entirely, or no longer needed.
ClosedInv == \A n \in Kept : n \in DOMAIN logs_ \/ Full(n)

\* The claims of SyncWalImpl and of FindObsoleteFiles on an open log.
Holds(a, n) == sync[a].pc # "idle" /\ n <= sync[a].up_to
Closes(c, n) == flush[c].pc = "close" /\ n = Front

\* Marked as being synced is what somebody claims, and no two claim the same.
ClaimInv ==
  \A n \in DOMAIN logs_ :
    /\ logs_[n] <=> \/ writer.pc = "sync"
                    \/ \E a \in Syncers : Holds(a, n)
                    \/ \E c \in CFs : Closes(c, n)
    /\ writer.pc = "sync" => /\ \A a \in Syncers : ~Holds(a, n)
                             /\ \A c \in CFs : ~Closes(c, n)
    /\ \A a, b \in Syncers : Holds(a, n) /\ Holds(b, n) => a = b
    /\ \A c, d \in CFs : Closes(c, n) /\ Closes(d, n) => c = d
    /\ \A a \in Syncers, c \in CFs : ~(Holds(a, n) /\ Closes(c, n))

\* FindObsoleteFiles closes and deletes logs below the smallest needed one.
CloseOK(c) ==
  /\ flush[c].pc \in {"logs", "close"} =>
       /\ flush[c].min <= min_log_number_to_keep_
       /\ \A n \in flush[c].del : n < flush[c].min
  /\ flush[c].pc = "close" => Front < flush[c].min

CloseInv == \A c \in CFs : CloseOK(c)

\* The data of the memtables is in logs that recovery reads for the family: not
\* before its log number or the end of an older memtable, and for an immutable
\* one only before the log that follows it.
FamilyOK(c) ==
  /\ log_number[c] <= logfile_number_
  /\ min_log_number_to_keep_ <= log_number[c]
  /\ mem[c] \subseteq acked
  /\ \A s \in mem[c] :
       \E n \in DOMAIN wal : /\ s \in wal[n].recs /\ n >= log_number[c]
                             /\ \A i \in 1..Len(imm[c]) : n >= imm[c][i].next_log
  /\ \A i \in 1..Len(imm[c]) :
       /\ imm[c][i].data \subseteq acked
       /\ log_number[c] <= imm[c][i].next_log
       /\ imm[c][i].next_log <= logfile_number_
       /\ \A j \in 1..Len(imm[c]) : j < i => imm[c][j].next_log <= imm[c][i].next_log
       /\ \A s \in imm[c][i].data :
            /\ \A n \in DOMAIN wal : s \in wal[n].recs => n < imm[c][i].next_log
            /\ \E n \in DOMAIN wal :
                 /\ s \in wal[n].recs /\ n >= log_number[c]
                 /\ \A j \in 1..Len(imm[c]) : j < i => n >= imm[c][j].next_log

DataInv ==
  /\ \A c \in families : FamilyOK(c)
  /\ \A s \in acked : \A c \in batch[s] :
       \/ s \in manifest.flushed[c]
       \/ s \in mem[c]
       \/ \E i \in 1..Len(imm[c]) : s \in imm[c][i].data

Picked == {"claim", "sync", "write", "queue", "commit"}

\* A flush job holds on to the oldest memtables of its family, and what it is
\* about to record is safe for every family.
JobOK(c) ==
  /\ flush[c].pc # "idle" => c \in families
  /\ flush[c].pc \in Picked => flush[c].n \in 1..Len(imm[c])
  /\ flush[c].pc = "sync" => imm[c][flush[c].n].next_log <= sync[c].active
  /\ flush[c].pc \in {"queue", "commit"} =>
       /\ flush[c].next_log = imm[c][flush[c].n].next_log
       /\ flush[c].min <= flush[c].next_log
       /\ \A d \in families \ {c} : flush[c].min <= log_number[d]

FlushInv == \A c \in CFs : JobOK(c)

\* What MANIFEST has of a family is not in the logs it would replay.
ReplayInv ==
  \A c \in families :
    /\ manifest.flushed[c] \subseteq acked
    /\ \A s \in manifest.flushed[c], n \in DOMAIN wal :
         s \in wal[n].recs => n < manifest.log[c]

\* The edit in progress adds the memtables of one job.
ManifestInv ==
  /\ manifest.min = min_log_number_to_keep_
  /\ \A c \in families : manifest.log[c] <= log_number[c]
  /\ \A c, d \in CFs : flush[c].pc = "commit" /\ flush[d].pc = "commit" => c = d
  /\ (\A c \in CFs : flush[c].pc # "commit") => next_manifest = manifest
  /\ \A c \in CFs : flush[c].pc = "commit" =>
       /\ next_manifest.min = UpTo(manifest.min, flush[c].min)
       /\ next_manifest.flushed = [manifest.flushed EXCEPT ![c] =
                                     @ \union UNION {imm[c][i].data : i \in 1..flush[c].n}]
       /\ next_manifest.log[c] = flush[c].next_log
       /\ \A d \in families : manifest.log[d] <= next_manifest.log[d]
       /\ \A d \in families \ {c} : next_manifest.log[d] <= log_number[d]

\* Record s is safe from a power failure wherever it is.
Durable(s) ==
  \A n \in Kept : s \in wal[n].recs =>
    /\ wal[n].dir /\ s \in wal[n].synced
    /\ \A k \in Kept : k < n => Full(k)

DurableInv ==
  /\ synced \subseteq acked
  /\ \A s \in synced : Durable(s)
  /\ Cardinality(families) > 1 =>
       \A c \in families :
         /\ \A s \in manifest.flushed[c] : Durable(s)
         /\ flush[c].pc \in {"write", "queue", "commit"} =>
              \A i \in 1..flush[c].n : \A s \in imm[c][i].data : Durable(s)

WFInv ==
  /\ TypeOK /\ LogsInv /\ WriterInv /\ SyncInv /\ ClosedInv /\ ClaimInv /\ CloseInv
  /\ DataInv /\ FlushInv /\ ReplayInv /\ ManifestInv /\ DurableInv

-----------------------------------------------------------------------------
(* Lists, and the oldest of a set of logs.                                 *)

\* The length and the members of a list, ...
LEMMA ListLength ==
  ASSUME NEW S, NEW q \in Seq(S)
  PROVE  Len(q) \in Nat /\ q \in [1..Len(q) -> S] /\ DOMAIN q = 1..Len(q)
BY SMTT(30)

\* ... each of them of the members' type, ...
LEMMA ListMember ==
  ASSUME NEW S, NEW q \in Seq(S), NEW i \in 1..Len(q)
  PROVE  q[i] \in S
BY SMTT(30)

\* ... of a list that is not empty, ...
LEMMA ListNotEmpty ==
  ASSUME NEW S, NEW q \in Seq(S), q # << >>
  PROVE  Len(q) \in Nat \ {0}
BY SMTT(30)

\* The larger of two log numbers.
LEMMA UpToFacts ==
  ASSUME NEW a \in Nat, NEW b \in Nat
  PROVE  /\ UpTo(a, b) \in {a, b} /\ UpTo(a, b) \in Nat
         /\ a <= UpTo(a, b) /\ b <= UpTo(a, b) /\ (a <= b => UpTo(a, b) = b)
BY SMTT(30) DEF UpTo

\* Every set of logs has an oldest one.  It follows from the well-foundedness of
\* < on Nat, in WalFlushProofs; the lemmas before take it as an assumption, which
\* keeps the theory it rests on out of their way.
LogsHaveOldest ==
  \A ns \in SUBSET Nat :
    ns # {} => Oldest(ns) \in ns /\ \A n \in ns : Oldest(ns) <= n

LEMMA OldestIsLeast ==
  ASSUME LogsHaveOldest, NEW S, S \subseteq Nat, S # {}
  PROVE  Oldest(S) \in S /\ \A y \in S : Oldest(S) <= y
BY DEF LogsHaveOldest

-----------------------------------------------------------------------------
(* What a step leaves alone.                                               *)

\* A step that appends at most one new record, to the active log, adds at most
\* a new log above all others, and never takes a sync back, ...
WalGrows ==
  \A n \in DOMAIN wal' :
    \/ /\ n \in DOMAIN wal
       /\ wal[n].dir => wal'[n].dir
       /\ wal[n].synced \subseteq wal'[n].synced
       /\ wal'[n].synced \subseteq wal'[n].recs
       /\ \/ wal'[n].recs = wal[n].recs
          \/ n = logfile_number_ /\ wal'[n].recs = wal[n].recs \union {Len(batch) + 1}
    \/ n \in Nat /\ n > logfile_number_ /\ wal'[n].recs = {}

\* ... leaves a fully synced log that is not the active one fully synced,
LEMMA FullPersists ==
  ASSUME TypeOK, LogsInv, WalGrows, NEW n \in DOMAIN wal', n \in DOMAIN wal,
         n < logfile_number_, Full(n)
  PROVE  Full(n)'
<1>1. n # logfile_number_ /\ ~(n > logfile_number_)
  BY SMTT(30) DEF TypeOK
<1> QED
  BY <1>1 DEF WalGrows, Full

\* ... and what is durable durable,
LEMMA DurablePersists ==
  ASSUME TypeOK, LogsInv, WalGrows, NEW s \in 1..Len(batch), Durable(s),
         min_log_number_to_keep_' \in Nat,
         min_log_number_to_keep_ <= min_log_number_to_keep_'
  PROVE  Durable(s)'
<1> SUFFICES ASSUME NEW n \in Kept', s \in wal'[n].recs
             PROVE  /\ wal'[n].dir /\ s \in wal'[n].synced
                    /\ \A k \in Kept' : k < n => Full(k)'
  BY DEF Durable
<1>1. n \in DOMAIN wal' /\ n >= min_log_number_to_keep_'
  BY DEF Kept
<1>2. Len(batch) \in Nat /\ s \in Nat /\ s # Len(batch) + 1
  BY ListLength, SMTT(30) DEF TypeOK
<1>3. n \in DOMAIN wal /\ s \in wal[n].recs
  BY <1>1, <1>2, SMTT(30) DEF WalGrows
<1>4. n \in Kept
  BY <1>1, <1>3, SMTT(30) DEF Kept, TypeOK
<1>5. wal[n].dir /\ s \in wal[n].synced /\ \A k \in Kept : k < n => Full(k)
  BY <1>3, <1>4 DEF Durable
<1>6. wal'[n].dir /\ s \in wal'[n].synced
  BY <1>1, <1>3, <1>5 DEF WalGrows, LogsInv, TypeOK
<1>7. ASSUME NEW k \in Kept', k < n
      PROVE  Full(k)'
  <2>1. k \in DOMAIN wal' /\ k >= min_log_number_to_keep_' /\ n <= logfile_number_
    BY <1>3 DEF Kept, LogsInv
  <2>2. k \in DOMAIN wal
    BY <2>1, <1>3, <1>7, SMTT(30) DEF WalGrows, TypeOK
  <2>3. k \in Kept /\ k < logfile_number_
    BY <2>1, <2>2, <1>3, <1>7, SMTT(30) DEF Kept, TypeOK
  <2>4. Full(k)
    BY <2>3, <1>5, <1>7
  <2> QED
    BY <2>1, <2>2, <2>3, <2>4, FullPersists
<1> QED
  BY <1>6, <1>7

\* ... keeps the state of a sync that it does not touch,
LEMMA SyncPersists ==
  ASSUME TypeOK, LogsInv, WalGrows, NEW a \in Syncers, SyncOK(a), sync'[a] = sync[a],
         min_log_number_to_keep_' \in Nat,
         min_log_number_to_keep_ <= min_log_number_to_keep_',
         logfile_number_' \in Nat, logfile_number_ <= logfile_number_',
         sync[a].todo \union sync[a].done \subseteq DOMAIN logs_',
         acked \subseteq acked', Len(batch') \in Nat, Len(batch) <= Len(batch')
  PROVE  SyncOK(a)'
<1> DEFINE y == sync[a]
<1>1. /\ y \in SyncStates /\ y.active \in Nat /\ y.up_to \in Nat /\ y.promise \in Nat
      /\ logfile_number_ \in Nat /\ y.active <= logfile_number_ /\ y.up_to <= y.active
      /\ y.todo \subseteq Nat /\ y.done \subseteq Nat
  <2>1. y \in SyncStates
    BY DEF TypeOK
  <2>2. y.active <= logfile_number_ /\ y.up_to = IF a = User THEN y.active ELSE y.active - 1
    BY DEF SyncOK
  <2>3. /\ y.active \in Nat /\ y.up_to \in Nat /\ y.promise \in Nat
        /\ y.todo \subseteq Nat /\ y.done \subseteq Nat
    BY <2>1 DEF SyncStates
  <2>4. logfile_number_ \in Nat
    BY DEF TypeOK
  <2> HIDE DEF y
  <2>5. y.up_to <= y.active
    BY <2>2, <2>3, SMTT(30)
  <2> QED
    BY <2>1, <2>2, <2>3, <2>4, <2>5
<1>2. ASSUME NEW n \in DOMAIN wal', n <= logfile_number_
      PROVE  /\ n \in DOMAIN wal /\ n \in Nat
             /\ wal[n].dir => wal'[n].dir
             /\ wal[n].synced \subseteq wal'[n].synced
             /\ wal[n].recs \subseteq wal'[n].recs
             /\ \A s \in wal'[n].recs : s \in wal[n].recs \/ s = Len(batch) + 1
             /\ n # logfile_number_ => (Full(n) => Full(n)')
  <2>1. ~(n > logfile_number_ /\ n \in Nat)
    BY <1>1, <1>2, SMTT(30)
  <2>2. n \in DOMAIN wal
    BY <2>1 DEF WalGrows
  <2>3. n \in Nat
    BY <2>2 DEF TypeOK
  <2>4. n # logfile_number_ => n < logfile_number_
    BY <2>3, <1>1, <1>2, SMTT(30)
  <2>5. n # logfile_number_ => (Full(n) => Full(n)')
    BY <2>2, <2>4, FullPersists
  <2>6. /\ wal[n].dir => wal'[n].dir
        /\ wal[n].synced \subseteq wal'[n].synced
        /\ wal[n].recs \subseteq wal'[n].recs
        /\ \A s \in wal'[n].recs : s \in wal[n].recs \/ s = Len(batch) + 1
    BY <2>1, SMTT(30) DEF WalGrows
  <2> QED
    BY <2>2, <2>3, <2>5, <2>6
<1>3. \A n \in Kept' : n \in DOMAIN wal' /\ (n <= logfile_number_ => n \in Kept)
  <2> SUFFICES ASSUME NEW n \in Kept', n <= logfile_number_
               PROVE  n \in Kept
    BY DEF Kept
  <2>1. n \in DOMAIN wal' /\ n >= min_log_number_to_keep_'
    BY DEF Kept
  <2>2. n \in DOMAIN wal /\ n \in Nat
    BY <2>1, <1>2
  <2> QED
    BY <2>1, <2>2, SMTT(30) DEF Kept, TypeOK
<1>4. /\ y.active <= logfile_number_'
      /\ y.todo \subseteq {n \in DOMAIN logs_' : n <= y.up_to}
      /\ y.done \subseteq {n \in DOMAIN logs_' : n <= y.up_to /\ n < y.active}
  BY <1>1, SMTT(30) DEF SyncOK
<1>5. ASSUME NEW n \in Kept', n <= y.up_to
      PROVE  \/ n \in y.todo
             \/ n < y.active /\ Full(n)'
             \/ n = y.active /\ y.pre \subseteq wal'[n].synced
  <2>1. n \in DOMAIN wal'
    BY <1>3
  <2>2. n \in DOMAIN wal' /\ n \in Nat
    BY <2>1, <1>5, <1>1 DEF WalGrows, TypeOK
  <2>3. n <= logfile_number_
    BY <2>2, <1>1, <1>5, SMTT(30)
  <2>4. n \in Kept
    BY <2>3, <1>3
  <2>5. \/ n \in y.todo
        \/ n < y.active /\ Full(n)
        \/ n = y.active /\ y.pre \subseteq wal[n].synced
    BY <2>4, <1>5 DEF SyncOK
  <2>6. n < y.active => n # logfile_number_
    BY <2>2, <1>1, SMTT(30)
  <2> QED
    BY <2>2, <2>3, <2>5, <2>6, <1>2
<1>6. ASSUME ~y.dir \/ y.pc = "mark", NEW n \in DOMAIN wal', n <= y.active
      PROVE  wal'[n].dir
  <2>1. n \in Nat
    BY DEF WalGrows, TypeOK
  <2>2. n <= logfile_number_
    BY <2>1, <1>1, <1>6, SMTT(30)
  <2>3. n \in DOMAIN wal /\ (wal[n].dir => wal'[n].dir)
    BY <2>2, <1>2
  <2> QED
    BY <2>3, <1>6 DEF SyncOK
<1>7. ASSUME NEW n \in DOMAIN wal', n = y.active
      PROVE  y.pre \subseteq wal'[n].recs
  <2>1. n \in DOMAIN wal /\ wal[n].recs \subseteq wal'[n].recs
    BY <1>1, <1>2, <1>7
  <2> QED
    BY <2>1, <1>7 DEF SyncOK
<1>8. ASSUME NEW n \in DOMAIN wal', NEW s \in wal'[n].recs, s <= y.promise
      PROVE  n < y.active \/ (n = y.active /\ s \in y.pre)
  <2>1. n \in Nat /\ n <= logfile_number_
    BY DEF WalGrows, TypeOK, LogsInv
  <2>2. y.promise <= Len(batch) /\ Len(batch) \in Nat
    BY ListLength DEF TypeOK, SyncOK
  <2>3. s # Len(batch) + 1
    BY <2>2, <1>1, <1>8, SMTT(30)
  <2>4. n \in DOMAIN wal /\ s \in wal[n].recs
    BY <2>1, <2>3, <1>2
  <2> QED
    BY <2>4, <1>8 DEF SyncOK
<1>9. y.pc = "mark" => y.todo = {}
  BY DEF SyncOK
<1>10. y.up_to = IF a = User THEN y.active ELSE y.active - 1
  BY DEF SyncOK
<1>11. y.promise <= Len(batch') /\ (a = User => 1..y.promise \subseteq acked')
  <2>1. y.promise <= Len(batch) /\ Len(batch) \in Nat
    BY ListLength DEF TypeOK, SyncOK
  <2>2. a = User => 1..y.promise \subseteq acked'
    BY DEF SyncOK
  <2> QED
    BY <2>1, <2>2, <1>1, SMTT(30)
<1> QED
  BY <1>4, <1>5, <1>6, <1>7, <1>8, <1>9, <1>10, <1>11, SMTT(30) DEF SyncOK

\* ... keeps the logs that have been closed synced,
LEMMA ClosedPersists ==
  ASSUME TypeOK, LogsInv, WalGrows, ClosedInv,
         min_log_number_to_keep_' \in Nat,
         min_log_number_to_keep_ <= min_log_number_to_keep_',
         DOMAIN logs_ \subseteq DOMAIN logs_',
         \A n \in DOMAIN wal' : n \in DOMAIN wal \/ n \in DOMAIN logs_'
  PROVE  ClosedInv'
<1> SUFFICES ASSUME NEW n \in Kept', n \notin DOMAIN logs_'
             PROVE  Full(n)'
  BY DEF ClosedInv
<1>1. n \in DOMAIN wal' /\ n \in DOMAIN wal /\ n \in Nat /\ n \in Kept /\ n \notin DOMAIN logs_
  BY SMTT(30) DEF Kept, TypeOK
<1>2. Full(n) /\ n < logfile_number_
  BY <1>1, SMTT(30) DEF ClosedInv, LogsInv, TypeOK
<1> QED
  BY <1>1, <1>2, FullPersists

\* ... and keeps the data of a family that it does not touch where recovery
\* finds it.
LEMMA FamilyPersists ==
  ASSUME TypeOK, LogsInv, WalGrows, NEW c \in families, FamilyOK(c),
         imm'[c] = imm[c], log_number'[c] = log_number[c],
         \A s \in mem'[c] : \/ s \in mem[c]
                           \/ /\ s \in acked' /\ logfile_number_ \in DOMAIN wal'
                              /\ s \in wal'[logfile_number_].recs,
         logfile_number_' \in Nat, logfile_number_ <= logfile_number_',
         acked \subseteq acked',
         min_log_number_to_keep_' <= log_number[c],
         \A n \in DOMAIN wal : n >= log_number[c] => n \in DOMAIN wal'
  PROVE  FamilyOK(c)'
<1>1. /\ c \in CFs /\ log_number[c] \in Nat /\ imm[c] \in Seq(Memtables)
      /\ Len(imm[c]) \in Nat /\ Len(batch) \in Nat /\ acked \subseteq 1..Len(batch)
  BY ListLength, SMTT(30) DEF TypeOK, LogsInv
<1>2. \A i \in 1..Len(imm[c]) : imm[c][i] \in Memtables /\ imm[c][i].next_log \in Nat
  <2>1. \A i \in 1..Len(imm[c]) : imm[c][i] \in Memtables
    BY <1>1, ListMember
  <2> QED
    BY <2>1 DEF Memtables
<1>3. \A n \in DOMAIN wal : n >= log_number[c] =>
        n \in DOMAIN wal' /\ wal[n].recs \subseteq wal'[n].recs
  <2> SUFFICES ASSUME NEW n \in DOMAIN wal, n >= log_number[c]
               PROVE  n \in DOMAIN wal' /\ wal[n].recs \subseteq wal'[n].recs
    OBVIOUS
  <2>1. n \in DOMAIN wal'
    OBVIOUS
  <2>2. ~(n > logfile_number_)
    BY SMTT(30) DEF LogsInv, TypeOK
  <2> QED
    BY <2>1, <2>2 DEF WalGrows
<1>4. \A n \in DOMAIN wal', s \in acked : s \in wal'[n].recs => n \in DOMAIN wal /\ s \in wal[n].recs
  BY <1>1, SMTT(30) DEF WalGrows
<1>5. log_number[c] <= logfile_number_' /\ mem'[c] \subseteq acked'
  <2>1. log_number[c] <= logfile_number_ /\ mem[c] \subseteq acked
    BY DEF FamilyOK
  <2> QED
    BY <2>1, <1>1, SMTT(30) DEF TypeOK
<1>6. ASSUME NEW s \in mem'[c]
      PROVE  \E n \in DOMAIN wal' : /\ s \in wal'[n].recs /\ n >= log_number[c]
                                    /\ \A i \in 1..Len(imm[c]) : n >= imm[c][i].next_log
  <2>1. CASE s \in mem[c]
    BY <2>1, <1>3 DEF FamilyOK
  <2>2. CASE logfile_number_ \in DOMAIN wal' /\ s \in wal'[logfile_number_].recs
    <3>1. /\ log_number[c] <= logfile_number_
          /\ \A i \in 1..Len(imm[c]) : imm[c][i].next_log <= logfile_number_
      BY DEF FamilyOK
    <3>2. /\ logfile_number_ >= log_number[c]
          /\ \A i \in 1..Len(imm[c]) : logfile_number_ >= imm[c][i].next_log
      BY <3>1, <1>1, <1>2 DEF TypeOK
    <3> QED
      BY <3>2, <2>2
  <2> QED
    BY <2>1, <2>2
<1>7. ASSUME NEW i \in 1..Len(imm[c])
      PROVE  /\ imm[c][i].data \subseteq acked'
             /\ log_number[c] <= imm[c][i].next_log
             /\ imm[c][i].next_log <= logfile_number_'
             /\ \A j \in 1..Len(imm[c]) : j < i => imm[c][j].next_log <= imm[c][i].next_log
  BY <1>2, SMTT(30) DEF FamilyOK, TypeOK
<1>8. ASSUME NEW i \in 1..Len(imm[c]), NEW s \in imm[c][i].data
      PROVE  /\ \A n \in DOMAIN wal' : s \in wal'[n].recs => n < imm[c][i].next_log
             /\ \E n \in DOMAIN wal' :
                  /\ s \in wal'[n].recs /\ n >= log_number[c]
                  /\ \A j \in 1..Len(imm[c]) : j < i => n >= imm[c][j].next_log
  <2>1. s \in acked
    BY DEF FamilyOK
  <2>2. \A n \in DOMAIN wal : s \in wal[n].recs => n < imm[c][i].next_log
    BY DEF FamilyOK
  <2>3. \E n \in DOMAIN wal :
          /\ s \in wal[n].recs /\ n >= log_number[c]
          /\ \A j \in 1..Len(imm[c]) : j < i => n >= imm[c][j].next_log
    BY DEF FamilyOK
  <2> QED
    BY <2>1, <2>2, <2>3, <1>3, <1>4
<1> QED
  BY <1>5, <1>6, <1>7, <1>8 DEF FamilyOK

\* The same for what MANIFEST holds.
LEMMA ReplayPersists ==
  ASSUME TypeOK, LogsInv, WalGrows, ReplayInv, UNCHANGED <<families, manifest>>,
         acked \subseteq acked'
  PROVE  ReplayInv'
<1>1. Len(batch) \in Nat /\ acked \subseteq 1..Len(batch)
  BY ListLength, SMTT(30) DEF TypeOK, LogsInv
<1>2. \A n \in DOMAIN wal', s \in acked : s \in wal'[n].recs => n \in DOMAIN wal /\ s \in wal[n].recs
  BY <1>1, SMTT(30) DEF WalGrows
<1> QED
  BY <1>2 DEF ReplayInv

\* The memtables of a flush job hold what was returned.
LEMMA JobData ==
  ASSUME TypeOK, FlushInv, DataInv, NEW c \in CFs, flush[c].pc \in Picked
  PROVE  /\ c \in families /\ flush[c].n \in 1..Len(imm[c])
         /\ \A i \in 1..flush[c].n : i \in 1..Len(imm[c]) /\ imm[c][i].data \subseteq acked
<1>1. c \in families /\ flush[c].n \in 1..Len(imm[c]) /\ Len(imm[c]) \in Nat
  BY ListLength DEF FlushInv, JobOK, Picked, TypeOK
<1>2. \A i \in 1..flush[c].n : i \in 1..Len(imm[c])
  BY <1>1, SMTT(30)
<1> QED
  BY <1>1, <1>2 DEF DataInv, FamilyOK

\* What is durable stays so.
LEMMA DurableFrame ==
  ASSUME TypeOK, LogsInv, DataInv, FlushInv, ReplayInv, DurableInv, WalGrows,
         UNCHANGED families, acked \subseteq acked',
         min_log_number_to_keep_' \in Nat,
         min_log_number_to_keep_ <= min_log_number_to_keep_',
         \A s \in synced' : s \in synced \/ (s \in acked' /\ Durable(s)'),
         Cardinality(families) > 1 =>
           \A c \in families :
             /\ \A s \in manifest'.flushed[c] : s \in manifest.flushed[c] \/ Durable(s)'
             /\ flush'[c].pc \in {"write", "queue", "commit"} =>
                  \/ /\ flush[c].pc \in {"write", "queue", "commit"}
                     /\ flush'[c].n = flush[c].n
                     /\ \A i \in 1..flush[c].n : imm'[c][i] = imm[c][i]
                  \/ \A i \in 1..flush'[c].n : \A s \in imm'[c][i].data : Durable(s)'
  PROVE  DurableInv'
<1>1. \A s \in acked : Durable(s) => Durable(s)'
  <2>1. acked \subseteq 1..Len(batch)
    BY ListLength, SMTT(30) DEF TypeOK, LogsInv
  <2> QED
    BY <2>1, DurablePersists
<1>2. synced' \subseteq acked' /\ \A s \in synced' : Durable(s)'
  BY <1>1 DEF DurableInv
<1>3. ASSUME Cardinality(families) > 1, NEW c \in families
      PROVE  /\ \A s \in manifest'.flushed[c] : Durable(s)'
             /\ flush'[c].pc \in {"write", "queue", "commit"} =>
                  \A i \in 1..flush'[c].n : \A s \in imm'[c][i].data : Durable(s)'
  <2>1. \A s \in manifest'.flushed[c] : Durable(s)'
    BY <1>1, <1>3 DEF DurableInv, ReplayInv
  <2>2. ASSUME flush[c].pc \in {"write", "queue", "commit"}, flush'[c].n = flush[c].n,
               \A i \in 1..flush[c].n : imm'[c][i] = imm[c][i],
               NEW i \in 1..flush'[c].n, NEW s \in imm'[c][i].data
        PROVE  Durable(s)'
    <3>1. i \in 1..flush[c].n /\ imm'[c][i] = imm[c][i] /\ flush[c].pc \in Picked
      BY <2>2 DEF Picked
    <3>2. s \in imm[c][i].data /\ s \in acked
      BY <3>1, JobData DEF TypeOK
    <3>3. Durable(s)
      BY <2>2, <3>1, <3>2, <1>3 DEF DurableInv
    <3> QED
      BY <3>2, <3>3, <1>1
  <2> QED
    BY <1>3, <2>1, <2>2
<1> QED
  BY <1>2, <1>3 DEF DurableInv

\* The claims stay where neither the marks nor the claimants change.
LEMMA ClaimFrame ==
  ASSUME ClaimInv, UNCHANGED logs_,
         writer'.pc = "sync" <=> writer.pc = "sync",
         \A a \in Syncers : /\ sync'[a].pc # "idle" <=> sync[a].pc # "idle"
                            /\ sync'[a].up_to = sync[a].up_to,
         \A c \in CFs : flush'[c].pc = "close" <=> flush[c].pc = "close"
  PROVE  ClaimInv'
<1>1. Front' = Front
  BY DEF Front
<1>2. \A a \in Syncers : \A n : Holds(a, n)' <=> Holds(a, n)
  BY DEF Holds
<1>3. \A c \in CFs : \A n : Closes(c, n)' <=> Closes(c, n)
  BY <1>1 DEF Closes
<1> QED
  BY <1>2, <1>3 DEF ClaimInv

\* A flush job that a step does not touch stays sound, ...
LEMMA JobPersists ==
  ASSUME TypeOK, NEW c \in CFs, JobOK(c), UNCHANGED families, flush'[c] = flush[c],
         sync'[c].active = sync[c].active,
         Len(imm'[c]) \in Nat, Len(imm[c]) <= Len(imm'[c]),
         \A i \in 1..Len(imm[c]) : imm'[c][i] = imm[c][i],
         \A d \in families : log_number'[d] \in Nat /\ log_number[d] <= log_number'[d]
  PROVE  JobOK(c)'
<1>1. Len(imm[c]) \in Nat /\ flush[c].min \in Nat /\ \A d \in families : log_number[d] \in Nat
  BY ListLength DEF TypeOK, FlushStates
<1>2. flush[c].pc \in Picked => flush[c].n \in 1..Len(imm'[c]) /\ flush[c].n \in 1..Len(imm[c])
  BY <1>1, SMTT(30) DEF JobOK
<1>3. flush[c].pc \in Picked => imm'[c][flush[c].n] = imm[c][flush[c].n]
  BY <1>2
<1>4. ASSUME flush[c].pc \in {"queue", "commit"}, NEW d \in families \ {c}
      PROVE  flush[c].min <= log_number'[d]
  <2>1. flush[c].min <= log_number[d]
    BY <1>4 DEF JobOK
  <2> QED
    BY <2>1, <1>1, SMTT(30)
<1> QED
  BY <1>2, <1>3, <1>4 DEF JobOK, Picked

\* ... and so does a purge, ...
LEMMA ClosePersists ==
  ASSUME TypeOK, NEW c \in CFs, CloseOK(c), flush'[c] = flush[c],
         Front' = Front \/ flush[c].pc # "close",
         min_log_number_to_keep_' \in Nat,
         min_log_number_to_keep_ <= min_log_number_to_keep_'
  PROVE  CloseOK(c)'
<1>1. flush[c].min \in Nat
  BY DEF TypeOK, FlushStates
<1> QED
  BY <1>1, SMTT(30) DEF CloseOK, TypeOK

\* ... and the edit that is being written.
LEMMA ManifestPersists ==
  ASSUME TypeOK, ManifestInv,
         UNCHANGED <<families, manifestVars, min_log_number_to_keep_>>,
         \A c \in CFs : /\ flush'[c].pc = "commit" <=> flush[c].pc = "commit"
                        /\ flush[c].pc = "commit" =>
                             /\ flush'[c] = flush[c]
                             /\ \A i \in 1..flush[c].n : imm'[c][i] = imm[c][i],
         \A c \in families : log_number'[c] \in Nat /\ log_number[c] <= log_number'[c]
  PROVE  ManifestInv'
<1>1. /\ \A c \in CFs : log_number[c] \in Nat /\ manifest.log[c] \in Nat
      /\ \A c \in CFs : next_manifest.log[c] \in Nat
      /\ manifest' = manifest /\ next_manifest' = next_manifest /\ families \subseteq CFs
  BY DEF TypeOK, Manifests, manifestVars
<1>2. \A c \in families : manifest.log[c] <= log_number'[c]
  <2> SUFFICES ASSUME NEW c \in families
               PROVE  manifest.log[c] <= log_number'[c]
    OBVIOUS
  <2>1. manifest.log[c] <= log_number[c]
    BY DEF ManifestInv
  <2> QED
    BY <2>1, <1>1, SMTT(30)
<1>3. ASSUME NEW c \in CFs, flush'[c].pc = "commit"
      PROVE  /\ next_manifest.min = UpTo(manifest.min, flush'[c].min)
             /\ next_manifest.flushed = [manifest.flushed EXCEPT ![c] =
                  @ \union UNION {imm'[c][i].data : i \in 1..flush'[c].n}]
             /\ next_manifest.log[c] = flush'[c].next_log
             /\ \A d \in families : manifest.log[d] <= next_manifest.log[d]
             /\ \A d \in families \ {c} : next_manifest.log[d] <= log_number'[d]
  <2>1. flush'[c] = flush[c] /\ flush[c].pc = "commit"
    BY <1>3
  <2>2. {imm'[c][i].data : i \in 1..flush[c].n} = {imm[c][i].data : i \in 1..flush[c].n}
    BY <2>1
  <2>3. /\ next_manifest.min = UpTo(manifest.min, flush[c].min)
        /\ next_manifest.flushed = [manifest.flushed EXCEPT ![c] =
             @ \union UNION {imm[c][i].data : i \in 1..flush[c].n}]
        /\ next_manifest.log[c] = flush[c].next_log
        /\ \A d \in families : manifest.log[d] <= next_manifest.log[d]
    BY <2>1 DEF ManifestInv
  <2>4. ASSUME NEW d \in families \ {c}
        PROVE  next_manifest.log[d] <= log_number'[d]
    <3>1. next_manifest.log[d] <= log_number[d]
      BY <2>1 DEF ManifestInv
    <3> QED
      BY <3>1, <1>1, SMTT(30)
  <2> QED
    BY <2>1, <2>2, <2>3, <2>4
<1>4. manifest'.min = min_log_number_to_keep_'
  BY <1>1 DEF ManifestInv
<1>5. \A c, d \in CFs : flush'[c].pc = "commit" /\ flush'[d].pc = "commit" => c = d
  BY DEF ManifestInv
<1>6. (\A c \in CFs : flush'[c].pc # "commit") => next_manifest' = manifest'
  BY <1>1 DEF ManifestInv
<1> HIDE DEF UpTo
<1> QED
  BY <1>1, <1>2, <1>3, <1>4, <1>5, <1>6 DEF ManifestInv, UpTo

\* All of it, for a step that touches no job, no memtable and no number.
LEMMA FlushFrame ==
  ASSUME TypeOK, FlushInv, CloseInv, ManifestInv,
         UNCHANGED <<families, flush, imm, log_number, min_log_number_to_keep_,
                     manifestVars>>,
         \A c \in CFs : sync'[c].active = sync[c].active,
         Front' = Front \/ \A c \in CFs : flush[c].pc # "close"
  PROVE  FlushInv' /\ CloseInv' /\ ManifestInv'
<1>1. /\ \A c \in CFs : Len(imm[c]) \in Nat /\ log_number[c] \in Nat
      /\ families \subseteq CFs /\ min_log_number_to_keep_ \in Nat
  BY ListLength DEF TypeOK
<1>2. ASSUME NEW c \in CFs
      PROVE  JobOK(c)' /\ CloseOK(c)'
  <2>1. JobOK(c) /\ CloseOK(c)
    BY DEF FlushInv, CloseInv
  <2>2. JobOK(c)'
    BY <1>1, <2>1, JobPersists, SMTT(30)
  <2>3. CloseOK(c)'
    BY <1>1, <2>1, ClosePersists, SMTT(30)
  <2> QED
    BY <2>2, <2>3
<1>3. ManifestInv'
  BY <1>1, ManifestPersists, SMTT(30)
<1> QED
  BY <1>2, <1>3 DEF FlushInv, CloseInv

\* The records of a sync are kept where the memtables do not change.
LEMMA DataFrame ==
  ASSUME TypeOK, LogsInv, DataInv, WalGrows,
         UNCHANGED <<families, mem, imm, log_number, min_log_number_to_keep_, manifest,
                     logfile_number_, acked>>,
         \A s \in acked : batch'[s] = batch[s],
         \A c \in families : \A n \in DOMAIN wal : n >= log_number[c] => n \in DOMAIN wal'
  PROVE  DataInv'
<1>1. ASSUME NEW c \in families
      PROVE  FamilyOK(c)'
  <2>1. FamilyOK(c) /\ min_log_number_to_keep_ <= log_number[c]
    BY DEF DataInv, FamilyOK
  <2>2. logfile_number_ \in Nat /\ logfile_number_ <= logfile_number_
    BY SMTT(30) DEF TypeOK
  <2> QED
    BY <2>1, <2>2, FamilyPersists
<1>2. ASSUME NEW s \in acked, NEW c \in batch[s]
      PROVE  \/ s \in manifest.flushed[c]
             \/ s \in mem[c]
             \/ \E i \in 1..Len(imm[c]) : s \in imm[c][i].data
  BY DEF DataInv
<1> QED
  BY <1>1, <1>2 DEF DataInv

\* The first open log.
LEMMA FrontIsFirst ==
  ASSUME LogsHaveOldest,
         TypeOK, LogsInv
  PROVE  Front \in DOMAIN logs_ /\ \A n \in DOMAIN logs_ : Front <= n
<1>1. DOMAIN logs_ \subseteq Nat /\ DOMAIN logs_ # {}
  BY DEF TypeOK, LogsInv
<1> QED
  BY <1>1, OldestIsLeast DEF Front

-----------------------------------------------------------------------------
(* The steps of a flush job that change little else.                       *)

\* Goto changes the program counter of one job.
LEMMA GotoFacts ==
  ASSUME TypeOK, NEW c \in CFs, NEW p,
         p \in {"claim", "sync", "write", "queue", "commit", "find", "logs", "close"},
         Goto(c, p)
  PROVE  /\ flush' \in [CFs -> FlushStates]
         /\ \A d \in CFs \ {c} : flush'[d] = flush[d]
         /\ flush'[c].pc = p /\ flush'[c].n = flush[c].n
         /\ flush'[c].next_log = flush[c].next_log /\ flush'[c].min = flush[c].min
         /\ flush'[c].del = flush[c].del
<1>1. flush' = [flush EXCEPT ![c] = [flush[c] EXCEPT !.pc = p]] /\ flush[c] \in FlushStates
  BY DEF Goto, TypeOK
<1>2. [flush[c] EXCEPT !.pc = p] \in FlushStates
  BY <1>1 DEF FlushStates
<1> QED
  BY <1>1, <1>2 DEF TypeOK, FlushStates

\* The other jobs stay as they are, and so does what is being written, when a job
\* that is neither closing a log nor committing moves on.
LEMMA OtherJobs ==
  ASSUME TypeOK, FlushInv, CloseInv, ManifestInv, NEW c \in CFs,
         UNCHANGED <<families, imm, log_number, min_log_number_to_keep_>>,
         \A d \in CFs \ {c} : flush'[d] = flush[d] /\ sync'[d].active = sync[d].active,
         Front' = Front \/ \A d \in CFs \ {c} : flush[d].pc # "close"
  PROVE  /\ \A d \in CFs \ {c} : JobOK(d)' /\ CloseOK(d)'
         /\ UNCHANGED manifestVars /\ flush[c].pc # "commit" /\ flush'[c].pc # "commit"
              => ManifestInv'
<1>1. /\ \A d \in CFs : Len(imm[d]) \in Nat /\ log_number[d] \in Nat
      /\ families \subseteq CFs /\ min_log_number_to_keep_ \in Nat
  BY ListLength DEF TypeOK
<1>2. ASSUME NEW d \in CFs \ {c}
      PROVE  JobOK(d)' /\ CloseOK(d)'
  <2>1. JobOK(d) /\ CloseOK(d)
    BY DEF FlushInv, CloseInv
  <2>2. JobOK(d)'
    BY <1>1, <2>1, JobPersists, SMTT(30)
  <2>3. CloseOK(d)'
    BY <1>1, <2>1, ClosePersists, SMTT(30)
  <2> QED
    BY <2>2, <2>3
<1>3. ASSUME UNCHANGED manifestVars, flush[c].pc # "commit", flush'[c].pc # "commit"
      PROVE  ManifestInv'
  <2>1. \A d \in CFs : /\ flush'[d].pc = "commit" <=> flush[d].pc = "commit"
                       /\ flush[d].pc = "commit" => flush'[d] = flush[d]
    BY <1>3
  <2> QED
    BY <1>1, <1>3, <2>1, ManifestPersists, SMTT(30)
<1> QED
  BY <1>2, <1>3

\* What holds of logs, syncs and data when a job moves on without touching them.
LEMMA QuietJob ==
  ASSUME WFInv,
         UNCHANGED <<families, wal, logs_, logfile_number_, log_empty_, log_dir_synced_,
                     mem, imm, log_number, min_log_number_to_keep_, manifest, ackVars,
                     next_file_number_, writer, sync, syncs>>,
         alive_log_files_' \subseteq Nat, next_manifest' \in Manifests,
         flush' \in [CFs -> FlushStates],
         \A c \in CFs : /\ flush'[c].pc = "sync" <=> flush[c].pc = "sync"
                        /\ flush'[c].pc = "close" <=> flush[c].pc = "close",
         Cardinality(families) > 1 =>
           \A c \in families : flush'[c].pc \in {"write", "queue", "commit"} =>
             flush[c].pc \in {"write", "queue", "commit"} /\ flush'[c].n = flush[c].n
  PROVE  /\ TypeOK' /\ LogsInv' /\ WriterInv' /\ SyncInv' /\ ClosedInv' /\ ClaimInv'
         /\ DataInv' /\ ReplayInv' /\ DurableInv'
<1> USE DEF WFInv
<1>a. batch' = batch /\ acked' = acked /\ synced' = synced
  BY DEF ackVars
<1>b. WalGrows
  BY DEF WalGrows, LogsInv
<1>1. TypeOK'
  BY <1>a DEF TypeOK
<1>2. LogsInv' /\ WriterInv' /\ ClosedInv'
  BY <1>a DEF LogsInv, WriterInv, ClosedInv, Kept, Full
<1>3. SyncInv'
  <2>1. \A a \in Syncers : SyncOK(a) => SyncOK(a)'
    BY <1>a, SMTT(30) DEF SyncOK, Kept, Full
  <2> QED
    BY <2>1 DEF SyncInv
<1>4. ClaimInv'
  BY ClaimFrame
<1>5. DataInv' /\ ReplayInv'
  BY <1>a, <1>b, DataFrame, ReplayPersists
<1>6. DurableInv'
  <2>1. min_log_number_to_keep_ \in Nat
    BY DEF TypeOK
  <2> QED
    BY <1>a, <1>b, <2>1, DurableFrame, SMTT(30)
<1> QED
  BY <1>1, <1>2, <1>3, <1>4, <1>5, <1>6

\* A job picks the immutable memtables of its family.
LEMMA FlushMemTableStep ==
  ASSUME WFInv, UNCHANGED families, NEW c \in families, FlushMemTable(c)
  PROVE  WFInv'
<1> USE DEF WFInv
<1> DEFINE p == IF Cardinality(families) > 1 THEN "claim" ELSE "write"
<1>a. /\ flush[c].pc = "idle" /\ imm[c] # <<>>
      /\ flush' = [flush EXCEPT ![c].n = Len(imm[c]), ![c].pc = p]
  BY DEF FlushMemTable
<1>u. /\ UNCHANGED <<wal, logs_, logfile_number_, log_empty_, log_dir_synced_,
                     mem, imm, log_number, min_log_number_to_keep_, manifest, ackVars,
                     next_file_number_, writer, sync, syncs>>
      /\ UNCHANGED manifestVars /\ Front' = Front
      /\ alive_log_files_' \subseteq Nat /\ next_manifest' \in Manifests
  BY DEF FlushMemTable, walVars, cfVars, manifestVars, TypeOK, Front
<1>b. c \in CFs /\ Len(imm[c]) \in Nat /\ Len(imm[c]) # 0
  BY <1>a, ListLength, ListNotEmpty DEF TypeOK
<1>c. /\ flush' \in [CFs -> FlushStates] /\ flush'[c].pc = p /\ flush'[c].n = Len(imm[c])
      /\ \A d \in CFs \ {c} : flush'[d] = flush[d]
  <2>1. flush' = [flush EXCEPT ![c] = [flush[c] EXCEPT !.n = Len(imm[c]), !.pc = p]]
    BY <1>a DEF TypeOK
  <2>2. flush[c] \in FlushStates /\ p \in {"claim", "write"}
    BY <1>b DEF TypeOK
  <2> HIDE DEF p
  <2>3. [flush[c] EXCEPT !.n = Len(imm[c]), !.pc = p] \in FlushStates
    BY <1>b, <2>2 DEF FlushStates
  <2> QED
    BY <1>b, <2>1, <2>2, <2>3 DEF TypeOK, FlushStates
<1>d. p \in {"claim", "write"} /\ (Cardinality(families) > 1 => p = "claim")
  OBVIOUS
<1> HIDE DEF p
<1>1. /\ TypeOK' /\ LogsInv' /\ WriterInv' /\ SyncInv' /\ ClosedInv' /\ ClaimInv'
      /\ DataInv' /\ ReplayInv' /\ DurableInv'
  <2>1. \A d \in CFs : /\ flush'[d].pc = "sync" <=> flush[d].pc = "sync"
                       /\ flush'[d].pc = "close" <=> flush[d].pc = "close"
    BY <1>a, <1>c, <1>d
  <2>2. Cardinality(families) > 1 =>
          \A d \in families : flush'[d].pc \in {"write", "queue", "commit"} =>
            flush[d].pc \in {"write", "queue", "commit"} /\ flush'[d].n = flush[d].n
    BY <1>c, <1>d DEF TypeOK
  <2> QED
    BY <1>u, <1>c, <2>1, <2>2, QuietJob
<1>2. (\A d \in CFs \ {c} : JobOK(d)' /\ CloseOK(d)') /\ ManifestInv'
  <2>1. flush[c].pc # "commit" /\ flush'[c].pc # "commit"
    BY <1>a, <1>c, <1>d
  <2> QED
    BY <1>u, <1>b, <1>c, <2>1, OtherJobs
<1>3. JobOK(c)' /\ CloseOK(c)'
  BY <1>u, <1>b, <1>c, <1>d, SMTT(30) DEF JobOK, CloseOK, Picked
<1> QED
  BY <1>1, <1>2, <1>3 DEF FlushInv, CloseInv

\* The edit of a job: a log number and the smallest log anybody needs.
LEMMA InstallResultsStep ==
  ASSUME LogsHaveOldest,
         WFInv, UNCHANGED families, NEW c \in families, InstallResults(c)
  PROVE  WFInv'
<1> USE DEF WFInv
<1> DEFINE next_log == imm[c][flush[c].n].next_log
           others == {log_number[d] : d \in families \ {c}}
           m == Oldest(others \union {next_log})
<1>a. /\ flush[c].pc = "write"
      /\ flush' = [flush EXCEPT ![c].pc = "queue", ![c].next_log = next_log, ![c].min = m]
  BY DEF InstallResults
<1>u. /\ UNCHANGED <<wal, logs_, logfile_number_, log_empty_, log_dir_synced_,
                     mem, imm, log_number, min_log_number_to_keep_, manifest, ackVars,
                     next_file_number_, writer, sync, syncs>>
      /\ UNCHANGED manifestVars /\ Front' = Front
      /\ alive_log_files_' \subseteq Nat /\ next_manifest' \in Manifests
  BY DEF InstallResults, walVars, cfVars, manifestVars, TypeOK, Front
<1>b. c \in CFs /\ families \subseteq CFs
  BY DEF TypeOK
<1>c. flush[c].n \in 1..Len(imm[c]) /\ next_log \in Nat
  <2>1. flush[c].n \in 1..Len(imm[c])
    BY <1>a, <1>b, JobData DEF Picked
  <2>2. imm[c][flush[c].n] \in Memtables
    BY <1>b, <2>1, ListMember DEF TypeOK
  <2> QED
    BY <2>1, <2>2 DEF Memtables
<1>d. m \in Nat /\ m <= next_log /\ \A d \in families \ {c} : m <= log_number[d]
  <2>1. others \union {next_log} \subseteq Nat
    BY <1>b, <1>c DEF TypeOK
  <2> DEFINE S == others \union {next_log}
  <2>2. S \subseteq Nat /\ S # {} /\ next_log \in S /\ \A d \in families \ {c} : log_number[d] \in S
    BY <2>1
  <2> HIDE DEF S
  <2>3. Oldest(S) \in S /\ \A y \in S : Oldest(S) <= y
    BY <2>2, OldestIsLeast
  <2>4. Oldest(S) \in Nat /\ Oldest(S) <= next_log /\ \A d \in families \ {c} : Oldest(S) <= log_number[d]
    BY <2>2, <2>3
  <2> QED
    BY <2>4 DEF S
<1> HIDE DEF m, next_log
<1>e. /\ flush' \in [CFs -> FlushStates] /\ flush'[c].pc = "queue" /\ flush'[c].n = flush[c].n
      /\ flush'[c].next_log = next_log /\ flush'[c].min = m
      /\ \A d \in CFs \ {c} : flush'[d] = flush[d]
  <2> DEFINE new == [flush[c] EXCEPT !.pc = "queue", !.next_log = next_log, !.min = m]
  <2>1. flush' = [flush EXCEPT ![c] = new]
    BY <1>a, <1>b DEF TypeOK
  <2>2. flush[c] \in FlushStates
    BY <1>b DEF TypeOK
  <2>3. /\ new \in FlushStates /\ new.pc = "queue" /\ new.next_log = next_log /\ new.min = m
        /\ new.n = flush[c].n
    BY <1>c, <1>d, <2>2 DEF FlushStates
  <2> HIDE DEF new
  <2> QED
    BY <1>b, <2>1, <2>3 DEF TypeOK
<1>1. /\ TypeOK' /\ LogsInv' /\ WriterInv' /\ SyncInv' /\ ClosedInv' /\ ClaimInv'
      /\ DataInv' /\ ReplayInv' /\ DurableInv'
  <2>1. \A d \in CFs : /\ flush'[d].pc = "sync" <=> flush[d].pc = "sync"
                       /\ flush'[d].pc = "close" <=> flush[d].pc = "close"
    BY <1>a, <1>e
  <2>2. \A d \in families : flush'[d].pc \in {"write", "queue", "commit"} =>
            flush[d].pc \in {"write", "queue", "commit"} /\ flush'[d].n = flush[d].n
    BY <1>a, <1>b, <1>e
  <2> QED
    BY <1>u, <1>e, <2>1, <2>2, QuietJob
<1>2. (\A d \in CFs \ {c} : JobOK(d)' /\ CloseOK(d)') /\ ManifestInv'
  <2>1. flush[c].pc # "commit" /\ flush'[c].pc # "commit"
    BY <1>a, <1>e
  <2> QED
    BY <1>u, <1>b, <1>e, <2>1, OtherJobs
<1>3. JobOK(c)' /\ CloseOK(c)'
  <2>1. flush'[c].next_log = imm[c][flush[c].n].next_log
    BY <1>e DEF next_log
  <2> QED
    BY <1>u, <1>c, <1>d, <1>e, <2>1 DEF JobOK, CloseOK, Picked
<1> QED
  BY <1>1, <1>2, <1>3 DEF FlushInv, CloseInv

\* A job writes its edit to MANIFEST.
LEMMA LogAndApplyStep ==
  ASSUME WFInv, UNCHANGED families, NEW c \in families, NEW roll \in BOOLEAN,
         LogAndApply(c, roll)
  PROVE  WFInv'
<1> USE DEF WFInv
<1> DEFINE log == IF roll THEN log_number ELSE manifest.log
           data == UNION {imm[c][i].data : i \in 1..flush[c].n}
           F == [manifest.flushed EXCEPT ![c] = @ \union data]
           L == [log EXCEPT ![c] = UpTo(@, flush[c].next_log)]
           M == UpTo(manifest.min, flush[c].min)
<1>a. /\ flush[c].pc = "queue" /\ \A d \in families : flush[d].pc # "commit"
      /\ next_manifest' = [flushed |-> F, log |-> L, min |-> M]
      /\ Goto(c, "commit")
  BY DEF LogAndApply
<1>u. /\ UNCHANGED <<wal, logs_, logfile_number_, log_empty_, log_dir_synced_,
                     mem, imm, log_number, min_log_number_to_keep_, manifest, ackVars,
                     next_file_number_, writer, sync, syncs>>
      /\ alive_log_files_' \subseteq Nat /\ Front' = Front
  BY DEF LogAndApply, walVars, TypeOK, Front
<1>b. /\ c \in CFs /\ families \subseteq CFs /\ flush[c] \in FlushStates
      /\ manifest \in Manifests /\ log_number \in [CFs -> Nat]
  BY DEF TypeOK
<1>c. /\ flush' \in [CFs -> FlushStates]
      /\ \A d \in CFs \ {c} : flush'[d] = flush[d]
      /\ flush'[c].pc = "commit" /\ flush'[c].n = flush[c].n
      /\ flush'[c].next_log = flush[c].next_log /\ flush'[c].min = flush[c].min
  BY <1>a, <1>b, GotoFacts
<1>d. \A d \in CFs : flush[d].pc # "commit"
  BY <1>a DEF FlushInv, JobOK
<1>e. /\ flush[c].n \in 1..Len(imm[c]) /\ flush[c].next_log = imm[c][flush[c].n].next_log
      /\ flush[c].min <= flush[c].next_log
      /\ \A d \in families \ {c} : flush[c].min <= log_number[d]
  BY <1>a, <1>b DEF FlushInv, JobOK, Picked
<1>f. flush[c].next_log \in Nat /\ flush[c].min \in Nat /\ manifest.min \in Nat
  BY <1>b DEF FlushStates, Manifests
<1>g. log_number[c] <= flush[c].next_log
  BY <1>e DEF DataInv, FamilyOK
<1>h. /\ log \in [CFs -> Nat]
      /\ \A d \in families : manifest.log[d] <= log[d] /\ log[d] <= log_number[d]
  <2>1. manifest.log \in [CFs -> Nat] /\ \A d \in families : manifest.log[d] <= log_number[d]
    BY <1>b DEF Manifests, ManifestInv
  <2>2. \A d \in families : log_number[d] \in Nat /\ manifest.log[d] \in Nat
    BY <1>b, <2>1
  <2> QED
    BY <1>b, <2>1, <2>2, SMTT(30)
<1>i. /\ F = [manifest.flushed EXCEPT ![c] =
                @ \union UNION {imm[c][i].data : i \in 1..flush[c].n}]
      /\ F \in [CFs -> SUBSET Nat]
  <2>1. data \subseteq Nat
    <3>1. \A i \in 1..flush[c].n : imm[c][i].data \subseteq acked
      BY <1>a, <1>b, JobData DEF Picked
    <3>2. data \subseteq acked
      BY <3>1
    <3> QED
      BY <3>2 DEF TypeOK
  <2>2. manifest.flushed \in [CFs -> SUBSET Nat]
    BY <1>b DEF Manifests
  <2> QED
    BY <1>b, <2>1, <2>2
<1> HIDE DEF log, F
<1>j. /\ L \in [CFs -> Nat] /\ L[c] = flush[c].next_log
      /\ \A d \in families : manifest.log[d] <= L[d]
      /\ \A d \in families \ {c} : L[d] <= log_number[d]
  <2>1. log[c] \in Nat /\ log[c] <= flush[c].next_log /\ log_number[c] \in Nat
    BY <1>b, <1>f, <1>g, <1>h, SMTT(30)
  <2>2. UpTo(log[c], flush[c].next_log) = flush[c].next_log
    BY <1>f, <2>1, UpToFacts
  <2>3. L = [log EXCEPT ![c] = flush[c].next_log]
    BY <1>b, <1>h, <2>2
  <2> HIDE DEF L
  <2>4. L \in [CFs -> Nat] /\ L[c] = flush[c].next_log /\ \A d \in CFs \ {c} : L[d] = log[d]
    BY <1>b, <1>f, <1>h, <2>3
  <2>5. manifest.log[c] <= L[c]
    <3>1. manifest.log[c] <= log[c] /\ manifest.log[c] \in Nat
      BY <1>b, <1>h DEF Manifests
    <3> QED
      BY <1>f, <2>1, <2>4, <3>1, SMTT(30)
  <2> QED
    BY <1>b, <1>h, <2>4, <2>5
<1>k. M \in Nat
  BY <1>f, UpToFacts
<1>l. M = UpTo(manifest.min, flush[c].min)
  OBVIOUS
<1> HIDE DEF L, M
<1>m. /\ next_manifest' \in Manifests /\ next_manifest'.flushed = F
      /\ next_manifest'.log = L /\ next_manifest'.min = M
  BY <1>a, <1>i, <1>j, <1>k DEF Manifests
<1>1. /\ TypeOK' /\ LogsInv' /\ WriterInv' /\ SyncInv' /\ ClosedInv' /\ ClaimInv'
      /\ DataInv' /\ ReplayInv' /\ DurableInv'
  <2>1. \A d \in CFs : /\ flush'[d].pc = "sync" <=> flush[d].pc = "sync"
                       /\ flush'[d].pc = "close" <=> flush[d].pc = "close"
    BY <1>a, <1>c
  <2>2. \A d \in families : flush'[d].pc \in {"write", "queue", "commit"} =>
            flush[d].pc \in {"write", "queue", "commit"} /\ flush'[d].n = flush[d].n
    BY <1>a, <1>b, <1>c
  <2> QED
    BY <1>u, <1>c, <1>m, <2>1, <2>2, QuietJob
<1>2. \A d \in CFs \ {c} : JobOK(d)' /\ CloseOK(d)'
  BY <1>u, <1>b, <1>c, OtherJobs
<1>3. JobOK(c)' /\ CloseOK(c)'
  BY <1>u, <1>c, <1>e DEF JobOK, CloseOK, Picked
<1>4. ManifestInv'
  <2>1. \A d \in CFs : flush'[d].pc = "commit" => d = c
    BY <1>c, <1>d
  <2>2. /\ manifest'.min = min_log_number_to_keep_'
        /\ \A d \in families : manifest'.log[d] <= log_number'[d]
    BY <1>u DEF ManifestInv
  <2>3. /\ next_manifest'.min = UpTo(manifest'.min, flush'[c].min)
        /\ next_manifest'.flushed = [manifest'.flushed EXCEPT ![c] =
                @ \union UNION {imm'[c][i].data : i \in 1..flush'[c].n}]
    <3>1. /\ manifest' = manifest /\ imm' = imm /\ flush'[c].n = flush[c].n
          /\ flush'[c].min = flush[c].min
      BY <1>u, <1>c
    <3>2. next_manifest'.min = UpTo(manifest'.min, flush'[c].min)
      BY <1>l, <1>m, <3>1
    <3>3. next_manifest'.flushed = [manifest'.flushed EXCEPT ![c] =
                @ \union UNION {imm'[c][i].data : i \in 1..flush'[c].n}]
      BY <1>i, <1>m, <3>1, SMTT(30)
    <3> QED
      BY <3>2, <3>3
  <2>4. /\ next_manifest'.log[c] = flush'[c].next_log
        /\ \A d \in families : manifest'.log[d] <= next_manifest'.log[d]
        /\ \A d \in families \ {c} : next_manifest'.log[d] <= log_number'[d]
    BY <1>u, <1>c, <1>j, <1>m
  <2> QED
    <3>1. ~\A d \in CFs : flush'[d].pc # "commit"
      BY <1>b, <1>c
    <3>2. \A d, e \in CFs : flush'[d].pc = "commit" /\ flush'[e].pc = "commit" => d = e
      BY <2>1
    <3>3. ASSUME NEW d \in CFs, flush'[d].pc = "commit"
          PROVE  /\ next_manifest'.min = UpTo(manifest'.min, flush'[d].min)
                 /\ next_manifest'.flushed = [manifest'.flushed EXCEPT ![d] =
                       @ \union UNION {imm'[d][i].data : i \in 1..flush'[d].n}]
                 /\ next_manifest'.log[d] = flush'[d].next_log
                 /\ \A e \in families : manifest'.log[e] <= next_manifest'.log[e]
                 /\ \A e \in families \ {d} : next_manifest'.log[e] <= log_number'[e]
      <4>1. d = c
        BY <2>1, <3>3
      <4> QED
        BY <2>3, <2>4, <4>1, SMTT(30)
    <3> QED
      BY <2>2, <3>1, <3>2, <3>3 DEF ManifestInv
<1> QED
  BY <1>1, <1>2, <1>3, <1>4 DEF FlushInv, CloseInv

\* A job learns which logs are obsolete.
LEMMA FindObsoleteFilesStep ==
  ASSUME WFInv, UNCHANGED families, NEW c \in families, FindObsoleteFiles(c)
  PROVE  WFInv'
<1> USE DEF WFInv
<1> DEFINE dead == {n \in alive_log_files_ : n < min_log_number_to_keep_}
           new == [flush[c] EXCEPT !.pc = "logs", !.del = dead,
                                   !.min = min_log_number_to_keep_]
<1>a. /\ flush[c].pc = "find"
      /\ flush' = [flush EXCEPT ![c].pc = "logs", ![c].del = dead,
                                ![c].min = min_log_number_to_keep_]
  BY DEF FindObsoleteFiles
<1>u. /\ UNCHANGED <<wal, logs_, logfile_number_, log_empty_, log_dir_synced_,
                     mem, imm, log_number, min_log_number_to_keep_, manifest, ackVars,
                     next_file_number_, writer, sync, syncs>>
      /\ UNCHANGED manifestVars /\ Front' = Front
      /\ alive_log_files_' \subseteq Nat /\ next_manifest' \in Manifests
  BY DEF FindObsoleteFiles, cfVars, manifestVars, TypeOK, Front
<1>b. /\ c \in CFs /\ families \subseteq CFs /\ flush[c] \in FlushStates
      /\ dead \subseteq Nat /\ min_log_number_to_keep_ \in Nat
      /\ \A n \in dead : n < min_log_number_to_keep_
  BY DEF TypeOK
<1>c. flush' = [flush EXCEPT ![c] = new]
  BY <1>a, <1>b DEF TypeOK
<1> HIDE DEF dead
<1>d. /\ new \in FlushStates /\ new.pc = "logs" /\ new.del = dead
      /\ new.min = min_log_number_to_keep_
  BY <1>b DEF FlushStates
<1> HIDE DEF new
<1>e. /\ flush' \in [CFs -> FlushStates] /\ flush'[c] = new
      /\ \A d \in CFs \ {c} : flush'[d] = flush[d]
  BY <1>b, <1>c, <1>d DEF TypeOK
<1>1. /\ TypeOK' /\ LogsInv' /\ WriterInv' /\ SyncInv' /\ ClosedInv' /\ ClaimInv'
      /\ DataInv' /\ ReplayInv' /\ DurableInv'
  <2>1. \A d \in CFs : /\ flush'[d].pc = "sync" <=> flush[d].pc = "sync"
                       /\ flush'[d].pc = "close" <=> flush[d].pc = "close"
    BY <1>a, <1>d, <1>e
  <2>2. \A d \in families : flush'[d].pc \in {"write", "queue", "commit"} =>
            flush[d].pc \in {"write", "queue", "commit"} /\ flush'[d].n = flush[d].n
    BY <1>b, <1>d, <1>e
  <2> QED
    BY <1>u, <1>e, <2>1, <2>2, QuietJob
<1>2. (\A d \in CFs \ {c} : JobOK(d)' /\ CloseOK(d)') /\ ManifestInv'
  <2>1. flush[c].pc # "commit" /\ flush'[c].pc # "commit"
    BY <1>a, <1>d, <1>e
  <2> QED
    BY <1>u, <1>b, <1>e, <2>1, OtherJobs
<1>3. JobOK(c)' /\ CloseOK(c)'
  <2>1. /\ flush'[c].pc = "logs" /\ flush'[c].del = dead
        /\ flush'[c].min = min_log_number_to_keep_
    BY <1>d, <1>e
  <2>2. JobOK(c)'
    BY <2>1 DEF JobOK, Picked
  <2>3. min_log_number_to_keep_' = min_log_number_to_keep_
    BY <1>u
  <2>4. flush'[c].min <= min_log_number_to_keep_'
    BY <1>b, <2>1, <2>3, SMTT(30)
  <2>5. \A n \in flush'[c].del : n < flush'[c].min
    BY <1>b, <2>1
  <2>6. CloseOK(c)'
    BY <2>1, <2>4, <2>5 DEF CloseOK
  <2> QED
    BY <2>2, <2>6
<1> QED
  BY <1>1, <1>2, <1>3 DEF FlushInv, CloseInv

-----------------------------------------------------------------------------
(* Syncing logs and their directory.                                       *)

\* Syncing records of a log, ...
LEMMA FsyncFacts ==
  ASSUME TypeOK, LogsInv, NEW n \in DOMAIN wal, NEW R \in SUBSET wal[n].recs,
         wal' = Fsync(n, R), UNCHANGED batch
  PROVE  /\ DOMAIN wal' = DOMAIN wal /\ wal' \in [DOMAIN wal -> Wals]
         /\ \A k \in DOMAIN wal : /\ wal'[k].recs = wal[k].recs
                                  /\ wal'[k].dir = wal[k].dir
                                  /\ wal[k].synced \subseteq wal'[k].synced
                                  /\ wal'[k].synced \subseteq wal'[k].recs
                                  /\ Full(k) => Full(k)'
         /\ R \subseteq wal'[n].synced /\ (R = wal[n].recs => Full(n)')
         /\ WalGrows
<1>1. /\ wal \in [DOMAIN wal -> Wals] /\ wal[n] \in Wals
      /\ wal' = [wal EXCEPT ![n].synced = @ \union R]
  BY DEF TypeOK, Fsync
<1>2. R \subseteq Nat
  BY <1>1 DEF Wals
<1>3. /\ DOMAIN wal' = DOMAIN wal /\ wal' \in [DOMAIN wal -> Wals]
      /\ \A k \in DOMAIN wal : /\ wal'[k].recs = wal[k].recs
                               /\ wal'[k].dir = wal[k].dir
                               /\ k # n => wal'[k].synced = wal[k].synced
      /\ wal'[n].synced = wal[n].synced \union R
  BY <1>1, <1>2, SMTT(30) DEF Wals
<1>4. \A k \in DOMAIN wal : wal[k].synced \subseteq wal[k].recs
  BY DEF LogsInv
<1>5. \A k \in DOMAIN wal : /\ wal[k].synced \subseteq wal'[k].synced
                            /\ wal'[k].synced \subseteq wal'[k].recs
  BY <1>3, <1>4
<1>6. \A k \in DOMAIN wal : Full(k) => Full(k)'
  BY <1>3, <1>5 DEF Full
<1>7. R \subseteq wal'[n].synced /\ (R = wal[n].recs => Full(n)')
  BY <1>3, <1>5 DEF Full
<1>8. WalGrows
  BY <1>3, <1>5 DEF WalGrows
<1> QED
  BY <1>3, <1>5, <1>6, <1>7, <1>8

\* ... and the directory.
LEMMA FsyncDirFacts ==
  ASSUME TypeOK, LogsInv, wal' = FsyncDir(wal), UNCHANGED batch
  PROVE  /\ DOMAIN wal' = DOMAIN wal /\ wal' \in [DOMAIN wal -> Wals]
         /\ \A k \in DOMAIN wal : /\ wal'[k].recs = wal[k].recs
                                  /\ wal'[k].synced = wal[k].synced
                                  /\ wal'[k].dir = TRUE
                                  /\ Full(k)' <=> Full(k)
         /\ WalGrows
<1>1. /\ DOMAIN wal' = DOMAIN wal
      /\ \A k \in DOMAIN wal : wal'[k] = [wal[k] EXCEPT !.dir = TRUE] /\ wal[k] \in Wals
  BY DEF TypeOK, FsyncDir
<1>2. \A k \in DOMAIN wal : /\ wal'[k].recs = wal[k].recs
                            /\ wal'[k].synced = wal[k].synced
                            /\ wal'[k].dir = TRUE
                            /\ wal'[k] \in Wals
  BY <1>1 DEF Wals
<1>3. wal' \in [DOMAIN wal -> Wals]
  BY <1>1, <1>2 DEF FsyncDir
<1>4. \A k \in DOMAIN wal : wal[k].synced \subseteq wal[k].recs
  BY DEF LogsInv
<1>5. WalGrows
  BY <1>1, <1>2, <1>4 DEF WalGrows
<1>6. \A k \in DOMAIN wal : Full(k)' <=> Full(k)
  BY <1>2 DEF Full
<1> QED
  BY <1>1, <1>2, <1>3, <1>5, <1>6

\* A step after which the logs have the same records, and at least as much of
\* them is synced, leaves the logs and the data in order.
LEMMA SameRecords ==
  ASSUME TypeOK, LogsInv, DataInv, ReplayInv, WalGrows, DOMAIN wal' = DOMAIN wal,
         \A k \in DOMAIN wal : /\ wal'[k].recs = wal[k].recs
                               /\ wal'[k].synced \subseteq wal'[k].recs
                               /\ wal[k].dir => wal'[k].dir,
         UNCHANGED <<families, cfVars, batch, acked, alive_log_files_, logfile_number_,
                     log_empty_, next_file_number_>>,
         logfile_number_ \in DOMAIN logs_', DOMAIN logs_' \subseteq DOMAIN logs_,
         log_dir_synced_' => \A k \in DOMAIN wal : wal'[k].dir,
         writer'.pc = "sync" <=> writer.pc = "sync"
  PROVE  LogsInv' /\ DataInv' /\ ReplayInv'
<1>0. /\ mem' = mem /\ imm' = imm /\ log_number' = log_number
      /\ min_log_number_to_keep_' = min_log_number_to_keep_ /\ manifest' = manifest
  BY DEF cfVars, manifestVars
<1>1. LogsInv'
  BY DEF LogsInv
<1>2. DataInv'
  BY <1>0, DataFrame
<1>3. ReplayInv'
  BY <1>0, ReplayPersists
<1> QED
  BY <1>1, <1>2, <1>3

\* Nobody claims a log if the first one is not being synced.
LEMMA NobodyClaims ==
  ASSUME LogsHaveOldest,
         TypeOK, LogsInv, ClaimInv, ~logs_[Front]
  PROVE  /\ writer.pc # "sync"
         /\ \A n \in DOMAIN logs_ : /\ ~logs_[n]
                                    /\ \A a \in Syncers : ~Holds(a, n)
                                    /\ \A c \in CFs : ~Closes(c, n)
<1>1. Front \in DOMAIN logs_ /\ \A n \in DOMAIN logs_ : Front <= n
  BY FrontIsFirst
<1>2. /\ writer.pc # "sync"
      /\ \A a \in Syncers : ~Holds(a, Front)
      /\ \A c \in CFs : ~Closes(c, Front)
  BY <1>1 DEF ClaimInv
<1>3. ASSUME NEW n \in DOMAIN logs_
      PROVE  /\ ~logs_[n]
             /\ \A a \in Syncers : ~Holds(a, n)
             /\ \A c \in CFs : ~Closes(c, n)
  <2>1. \A a \in Syncers : ~Holds(a, n)
    <3> SUFFICES ASSUME NEW a \in Syncers, Holds(a, n)
                 PROVE  FALSE
      OBVIOUS
    <3>1. Front \in Nat /\ n \in Nat /\ sync[a].up_to \in Nat
      BY <1>1 DEF TypeOK, LogsInv, SyncStates
    <3>2. Holds(a, Front)
      BY <3>1, <1>1, SMTT(30) DEF Holds
    <3> QED
      BY <3>2, <1>2
  <2>2. \A c \in CFs : ~Closes(c, n)
    BY <1>2 DEF Closes
  <2> QED
    BY <2>1, <2>2, <1>2 DEF ClaimInv
<1> QED
  BY <1>2, <1>3

-----------------------------------------------------------------------------
(* SyncWalImpl.                                                            *)

\* A call begins: it alone claims the logs up to the one it is asked for.
LEMMA SyncBeginFacts ==
  ASSUME LogsHaveOldest,
         WFInv, NEW a \in Syncers, sync[a].pc = "idle", NEW up_to,
         up_to = IF a = User THEN logfile_number_ ELSE logfile_number_ - 1,
         SyncBegin(a, up_to),
         UNCHANGED <<wal, logfile_number_, batch, acked, min_log_number_to_keep_, writer>>,
         \A c \in CFs : flush'[c].pc = "close" <=> flush[c].pc = "close"
  PROVE  /\ DOMAIN logs_' = DOMAIN logs_ /\ logs_' \in [DOMAIN logs_ -> BOOLEAN]
         /\ Front' = Front /\ WalGrows /\ sync' \in [Syncers -> SyncStates]
         /\ \A b \in Syncers \ {a} : sync'[b] = sync[b]
         /\ sync'[a].pc = "sync" /\ sync'[a].active = logfile_number_
         /\ ClaimInv' /\ \A b \in Syncers : sync'[b].pc # "idle" => SyncOK(b)'
<1> USE DEF WFInv
<1> DEFINE y == [pc |-> "sync", up_to |-> up_to, active |-> logfile_number_, done |-> {},
                 todo |-> {n \in DOMAIN logs_ : n <= up_to},
                 dir |-> ~log_dir_synced_, pre |-> wal[logfile_number_].recs,
                 promise |-> Len(batch)]
<1>1. /\ logfile_number_ \in Nat \ {0} /\ up_to \in Nat /\ up_to <= logfile_number_
      /\ Len(batch) \in Nat /\ min_log_number_to_keep_ \in Nat
      /\ logfile_number_ \in DOMAIN wal /\ logfile_number_ \in DOMAIN logs_
      /\ DOMAIN logs_ \subseteq DOMAIN wal /\ DOMAIN wal \subseteq Nat
      /\ log_dir_synced_ \in BOOLEAN /\ wal[logfile_number_].recs \subseteq Nat
  BY ListLength, SMTT(30) DEF TypeOK, LogsInv, Wals
<1>2. /\ ~(Front <= up_to /\ logs_[Front]) /\ logs_' = PrepareForSync(up_to)
      /\ sync' = [sync EXCEPT ![a] = y]
  BY DEF SyncBegin
<1>3. y \in SyncStates
  BY <1>1 DEF SyncStates
<1>4. /\ sync'[a] = y /\ sync' \in [Syncers -> SyncStates]
      /\ \A b \in Syncers \ {a} : sync'[b] = sync[b]
  BY <1>2, <1>3 DEF TypeOK
<1>5. /\ y.pc = "sync" /\ y.up_to = up_to /\ y.active = logfile_number_ /\ y.done = {}
      /\ y.todo = {n \in DOMAIN logs_ : n <= up_to}
      /\ y.dir = ~log_dir_synced_ /\ y.pre = wal[logfile_number_].recs
      /\ y.promise = Len(batch)
  OBVIOUS
<1> HIDE DEF y
<1>6. /\ DOMAIN logs_' = DOMAIN logs_ /\ logs_' \in [DOMAIN logs_ -> BOOLEAN]
      /\ \A n \in DOMAIN logs_ : logs_'[n] = (logs_[n] \/ n <= up_to)
  BY <1>2 DEF PrepareForSync, TypeOK
<1>7. Front' = Front
  BY <1>6 DEF Front
<1>8. WalGrows
  BY DEF WalGrows, LogsInv
<1>9. Front \in DOMAIN logs_ /\ \A n \in DOMAIN logs_ : Front <= n
  BY FrontIsFirst
<1>10. ASSUME NEW n \in DOMAIN logs_, n <= up_to
       PROVE  /\ writer.pc # "sync" /\ \A b \in Syncers : ~Holds(b, n)
              /\ \A c \in CFs : ~Closes(c, n)
  <2>1. Front <= up_to
    BY <1>1, <1>9, <1>10, SMTT(30)
  <2> QED
    BY <1>2, <2>1, NobodyClaims
<1>11. ClaimInv'
  <2>1. /\ \A b \in Syncers \ {a} : \A n : Holds(b, n)' <=> Holds(b, n)
        /\ \A n : Holds(a, n)' <=> n <= up_to
        /\ \A n : ~Holds(a, n)
    BY <1>4, <1>5 DEF Holds
  <2>2. \A c \in CFs : \A n : Closes(c, n)' <=> Closes(c, n)
    BY <1>7 DEF Closes
  <2>3. ASSUME NEW n \in DOMAIN logs_
        PROVE  /\ logs_'[n] <=> \/ writer.pc = "sync"
                                \/ \E b \in Syncers : Holds(b, n)'
                                \/ \E c \in CFs : Closes(c, n)'
               /\ writer.pc = "sync" => /\ \A b \in Syncers : ~Holds(b, n)'
                                        /\ \A c \in CFs : ~Closes(c, n)'
               /\ \A b, d \in Syncers : Holds(b, n)' /\ Holds(d, n)' => b = d
               /\ \A c, d \in CFs : Closes(c, n)' /\ Closes(d, n)' => c = d
               /\ \A b \in Syncers, c \in CFs : ~(Holds(b, n)' /\ Closes(c, n)')
    <3>1. CASE n <= up_to
      <4>1. /\ writer.pc # "sync" /\ \A b \in Syncers \ {a} : ~Holds(b, n)'
            /\ \A c \in CFs : ~Closes(c, n)'
        BY <1>10, <2>1, <2>2, <3>1
      <4>2. logs_'[n] /\ Holds(a, n)'
        BY <1>6, <2>1, <3>1
      <4> QED
        BY <4>1, <4>2
    <3>2. CASE ~(n <= up_to)
      <4>1. \A b \in Syncers : Holds(b, n)' <=> Holds(b, n)
        BY <2>1, <3>2
      <4>2. logs_'[n] <=> logs_[n]
        BY <1>6, <3>2
      <4> QED
        BY <2>2, <4>1, <4>2 DEF ClaimInv
    <3> QED
      BY <3>1, <3>2
  <2> QED
    BY <1>6, <2>3 DEF ClaimInv
<1>12. SyncOK(a)'
  <2>1. \A n \in Kept : n <= up_to => n \in y.todo \/ (n < logfile_number_ /\ Full(n))
    <3> SUFFICES ASSUME NEW n \in Kept, n <= up_to, n \notin y.todo
                 PROVE  n < logfile_number_ /\ Full(n)
      OBVIOUS
    <3>1. n \notin DOMAIN logs_ /\ n \in Nat /\ n <= logfile_number_
      BY <1>1, <1>5 DEF Kept, LogsInv
    <3>2. n # logfile_number_
      BY <1>1, <3>1
    <3> QED
      BY <1>1, <3>1, <3>2, SMTT(30) DEF ClosedInv
  <2>2. ~y.dir => \A n \in DOMAIN wal : wal[n].dir
    BY <1>1, <1>5 DEF LogsInv
  <2>3. \A n \in DOMAIN wal : n < logfile_number_ \/ n = logfile_number_
    BY <1>1, SMTT(30) DEF LogsInv
  <2>4. a = User => 1..Len(batch) \subseteq acked
    <3> SUFFICES ASSUME a = User
                 PROVE  1..Len(batch) \subseteq acked
      OBVIOUS
    <3>1. writer.pc # "sync"
      <4>1. logfile_number_ <= up_to
        BY <1>1
      <4> QED
        BY <1>1, <1>10, <4>1
    <3> QED
      BY <3>1 DEF LogsInv
  <2>5. y.todo \subseteq {n \in DOMAIN logs_' : n <= y.up_to} /\ y.done = {}
    BY <1>5, <1>6
  <2>6. y.active <= logfile_number_ /\ y.promise <= Len(batch)
    BY <1>1, <1>5, SMTT(30)
  <2>7. /\ Kept' = Kept /\ \A n : Full(n)' <=> Full(n)
    BY DEF Kept, Full
  <2>8. \A n \in Kept' : n <= y.up_to =>
           \/ n \in y.todo
           \/ n < y.active /\ Full(n)'
           \/ n = y.active /\ y.pre \subseteq wal'[n].synced
    BY <1>5, <2>1, <2>7
  <2>9. ~y.dir \/ y.pc = "mark" => \A n \in DOMAIN wal' : n <= y.active => wal'[n].dir
    BY <1>5, <2>2
  <2>10. /\ \A n \in DOMAIN wal' : n = y.active => y.pre \subseteq wal'[n].recs
         /\ \A n \in DOMAIN wal' : \A s \in wal'[n].recs :
              s <= y.promise => n < y.active \/ (n = y.active /\ s \in y.pre)
    BY <1>5, <2>3
  <2>11. y.up_to = IF a = User THEN y.active ELSE y.active - 1
    BY <1>5
  <2> QED
    BY <1>4, <1>5, <2>4, <2>5, <2>6, <2>8, <2>9, <2>10, <2>11 DEF SyncOK
<1>13. ASSUME NEW b \in Syncers, sync'[b].pc # "idle", b # a
       PROVE  SyncOK(b)'
  <2>1. sync'[b] = sync[b] /\ SyncOK(b)
    BY <1>4, <1>13 DEF SyncInv
  <2>2. sync[b].todo \union sync[b].done \subseteq DOMAIN logs_'
    BY <1>6, <2>1 DEF SyncOK
  <2> QED
    BY <1>1, <1>8, <2>1, <2>2, SyncPersists, SMTT(30)
<1> QED
  BY <1>4, <1>5, <1>6, <1>7, <1>8, <1>11, <1>12, <1>13

\* DB::SyncWAL begins.
LEMMA SyncWALStep ==
  ASSUME LogsHaveOldest,
         WFInv, UNCHANGED families, SyncWAL
  PROVE  WFInv'
<1> USE DEF WFInv
<1>a. /\ sync[User].pc = "idle" /\ SyncBegin(User, logfile_number_) /\ syncs' = syncs + 1
      /\ wal' = wal /\ alive_log_files_' = alive_log_files_
      /\ logfile_number_' = logfile_number_ /\ log_empty_' = log_empty_
      /\ log_dir_synced_' = log_dir_synced_ /\ UNCHANGED cfVars
      /\ mem' = mem /\ imm' = imm /\ log_number' = log_number
      /\ min_log_number_to_keep_' = min_log_number_to_keep_ /\ UNCHANGED manifestVars
      /\ manifest' = manifest /\ next_manifest' = next_manifest
      /\ batch' = batch /\ acked' = acked /\ synced' = synced
      /\ next_file_number_' = next_file_number_ /\ writer' = writer /\ flush' = flush
  BY DEF SyncWAL, cfVars, manifestVars, ackVars
<1>b. User \in Syncers /\ User \notin CFs /\ CFs \subseteq Syncers
  BY WalFlushAssumption DEF Syncers
<1>c. /\ DOMAIN logs_' = DOMAIN logs_ /\ logs_' \in [DOMAIN logs_ -> BOOLEAN]
      /\ Front' = Front /\ WalGrows /\ sync' \in [Syncers -> SyncStates]
      /\ \A b \in Syncers \ {User} : sync'[b] = sync[b]
      /\ ClaimInv' /\ \A b \in Syncers : sync'[b].pc # "idle" => SyncOK(b)'
  BY <1>a, <1>b, SyncBeginFacts
<1>d. /\ \A c \in CFs : sync'[c] = sync[c]
      /\ min_log_number_to_keep_ \in Nat
  BY <1>b, <1>c DEF TypeOK
<1>1. TypeOK'
  BY <1>a, <1>c, SMTT(30) DEF TypeOK
<1>2. LogsInv'
  BY <1>a, <1>c DEF LogsInv
<1>3. WriterInv'
  BY <1>a, <1>c DEF WriterInv, Kept, Full
<1>4. SyncInv'
  BY <1>a, <1>c, <1>d DEF SyncInv
<1>5. ClosedInv'
  BY <1>a, <1>c DEF ClosedInv, Kept, Full
<1>6. FlushInv' /\ CloseInv' /\ ManifestInv'
  BY <1>a, <1>c, <1>d, FlushFrame
<1>7. DataInv' /\ ReplayInv'
  BY <1>a, <1>c, DataFrame, ReplayPersists
<1>8. DurableInv'
  BY <1>a, <1>c, <1>d, DurableFrame, SMTT(30)
<1> QED
  BY <1>1, <1>2, <1>3, <1>4, <1>5, <1>6, <1>7, <1>8, <1>c

\* A call of SyncWalImpl syncs the next of its logs.
LEMMA SyncOneStep ==
  ASSUME LogsHaveOldest,
         WFInv, UNCHANGED families, NEW a \in Syncers, SyncOne(a)
  PROVE  WFInv'
<1> USE DEF WFInv
<1>0. PICK n : n = Oldest(sync[a].todo)
  OBVIOUS
<1> DEFINE inactive == n < sync[a].active
           R == IF inactive THEN wal[n].recs ELSE sync[a].pre
<1>a. /\ sync[a].pc = "sync" /\ sync[a].todo # {} /\ wal' = Fsync(n, R)
      /\ sync' = [sync EXCEPT ![a].todo = @ \ {n},
                              ![a].done = IF inactive THEN @ \union {n} ELSE @]
      /\ UNCHANGED cfVars /\ UNCHANGED manifestVars
      /\ logs_' = logs_ /\ alive_log_files_' = alive_log_files_
      /\ logfile_number_' = logfile_number_ /\ log_empty_' = log_empty_
      /\ log_dir_synced_' = log_dir_synced_
      /\ mem' = mem /\ imm' = imm /\ log_number' = log_number
      /\ min_log_number_to_keep_' = min_log_number_to_keep_
      /\ manifest' = manifest /\ next_manifest' = next_manifest
      /\ batch' = batch /\ acked' = acked /\ synced' = synced
      /\ next_file_number_' = next_file_number_
      /\ writer' = writer /\ flush' = flush /\ syncs' = syncs
  BY <1>0 DEF SyncOne, cfVars, manifestVars, ackVars
<1>b. SyncOK(a) /\ sync[a] \in SyncStates
  BY <1>a DEF SyncInv, TypeOK
<1>c. /\ sync[a].todo \subseteq {k \in DOMAIN logs_ : k <= sync[a].up_to}
      /\ DOMAIN logs_ \subseteq DOMAIN wal /\ DOMAIN wal \subseteq Nat
      /\ sync[a].up_to \in Nat /\ sync[a].active \in Nat /\ sync[a].up_to <= sync[a].active
      /\ sync[a].done \subseteq Nat /\ sync[a].todo \subseteq Nat
      /\ min_log_number_to_keep_ \in Nat /\ logfile_number_ \in Nat /\ Len(batch) \in Nat
  <2>1. sync[a].up_to = IF a = User THEN sync[a].active ELSE sync[a].active - 1
    BY <1>b DEF SyncOK
  <2>2. sync[a].up_to \in Nat /\ sync[a].active \in Nat
    BY <1>b DEF SyncStates
  <2>3. sync[a].up_to <= sync[a].active
    BY <2>1, <2>2, SMTT(30)
  <2>4. min_log_number_to_keep_ \in Nat /\ logfile_number_ \in Nat /\ Len(batch) \in Nat
    BY ListLength DEF TypeOK
  <2> QED
    BY <1>b, <2>2, <2>3, <2>4 DEF SyncOK, SyncStates, LogsInv, TypeOK
<1>d. n \in sync[a].todo
  BY <1>0, <1>a, <1>c, OldestIsLeast
<1>e. n \in DOMAIN wal /\ n \in DOMAIN logs_ /\ n <= sync[a].up_to /\ n \in Nat
  BY <1>c, <1>d
<1>f. ~inactive => n = sync[a].active /\ sync[a].pre \subseteq wal[n].recs
  <2>1. ~inactive => n = sync[a].active
    BY <1>c, <1>e, SMTT(30)
  <2> QED
    BY <2>1, <1>b, <1>e DEF SyncOK
<1>g. R \in SUBSET wal[n].recs
  BY <1>f
<1> HIDE DEF R, inactive
<1>h. /\ DOMAIN wal' = DOMAIN wal /\ wal' \in [DOMAIN wal -> Wals]
      /\ \A k \in DOMAIN wal : /\ wal'[k].recs = wal[k].recs
                               /\ wal'[k].dir = wal[k].dir
                               /\ wal[k].synced \subseteq wal'[k].synced
                               /\ wal'[k].synced \subseteq wal'[k].recs
                               /\ Full(k) => Full(k)'
      /\ R \subseteq wal'[n].synced /\ (R = wal[n].recs => Full(n)')
      /\ WalGrows
  BY <1>a, <1>e, <1>g, FsyncFacts
<1>i. /\ sync' \in [Syncers -> SyncStates]
      /\ \A b \in Syncers \ {a} : sync'[b] = sync[b]
      /\ sync'[a].pc = "sync" /\ sync'[a].dir = sync[a].dir
      /\ sync'[a].active = sync[a].active /\ sync'[a].up_to = sync[a].up_to
      /\ sync'[a].pre = sync[a].pre /\ sync'[a].promise = sync[a].promise
      /\ sync'[a].todo = sync[a].todo \ {n}
      /\ sync'[a].done = IF inactive THEN sync[a].done \union {n} ELSE sync[a].done
  <2> DEFINE todo == sync[a].todo \ {n}
             done == IF inactive THEN sync[a].done \union {n} ELSE sync[a].done
  <2>1. sync'[a] = [sync[a] EXCEPT !.todo = todo, !.done = done]
    BY <1>a DEF TypeOK
  <2>t. todo \subseteq Nat /\ done \subseteq Nat
    BY <1>c, <1>e
  <2> HIDE DEF todo, done
  <2>2. /\ sync'[a] \in SyncStates /\ sync'[a].todo = todo /\ sync'[a].done = done
        /\ sync'[a].pc = sync[a].pc /\ sync'[a].dir = sync[a].dir
        /\ sync'[a].active = sync[a].active /\ sync'[a].up_to = sync[a].up_to
        /\ sync'[a].pre = sync[a].pre /\ sync'[a].promise = sync[a].promise
    BY <1>b, <2>1, <2>t DEF SyncStates
  <2>3. /\ DOMAIN sync' = Syncers /\ \A b \in Syncers \ {a} : sync'[b] = sync[b]
        /\ sync' = [b \in Syncers |-> sync'[b]]
    BY <1>a DEF TypeOK
  <2>4. \A b \in Syncers : sync'[b] \in SyncStates
    BY <2>2, <2>3 DEF TypeOK
  <2>5. sync' \in [Syncers -> SyncStates]
    BY <2>3, <2>4
  <2> QED
    BY <1>a, <2>2, <2>3, <2>5 DEF todo, done
<1>j. /\ WalGrows /\ logfile_number_' = logfile_number_ /\ acked' = acked
      /\ min_log_number_to_keep_' = min_log_number_to_keep_ /\ batch' = batch
  BY <1>a, <1>h
<1>1. TypeOK'
  BY <1>a, <1>h, <1>i DEF TypeOK
<1>2. LogsInv' /\ DataInv' /\ ReplayInv'
  <2>1. log_dir_synced_ => \A k \in DOMAIN wal : wal'[k].dir
    BY <1>h DEF LogsInv
  <2>2. logfile_number_ \in DOMAIN logs_
    BY DEF LogsInv
  <2> QED
    BY <1>a, <1>h, <2>1, <2>2, SameRecords
<1>3. Kept' = Kept
  BY <1>a, <1>h DEF Kept
<1>4. WriterInv'
  <2>1. logfile_number_ \in DOMAIN wal /\ \A k \in Kept : k \in DOMAIN wal
    BY DEF LogsInv, Kept
  <2> QED
    BY <1>a, <1>h, <1>3, <2>1 DEF WriterInv
<1>5. SyncInv'
  <2>1. ASSUME NEW b \in Syncers, sync'[b].pc # "idle", b # a
        PROVE  SyncOK(b)'
    <3>1. sync'[b] = sync[b] /\ SyncOK(b)
      BY <1>i, <2>1 DEF SyncInv
    <3>2. sync[b].todo \union sync[b].done \subseteq DOMAIN logs_'
      BY <1>a, <3>1 DEF SyncOK
    <3> QED
      BY <1>c, <1>j, <3>1, <3>2, SyncPersists, SMTT(30)
  <2>2. SyncOK(a)'
    <3>1. \A k \in Kept : k <= sync[a].up_to =>
            \/ k \in sync'[a].todo
            \/ k < sync[a].active /\ Full(k)'
            \/ k = sync[a].active /\ sync[a].pre \subseteq wal'[k].synced
      <4> SUFFICES ASSUME NEW k \in Kept, k <= sync[a].up_to, k \notin sync'[a].todo
                   PROVE  \/ k < sync[a].active /\ Full(k)'
                          \/ k = sync[a].active /\ sync[a].pre \subseteq wal'[k].synced
        OBVIOUS
      <4>1. k \in DOMAIN wal
        BY DEF Kept
      <4>2. CASE k = n
        BY <1>f, <1>h, <4>2 DEF R, inactive
      <4>3. CASE k # n
        <5>1. \/ k < sync[a].active /\ Full(k)
              \/ k = sync[a].active /\ sync[a].pre \subseteq wal[k].synced
          BY <1>b, <1>i, <4>3 DEF SyncOK
        <5> QED
          BY <1>h, <4>1, <5>1
      <4> QED
        BY <4>2, <4>3
    <3>2. sync'[a].todo \subseteq {k \in DOMAIN logs_ : k <= sync[a].up_to}
      BY <1>c, <1>i
    <3>3. sync'[a].done \subseteq {k \in DOMAIN logs_ : k <= sync[a].up_to /\ k < sync[a].active}
      BY <1>b, <1>e, <1>i DEF SyncOK, inactive
    <3>4. ~sync[a].dir => \A k \in DOMAIN wal : k <= sync[a].active => wal'[k].dir
      BY <1>b, <1>h DEF SyncOK
    <3>5. /\ \A k \in DOMAIN wal : k = sync[a].active => sync[a].pre \subseteq wal'[k].recs
          /\ \A k \in DOMAIN wal : \A s \in wal'[k].recs :
               s <= sync[a].promise => k < sync[a].active \/ (k = sync[a].active /\ s \in sync[a].pre)
      BY <1>b, <1>h DEF SyncOK
    <3>6. /\ sync[a].active <= logfile_number_ /\ sync[a].promise <= Len(batch)
          /\ sync[a].up_to = IF a = User THEN sync[a].active ELSE sync[a].active - 1
          /\ a = User => 1..sync[a].promise \subseteq acked
      BY <1>b DEF SyncOK
    <3> QED
      BY <1>a, <1>h, <1>i, <1>3, <3>1, <3>2, <3>3, <3>4, <3>5, <3>6, SMTT(30) DEF SyncOK
  <2>3. \A c \in CFs : flush'[c].pc = "sync" <=> sync'[c].pc # "idle"
    <3>1. \A c \in Syncers : sync'[c].pc = sync[c].pc
      BY <1>a, <1>i
    <3> QED
      BY <1>a, <3>1 DEF SyncInv, Syncers
  <2> QED
    BY <2>1, <2>2, <2>3 DEF SyncInv
<1>6. ClosedInv'
  BY <1>a, <1>c, <1>h, ClosedPersists, SMTT(30)
<1>7. ClaimInv'
  <2>1. \A b \in Syncers : sync'[b].pc = sync[b].pc /\ sync'[b].up_to = sync[b].up_to
    BY <1>a, <1>i
  <2> QED
    BY <1>a, <2>1, ClaimFrame
<1>8. FlushInv' /\ CloseInv' /\ ManifestInv'
  <2>1. \A c \in CFs : sync'[c].active = sync[c].active
    BY <1>i DEF Syncers
  <2> QED
    BY <1>a, <2>1, FlushFrame DEF Front
<1>9. DurableInv'
  BY <1>a, <1>c, <1>h, DurableFrame, SMTT(30)
<1> QED
  BY <1>1, <1>2, <1>4, <1>5, <1>6, <1>7, <1>8, <1>9

\* A call of SyncWalImpl syncs the directory.
LEMMA SyncDirStep ==
  ASSUME WFInv, UNCHANGED families, NEW a \in Syncers, SyncDir(a)
  PROVE  WFInv'
<1> USE DEF WFInv
<1>a. /\ sync[a].pc = "sync" /\ sync[a].todo = {} /\ wal' = FsyncDir(wal)
      /\ sync' = [sync EXCEPT ![a].pc = "mark"]
      /\ UNCHANGED cfVars /\ UNCHANGED manifestVars
      /\ logs_' = logs_ /\ alive_log_files_' = alive_log_files_
      /\ logfile_number_' = logfile_number_ /\ log_empty_' = log_empty_
      /\ log_dir_synced_' = log_dir_synced_
      /\ mem' = mem /\ imm' = imm /\ log_number' = log_number
      /\ min_log_number_to_keep_' = min_log_number_to_keep_
      /\ manifest' = manifest /\ next_manifest' = next_manifest
      /\ batch' = batch /\ acked' = acked /\ synced' = synced
      /\ next_file_number_' = next_file_number_
      /\ writer' = writer /\ flush' = flush /\ syncs' = syncs
  BY DEF SyncDir, cfVars, manifestVars, ackVars
<1>b. SyncOK(a) /\ sync[a] \in SyncStates
  BY <1>a DEF SyncInv, TypeOK
<1>c. min_log_number_to_keep_ \in Nat /\ logfile_number_ \in Nat /\ Len(batch) \in Nat
  BY ListLength DEF TypeOK
<1>d. /\ DOMAIN wal' = DOMAIN wal /\ wal' \in [DOMAIN wal -> Wals]
      /\ \A k \in DOMAIN wal : /\ wal'[k].recs = wal[k].recs
                               /\ wal'[k].synced = wal[k].synced
                               /\ wal'[k].dir = TRUE
                               /\ Full(k)' <=> Full(k)
      /\ WalGrows
  BY <1>a, FsyncDirFacts
<1>e. /\ sync' \in [Syncers -> SyncStates]
      /\ \A b \in Syncers \ {a} : sync'[b] = sync[b]
      /\ sync'[a].pc = "mark" /\ sync'[a].dir = sync[a].dir
      /\ sync'[a].active = sync[a].active /\ sync'[a].up_to = sync[a].up_to
      /\ sync'[a].pre = sync[a].pre /\ sync'[a].promise = sync[a].promise
      /\ sync'[a].todo = sync[a].todo /\ sync'[a].done = sync[a].done
  BY <1>a, <1>b DEF TypeOK, SyncStates
<1>f. /\ Kept' = Kept /\ \A k \in Kept : k \in DOMAIN wal
      /\ logfile_number_ \in DOMAIN wal /\ logfile_number_ \in DOMAIN logs_
  BY <1>a, <1>d DEF Kept, LogsInv
<1>1. TypeOK'
  BY <1>a, <1>d, <1>e DEF TypeOK
<1>2. LogsInv' /\ DataInv' /\ ReplayInv'
  <2>1. \A k \in DOMAIN wal : wal'[k].synced \subseteq wal'[k].recs
    BY <1>d DEF LogsInv
  <2> QED
    BY <1>a, <1>d, <1>f, <2>1, SameRecords
<1>3. WriterInv'
  BY <1>a, <1>d, <1>f DEF WriterInv
<1>4. SyncInv'
  <2>1. ASSUME NEW b \in Syncers, sync'[b].pc # "idle", b # a
        PROVE  SyncOK(b)'
    <3>1. sync'[b] = sync[b] /\ SyncOK(b)
      BY <1>e, <2>1 DEF SyncInv
    <3>2. sync[b].todo \union sync[b].done \subseteq DOMAIN logs_'
      BY <1>a, <3>1 DEF SyncOK
    <3> QED
      BY <1>a, <1>c, <1>d, <3>1, <3>2, SyncPersists, SMTT(30)
  <2>2. SyncOK(a)'
    BY <1>a, <1>b, <1>d, <1>e, <1>f, SMTT(30) DEF SyncOK
  <2>3. \A c \in CFs : flush'[c].pc = "sync" <=> sync'[c].pc # "idle"
    <3>1. \A c \in Syncers : sync'[c].pc # "idle" <=> sync[c].pc # "idle"
      BY <1>a, <1>e
    <3> QED
      BY <1>a, <3>1 DEF SyncInv, Syncers
  <2> QED
    BY <2>1, <2>2, <2>3 DEF SyncInv
<1>5. ClosedInv'
  BY <1>a, <1>c, <1>d, ClosedPersists, SMTT(30)
<1>6. ClaimInv'
  <2>1. \A b \in Syncers : /\ sync'[b].pc # "idle" <=> sync[b].pc # "idle"
                           /\ sync'[b].up_to = sync[b].up_to
    BY <1>a, <1>e
  <2> QED
    BY <1>a, <2>1, ClaimFrame
<1>7. FlushInv' /\ CloseInv' /\ ManifestInv'
  <2>1. \A c \in CFs : sync'[c].active = sync[c].active
    BY <1>e DEF Syncers
  <2> QED
    BY <1>a, <2>1, FlushFrame DEF Front
<1>8. DurableInv'
  BY <1>a, <1>c, <1>d, DurableFrame, SMTT(30)
<1> QED
  BY <1>1, <1>2, <1>3, <1>4, <1>5, <1>6, <1>7, <1>8

\* A call ends: what it closed is synced, and what it claimed is free again.
LEMMA SyncEndFacts ==
  ASSUME LogsHaveOldest,
         WFInv, NEW a \in Syncers, SyncEnd(a),
         UNCHANGED <<wal, logfile_number_, log_empty_, next_file_number_, batch, acked,
                     min_log_number_to_keep_, writer, families>>,
         \A c \in CFs : flush'[c].pc = "close" <=> flush[c].pc = "close"
  PROVE  /\ sync[a].pc # "idle" /\ SyncOK(a) /\ sync[a].todo = {}
         /\ \A n \in DOMAIN wal : n <= sync[a].active => wal[n].dir
         /\ WalGrows /\ sync' \in [Syncers -> SyncStates] /\ sync'[a].pc = "idle"
         /\ \A b \in Syncers \ {a} : sync'[b] = sync[b]
         /\ logs_' \in [DOMAIN logs_' -> BOOLEAN] /\ log_dir_synced_' \in BOOLEAN
         /\ LogsInv' /\ WriterInv' /\ ClosedInv' /\ ClaimInv'
         /\ \A b \in Syncers : sync'[b].pc # "idle" => SyncOK(b)'
         /\ Front' = Front \/ \A c \in CFs : flush[c].pc # "close"
<1> USE DEF WFInv
<1> DEFINE y == sync[a]
<1>1. /\ y.pc # "idle" /\ (~y.dir \/ y.pc = "mark")
      /\ logs_' = [n \in DOMAIN logs_ \ y.done |-> logs_[n] /\ n > y.up_to]
      /\ log_dir_synced_' = (log_dir_synced_ \/ (y.dir /\ logfile_number_ = y.up_to))
      /\ sync' = [sync EXCEPT ![a] = IdleSync]
      /\ y.pc = "mark" \/ y.todo = {}
  BY DEF SyncEnd, MarkLogsSynced
<1>2. SyncOK(a) /\ y \in SyncStates
  BY <1>1 DEF SyncInv, TypeOK
<1>3. /\ y.todo = {} /\ \A n \in DOMAIN wal : n <= y.active => wal[n].dir
      /\ y.done \subseteq {n \in DOMAIN logs_ : n <= y.up_to /\ n < y.active}
      /\ \A n \in Kept : n \in y.done => Full(n)
  <2>1. y.todo = {} /\ \A n \in DOMAIN wal : n <= y.active => wal[n].dir
    BY <1>1, <1>2 DEF SyncOK
  <2>2. y.done \subseteq {n \in DOMAIN logs_ : n <= y.up_to /\ n < y.active}
    BY <1>2 DEF SyncOK
  <2>3. ASSUME NEW n \in Kept, n \in y.done
        PROVE  Full(n)
    <3>1. n <= y.up_to /\ n < y.active /\ n \in Nat /\ y.active \in Nat
      BY <1>2, <2>2, <2>3 DEF SyncStates
    <3>2. n # y.active
      BY <3>1, SMTT(30)
    <3> QED
      BY <1>2, <2>1, <3>1, <3>2 DEF SyncOK
  <2> QED
    BY <2>1, <2>2, <2>3
<1>4. /\ y.active \in Nat /\ y.up_to \in Nat /\ logfile_number_ \in Nat
      /\ y.active <= logfile_number_
      /\ y.up_to = IF a = User THEN y.active ELSE y.active - 1
      /\ min_log_number_to_keep_ \in Nat /\ Len(batch) \in Nat
      /\ logfile_number_ \in DOMAIN logs_ /\ DOMAIN logs_ \subseteq Nat
  BY <1>2, ListLength DEF SyncOK, SyncStates, TypeOK, LogsInv
<1>5. /\ IdleSync \in SyncStates /\ IdleSync.pc = "idle"
  BY DEF IdleSync, SyncStates
<1>6. /\ sync' \in [Syncers -> SyncStates] /\ sync'[a].pc = "idle"
      /\ \A b \in Syncers \ {a} : sync'[b] = sync[b]
  BY <1>1, <1>5 DEF TypeOK
<1>7. WalGrows
  BY DEF WalGrows, LogsInv
<1> HIDE DEF y
<1>8. /\ DOMAIN logs_' = DOMAIN logs_ \ y.done
      /\ \A n \in DOMAIN logs_' : logs_'[n] = (logs_[n] /\ n > y.up_to)
      /\ logs_' \in [DOMAIN logs_' -> BOOLEAN] /\ log_dir_synced_' \in BOOLEAN
  BY <1>1 DEF TypeOK
<1>9. Front \in DOMAIN logs_ /\ \A n \in DOMAIN logs_ : Front <= n
  BY FrontIsFirst
<1>10. Front' = Front \/ \A c \in CFs : flush[c].pc # "close"
  <2>1. CASE y.done = {}
    BY <1>8, <2>1 DEF Front
  <2>2. CASE y.done # {}
    <3>1. PICK m : m \in y.done
      BY <2>2
    <3>2. m \in DOMAIN logs_ /\ m <= y.up_to /\ Front <= m /\ Front \in Nat /\ m \in Nat
      BY <1>3, <1>4, <1>9, <3>1
    <3>3. Front <= y.up_to
      BY <1>4, <3>2, SMTT(30)
    <3>4. Holds(a, Front)
      BY <1>1, <3>3 DEF Holds, y
    <3>5. \A c \in CFs : ~Closes(c, Front)
      BY <1>9, <3>4 DEF ClaimInv
    <3> QED
      BY <3>5 DEF Closes
  <2> QED
    BY <2>1, <2>2
<1>11. \A n \in DOMAIN logs_ : Holds(a, n) <=> n <= y.up_to
  BY <1>1 DEF Holds, y
<1>12. ClaimInv'
  <2>1. /\ \A b \in Syncers \ {a} : \A n : Holds(b, n)' <=> Holds(b, n)
        /\ \A n : ~Holds(a, n)'
    BY <1>6 DEF Holds
  <2>2. \A c \in CFs : \A n : Closes(c, n)' <=> Closes(c, n)
    BY <1>10 DEF Closes
  <2>3. ASSUME NEW n \in DOMAIN logs_'
        PROVE  /\ logs_'[n] <=> \/ writer.pc = "sync"
                                \/ \E b \in Syncers : Holds(b, n)'
                                \/ \E c \in CFs : Closes(c, n)'
               /\ writer.pc = "sync" => /\ \A b \in Syncers : ~Holds(b, n)'
                                        /\ \A c \in CFs : ~Closes(c, n)'
               /\ \A b, d \in Syncers : Holds(b, n)' /\ Holds(d, n)' => b = d
               /\ \A c, d \in CFs : Closes(c, n)' /\ Closes(d, n)' => c = d
               /\ \A b \in Syncers, c \in CFs : ~(Holds(b, n)' /\ Closes(c, n)')
    <3>0. n \in DOMAIN logs_ /\ n \in Nat
      BY <1>4, <1>8
    <3>1. CASE n <= y.up_to
      <4>1. Holds(a, n)
        BY <1>11, <3>0, <3>1
      <4>2. /\ writer.pc # "sync" /\ \A b \in Syncers \ {a} : ~Holds(b, n)
            /\ \A c \in CFs : ~Closes(c, n)
        BY <3>0, <4>1 DEF ClaimInv
      <4>3. ~logs_'[n]
        BY <1>4, <1>8, <3>0, <3>1, SMTT(30)
      <4>4. (\A b \in Syncers : ~Holds(b, n)') /\ (\A c \in CFs : ~Closes(c, n)')
        BY <2>1, <2>2, <4>2
      <4> QED
        BY <4>2, <4>3, <4>4
    <3>2. CASE ~(n <= y.up_to)
      <4>1. ~Holds(a, n)
        BY <1>11, <3>0, <3>2
      <4>2. \A b \in Syncers : Holds(b, n)' <=> Holds(b, n)
        BY <2>1, <4>1
      <4>3. logs_'[n] <=> logs_[n]
        BY <1>4, <1>8, <3>0, <3>2, SMTT(30)
      <4> QED
        BY <2>2, <3>0, <4>2, <4>3 DEF ClaimInv
    <3> QED
      BY <3>1, <3>2
  <2> QED
    BY <2>3 DEF ClaimInv
<1>13. Kept' = Kept /\ \A n : Full(n)' <=> Full(n)
  BY DEF Kept, Full
<1>14. LogsInv'
  <2>1. logfile_number_ \in DOMAIN logs_' /\ DOMAIN logs_' \subseteq DOMAIN wal
    BY <1>3, <1>4, <1>8, SMTT(30) DEF LogsInv
  <2>2. log_dir_synced_' => \A n \in DOMAIN wal : wal[n].dir
    <3>1. CASE log_dir_synced_
      BY <3>1 DEF LogsInv
    <3>2. CASE logfile_number_ = y.up_to
      <4>1. \A n \in DOMAIN wal : n <= logfile_number_
        BY DEF LogsInv
      <4>2. y.active = logfile_number_
        BY <1>4, <3>2, SMTT(30)
      <4> QED
        BY <1>3, <4>1, <4>2
    <3> QED
      BY <1>1, <3>1, <3>2
  <2> QED
    BY <2>1, <2>2 DEF LogsInv
<1>15. WriterInv'
  <2>1. writer.pc = "sync" => writer.todo \subseteq DOMAIN logs_'
    <3> SUFFICES ASSUME writer.pc = "sync"
                 PROVE  writer.todo \subseteq DOMAIN logs_'
      OBVIOUS
    <3>1. \A n \in DOMAIN logs_ : ~(n <= y.up_to)
      BY <1>11 DEF ClaimInv
    <3> QED
      BY <1>3, <1>8, <3>1 DEF WriterInv
  <2> QED
    BY <1>13, <2>1 DEF WriterInv
<1>16. ClosedInv'
  BY <1>3, <1>8, <1>13 DEF ClosedInv
<1>17. ASSUME NEW b \in Syncers, sync'[b].pc # "idle"
       PROVE  SyncOK(b)'
  <2>1. b # a /\ sync'[b] = sync[b] /\ SyncOK(b) /\ sync[b].pc # "idle"
    BY <1>6, <1>17 DEF SyncInv
  <2>2. \A n \in sync[b].todo \union sync[b].done : n \in DOMAIN logs_ /\ Holds(b, n)
    BY <2>1 DEF SyncOK, Holds
  <2>3. \A n \in sync[b].todo \union sync[b].done : ~Holds(a, n)
    BY <2>1, <2>2 DEF ClaimInv
  <2>4. sync[b].todo \union sync[b].done \subseteq DOMAIN logs_'
    BY <1>3, <1>8, <1>11, <2>2, <2>3
  <2> QED
    BY <1>4, <1>7, <2>1, <2>4, SyncPersists, SMTT(30)
<1> QED
  BY <1>1, <1>2, <1>3, <1>6, <1>7, <1>8, <1>10, <1>12, <1>14, <1>15, <1>16, <1>17 DEF y

\* DB::SyncWAL ends: what had been written when it began is durable.
LEMMA SyncWALEndStep ==
  ASSUME LogsHaveOldest,
         WFInv, UNCHANGED families, SyncWALEnd
  PROVE  WFInv'
<1> USE DEF WFInv
<1> DEFINE y == sync[User]
<1>a. /\ SyncEnd(User) /\ wal' = wal /\ synced' = synced \union (1..y.promise)
      /\ alive_log_files_' = alive_log_files_
      /\ logfile_number_' = logfile_number_ /\ log_empty_' = log_empty_
      /\ mem' = mem /\ imm' = imm /\ log_number' = log_number
      /\ min_log_number_to_keep_' = min_log_number_to_keep_ /\ UNCHANGED manifestVars
      /\ manifest' = manifest /\ next_manifest' = next_manifest
      /\ batch' = batch /\ acked' = acked
      /\ next_file_number_' = next_file_number_
      /\ writer' = writer /\ flush' = flush /\ syncs' = syncs
  BY DEF SyncWALEnd, cfVars, manifestVars
<1>b. User \in Syncers /\ User \notin CFs /\ CFs \subseteq Syncers
  BY WalFlushAssumption DEF Syncers
<1>c. /\ SyncOK(User) /\ y.todo = {} /\ y.pc # "idle"
      /\ \A n \in DOMAIN wal : n <= y.active => wal[n].dir
      /\ WalGrows /\ sync' \in [Syncers -> SyncStates]
      /\ \A b \in Syncers \ {User} : sync'[b] = sync[b]
      /\ logs_' \in [DOMAIN logs_' -> BOOLEAN] /\ log_dir_synced_' \in BOOLEAN
      /\ LogsInv' /\ WriterInv' /\ ClosedInv' /\ ClaimInv'
      /\ \A b \in Syncers : sync'[b].pc # "idle" => SyncOK(b)'
      /\ Front' = Front \/ \A c \in CFs : flush[c].pc # "close"
  BY <1>a, <1>b, SyncEndFacts
<1>d. /\ \A c \in CFs : sync'[c] = sync[c]
      /\ min_log_number_to_keep_ \in Nat /\ y \in SyncStates
  BY <1>b, <1>c DEF TypeOK
<1>e. 1..y.promise \subseteq acked
  BY <1>c DEF SyncOK
<1>1. TypeOK'
  <2>1. synced' \subseteq Nat
    BY <1>a, SMTT(30) DEF TypeOK
  <2> QED
    BY <1>a, <1>c, <2>1 DEF TypeOK
<1>2. SyncInv'
  BY <1>a, <1>c, <1>d DEF SyncInv
<1>3. FlushInv' /\ CloseInv' /\ ManifestInv'
  BY <1>a, <1>c, <1>d, FlushFrame
<1>4. DataInv' /\ ReplayInv'
  BY <1>a, <1>c, DataFrame, ReplayPersists
<1>5. DurableInv'
  <2>1. ASSUME NEW s \in 1..y.promise
        PROVE  Durable(s)
    <3> SUFFICES ASSUME NEW n \in Kept, s \in wal[n].recs
                 PROVE  /\ wal[n].dir /\ s \in wal[n].synced
                        /\ \A k \in Kept : k < n => Full(k)
      BY DEF Durable
    <3>1. y.up_to = y.active /\ y.active \in Nat /\ y.promise \in Nat
      BY <1>c, <1>d DEF SyncOK, SyncStates
    <3>2. n \in DOMAIN wal /\ n \in Nat /\ \A k \in Kept : k \in Nat
      BY DEF Kept, TypeOK
    <3>3. s <= y.promise
      BY <3>1, SMTT(30)
    <3>4. n < y.active \/ (n = y.active /\ s \in y.pre)
      BY <1>c, <3>2, <3>3 DEF SyncOK
    <3>5. n <= y.active
      BY <3>1, <3>2, <3>4, SMTT(30)
    <3>6. \A k \in Kept : k < y.active => Full(k)
      <4> SUFFICES ASSUME NEW k \in Kept, k < y.active
                   PROVE  Full(k)
        OBVIOUS
      <4>1. k <= y.up_to /\ k # y.active
        BY <3>1, <3>2, SMTT(30)
      <4> QED
        BY <1>c, <4>1 DEF SyncOK
    <3>7. s \in wal[n].synced
      <4>1. CASE n < y.active
        BY <3>6, <4>1 DEF Full
      <4>2. CASE n = y.active /\ s \in y.pre
        <5>1. ~(n < y.active) /\ n <= y.up_to
          BY <3>1, <4>2, SMTT(30)
        <5> QED
          BY <1>c, <4>2, <5>1 DEF SyncOK
      <4> QED
        BY <3>4, <4>1, <4>2
    <3>8. \A k \in Kept : k < n => Full(k)
      BY <3>1, <3>2, <3>5, <3>6, SMTT(30)
    <3> QED
      BY <1>c, <3>2, <3>5, <3>7, <3>8
  <2>2. \A s \in 1..y.promise : Durable(s)'
    BY <1>a, <2>1 DEF Durable, Kept, Full
  <2>3. \A s \in synced' : s \in synced \/ (s \in acked' /\ Durable(s)')
    BY <1>a, <1>e, <2>2
  <2> QED
    BY <1>a, <1>c, <1>d, <2>3, DurableFrame, SMTT(30)
<1> QED
  BY <1>1, <1>2, <1>3, <1>4, <1>5, <1>c

\* A job begins to sync the closed logs.
LEMMA SyncClosedWalsStep ==
  ASSUME LogsHaveOldest,
         WFInv, UNCHANGED families, NEW c \in families, SyncClosedWals(c)
  PROVE  WFInv'
<1> USE DEF WFInv
<1>a. /\ flush[c].pc = "claim" /\ SyncBegin(c, logfile_number_ - 1) /\ Goto(c, "sync")
      /\ wal' = wal /\ alive_log_files_' = alive_log_files_
      /\ logfile_number_' = logfile_number_ /\ log_empty_' = log_empty_
      /\ log_dir_synced_' = log_dir_synced_
      /\ mem' = mem /\ imm' = imm /\ log_number' = log_number
      /\ min_log_number_to_keep_' = min_log_number_to_keep_ /\ UNCHANGED manifestVars
      /\ manifest' = manifest /\ next_manifest' = next_manifest
      /\ batch' = batch /\ acked' = acked /\ synced' = synced
      /\ next_file_number_' = next_file_number_ /\ writer' = writer /\ syncs' = syncs
  BY DEF SyncClosedWals, cfVars, manifestVars, ackVars
<1>b. c \in CFs /\ c \in Syncers /\ c # User /\ CFs \subseteq Syncers
  BY WalFlushAssumption DEF Syncers, TypeOK
<1>c. /\ flush' \in [CFs -> FlushStates]
      /\ \A d \in CFs \ {c} : flush'[d] = flush[d]
      /\ flush'[c].pc = "sync" /\ flush'[c].n = flush[c].n
  BY <1>a, <1>b, GotoFacts
<1>d. \A d \in CFs : flush'[d].pc = "close" <=> flush[d].pc = "close"
  BY <1>a, <1>c
<1>e. sync[c].pc = "idle"
  BY <1>a, <1>b DEF SyncInv
<1>f. /\ DOMAIN logs_' = DOMAIN logs_ /\ logs_' \in [DOMAIN logs_ -> BOOLEAN]
      /\ Front' = Front /\ WalGrows /\ sync' \in [Syncers -> SyncStates]
      /\ \A b \in Syncers \ {c} : sync'[b] = sync[b]
      /\ sync'[c].pc = "sync" /\ sync'[c].active = logfile_number_
      /\ ClaimInv' /\ \A b \in Syncers : sync'[b].pc # "idle" => SyncOK(b)'
  BY <1>a, <1>b, <1>d, <1>e, SyncBeginFacts
<1>g. min_log_number_to_keep_ \in Nat
  BY DEF TypeOK
<1>1. TypeOK'
  BY <1>a, <1>c, <1>f DEF TypeOK
<1>2. LogsInv' /\ WriterInv' /\ ClosedInv'
  BY <1>a, <1>f DEF LogsInv, WriterInv, ClosedInv, Kept, Full
<1>3. SyncInv'
  <2>1. ASSUME NEW d \in CFs
        PROVE  flush'[d].pc = "sync" <=> sync'[d].pc # "idle"
    <3>1. CASE d = c
      BY <1>c, <1>f, <3>1
    <3>2. CASE d # c
      <4>1. flush'[d] = flush[d] /\ sync'[d] = sync[d]
        BY <1>b, <1>c, <1>f, <3>2
      <4> QED
        BY <4>1 DEF SyncInv
    <3> QED
      BY <3>1, <3>2
  <2> QED
    BY <1>f, <2>1 DEF SyncInv
<1>4. DataInv' /\ ReplayInv'
  BY <1>a, <1>f, DataFrame, ReplayPersists
<1>5. DurableInv'
  <2>1. \A d \in families : flush'[d].pc \in {"write", "queue", "commit"} => flush'[d] = flush[d]
    BY <1>c DEF TypeOK
  <2>2. /\ WalGrows /\ acked' = acked /\ synced' = synced
        /\ imm' = imm /\ manifest' = manifest
        /\ min_log_number_to_keep_' = min_log_number_to_keep_
    BY <1>a, <1>f
  <2> QED
    BY <1>g, <2>1, <2>2, DurableFrame, SMTT(30)
<1>6. (\A d \in CFs \ {c} : JobOK(d)' /\ CloseOK(d)') /\ ManifestInv'
  <2>1. flush[c].pc # "commit" /\ flush'[c].pc # "commit"
    BY <1>a, <1>c
  <2>2. \A d \in CFs \ {c} : flush'[d] = flush[d] /\ sync'[d].active = sync[d].active
    BY <1>b, <1>c, <1>f
  <2> QED
    BY <1>a, <1>b, <1>f, <2>1, <2>2, OtherJobs
<1>7. JobOK(c)' /\ CloseOK(c)'
  <2>1. flush[c].n \in 1..Len(imm[c])
    BY <1>a, <1>b, JobData DEF Picked
  <2>2. imm[c][flush[c].n].next_log <= logfile_number_
    BY <2>1 DEF DataInv, FamilyOK
  <2> QED
    BY <1>a, <1>c, <1>f, <2>1, <2>2 DEF JobOK, CloseOK, Picked
<1> QED
  BY <1>1, <1>2, <1>3, <1>4, <1>5, <1>6, <1>7, <1>f DEF FlushInv, CloseInv

\* The closed logs are synced: so is all that the job's memtables hold.
LEMMA SyncClosedWalsEndStep ==
  ASSUME LogsHaveOldest,
         WFInv, UNCHANGED families, NEW c \in families, SyncClosedWalsEnd(c)
  PROVE  WFInv'
<1> USE DEF WFInv
<1>a. /\ SyncEnd(c) /\ Goto(c, "write")
      /\ wal' = wal /\ alive_log_files_' = alive_log_files_
      /\ logfile_number_' = logfile_number_ /\ log_empty_' = log_empty_
      /\ mem' = mem /\ imm' = imm /\ log_number' = log_number
      /\ min_log_number_to_keep_' = min_log_number_to_keep_ /\ UNCHANGED manifestVars
      /\ manifest' = manifest /\ next_manifest' = next_manifest
      /\ batch' = batch /\ acked' = acked /\ synced' = synced
      /\ next_file_number_' = next_file_number_ /\ writer' = writer /\ syncs' = syncs
  BY DEF SyncClosedWalsEnd, cfVars, manifestVars, ackVars
<1>b. c \in CFs /\ c \in Syncers /\ c # User /\ CFs \subseteq Syncers
  BY WalFlushAssumption DEF Syncers, TypeOK
<1>c. /\ flush' \in [CFs -> FlushStates]
      /\ \A d \in CFs \ {c} : flush'[d] = flush[d]
      /\ flush'[c].pc = "write" /\ flush'[c].n = flush[c].n
  BY <1>a, <1>b, GotoFacts
<1>d. flush[c].pc = "sync"
  <2>1. sync[c].pc # "idle"
    BY <1>a DEF SyncEnd
  <2> QED
    BY <1>b, <2>1 DEF SyncInv
<1>e. \A d \in CFs : flush'[d].pc = "close" <=> flush[d].pc = "close"
  BY <1>c, <1>d
<1>f. /\ SyncOK(c) /\ sync[c].todo = {} /\ sync'[c].pc = "idle"
      /\ \A n \in DOMAIN wal : n <= sync[c].active => wal[n].dir
      /\ WalGrows /\ sync' \in [Syncers -> SyncStates]
      /\ \A b \in Syncers \ {c} : sync'[b] = sync[b]
      /\ logs_' \in [DOMAIN logs_' -> BOOLEAN] /\ log_dir_synced_' \in BOOLEAN
      /\ LogsInv' /\ WriterInv' /\ ClosedInv' /\ ClaimInv'
      /\ \A b \in Syncers : sync'[b].pc # "idle" => SyncOK(b)'
      /\ Front' = Front \/ \A d \in CFs : flush[d].pc # "close"
  BY <1>a, <1>b, <1>e, SyncEndFacts
<1>g. min_log_number_to_keep_ \in Nat
  BY DEF TypeOK
<1>1. TypeOK'
  BY <1>a, <1>c, <1>f DEF TypeOK
<1>2. SyncInv'
  <2>1. ASSUME NEW d \in CFs
        PROVE  flush'[d].pc = "sync" <=> sync'[d].pc # "idle"
    <3>1. CASE d = c
      BY <1>c, <1>f, <3>1
    <3>2. CASE d # c
      <4>1. flush'[d] = flush[d] /\ sync'[d] = sync[d]
        BY <1>b, <1>c, <1>f, <3>2
      <4> QED
        BY <4>1 DEF SyncInv
    <3> QED
      BY <3>1, <3>2
  <2> QED
    BY <1>f, <2>1 DEF SyncInv
<1>3. DataInv' /\ ReplayInv'
  BY <1>a, <1>f, DataFrame, ReplayPersists
<1>4. DurableInv'
  <2>0. /\ flush[c].n \in 1..Len(imm[c]) /\ Len(imm[c]) \in Nat
        /\ \A i \in 1..flush[c].n : i \in 1..Len(imm[c])
    BY <1>b, <1>d, JobData, ListLength DEF Picked, TypeOK
  <2>1. ASSUME NEW i \in 1..flush[c].n, NEW s \in imm[c][i].data
        PROVE  Durable(s)
    <3> SUFFICES ASSUME NEW n \in Kept, s \in wal[n].recs
                 PROVE  /\ wal[n].dir /\ s \in wal[n].synced
                        /\ \A k \in Kept : k < n => Full(k)
      BY DEF Durable
    <3>1. /\ sync[c].up_to = sync[c].active - 1 /\ sync[c].active \in Nat
          /\ \A k \in Kept : k \in Nat /\ k \in DOMAIN wal
      BY <1>b, <1>f DEF SyncOK, SyncStates, TypeOK, Kept
    <3>2. \A j \in 1..Len(imm[c]) : imm[c][j].next_log \in Nat
      <4>1. \A j \in 1..Len(imm[c]) : imm[c][j] \in Memtables
        BY <1>b, ListMember DEF TypeOK
      <4> QED
        BY <4>1 DEF Memtables
    <3>3. n < imm[c][i].next_log
      BY <2>0, <3>1 DEF DataInv, FamilyOK
    <3>4. imm[c][i].next_log <= imm[c][flush[c].n].next_log
      <4>1. CASE i = flush[c].n
        BY <2>0, <3>2, <4>1, SMTT(30)
      <4>2. CASE i < flush[c].n
        BY <2>0, <4>2 DEF DataInv, FamilyOK
      <4> QED
        BY <2>0, <4>1, <4>2, SMTT(30)
    <3>5. imm[c][flush[c].n].next_log <= sync[c].active
      BY <1>b, <1>d DEF FlushInv, JobOK
    <3>6. n < sync[c].active
      <4>1. /\ n \in Nat /\ imm[c][i].next_log \in Nat /\ sync[c].active \in Nat
            /\ imm[c][flush[c].n].next_log \in Nat
        BY <2>0, <3>1, <3>2
      <4> QED
        BY <3>3, <3>4, <3>5, <4>1, SMTT(30)
    <3>7. \A k \in Kept : k < sync[c].active => Full(k)
      <4> SUFFICES ASSUME NEW k \in Kept, k < sync[c].active
                   PROVE  Full(k)
        OBVIOUS
      <4>1. k <= sync[c].up_to /\ k # sync[c].active
        BY <3>1, SMTT(30)
      <4> QED
        BY <1>f, <4>1 DEF SyncOK
    <3>8. Full(n) /\ \A k \in Kept : k < n => Full(k)
      BY <3>1, <3>6, <3>7, SMTT(30)
    <3>9. wal[n].dir
      BY <1>f, <3>1, <3>6, SMTT(30)
    <3> QED
      BY <3>8, <3>9 DEF Full
  <2>2. \A i \in 1..flush'[c].n : \A s \in imm'[c][i].data : Durable(s)'
    BY <1>a, <1>c, <2>1, SMTT(30) DEF Durable, Kept, Full
  <2>3. \A d \in CFs \ {c} : flush'[d] = flush[d] /\ imm'[d] = imm[d]
    BY <1>a, <1>c
  <2>4. ASSUME NEW d \in families, flush'[d].pc \in {"write", "queue", "commit"}
        PROVE  \/ /\ flush[d].pc \in {"write", "queue", "commit"}
                  /\ flush'[d].n = flush[d].n
                  /\ \A i \in 1..flush[d].n : imm'[d][i] = imm[d][i]
               \/ \A i \in 1..flush'[d].n : \A s \in imm'[d][i].data : Durable(s)'
    <3>1. CASE d = c
      BY <2>2, <3>1
    <3>2. CASE d # c
      BY <2>3, <2>4, <3>2 DEF TypeOK
    <3> QED
      BY <3>1, <3>2
  <2> QED
    BY <1>a, <1>f, <1>g, <2>4, DurableFrame, SMTT(30)
<1>5. (\A d \in CFs \ {c} : JobOK(d)' /\ CloseOK(d)') /\ ManifestInv'
  <2>1. flush[c].pc # "commit" /\ flush'[c].pc # "commit"
    BY <1>c, <1>d
  <2>2. \A d \in CFs \ {c} : flush'[d] = flush[d] /\ sync'[d].active = sync[d].active
    BY <1>b, <1>c, <1>f
  <2> QED
    BY <1>a, <1>b, <1>f, <2>1, <2>2, OtherJobs
<1>6. JobOK(c)' /\ CloseOK(c)'
  <2>1. flush[c].n \in 1..Len(imm[c])
    BY <1>b, <1>d, JobData DEF Picked
  <2> QED
    BY <1>a, <1>c, <2>1 DEF JobOK, CloseOK, Picked
<1> QED
  BY <1>1, <1>2, <1>3, <1>4, <1>5, <1>6, <1>f DEF FlushInv, CloseInv

-----------------------------------------------------------------------------
(* FindObsoleteFiles.                                                      *)

\* FindObsoleteFiles claims the first log to close it.
LEMMA CloseObsoleteLogStep ==
  ASSUME LogsHaveOldest,
         WFInv, UNCHANGED families, NEW c \in families, CloseObsoleteLog(c)
  PROVE  WFInv'
<1> USE DEF WFInv
<1>a. /\ flush[c].pc = "logs" /\ Front < flush[c].min /\ ~logs_[Front]
      /\ logs_' = [n \in DOMAIN logs_ |-> logs_[n] \/ n <= Front]
      /\ Goto(c, "close")
  BY DEF CloseObsoleteLog, PrepareForSync
<1>u. /\ wal' = wal /\ alive_log_files_' = alive_log_files_
      /\ logfile_number_' = logfile_number_ /\ log_empty_' = log_empty_
      /\ log_dir_synced_' = log_dir_synced_
      /\ mem' = mem /\ imm' = imm /\ log_number' = log_number
      /\ min_log_number_to_keep_' = min_log_number_to_keep_ /\ UNCHANGED manifestVars
      /\ manifest' = manifest /\ next_manifest' = next_manifest
      /\ batch' = batch /\ acked' = acked /\ synced' = synced
      /\ next_file_number_' = next_file_number_ /\ writer' = writer
      /\ sync' = sync /\ syncs' = syncs
  BY DEF CloseObsoleteLog, cfVars, manifestVars, ackVars
<1>b. c \in CFs /\ families \subseteq CFs /\ min_log_number_to_keep_ \in Nat
  BY DEF TypeOK
<1>c. /\ flush' \in [CFs -> FlushStates]
      /\ \A d \in CFs \ {c} : flush'[d] = flush[d]
      /\ flush'[c].pc = "close" /\ flush'[c].min = flush[c].min /\ flush'[c].del = flush[c].del
  BY <1>a, <1>b, GotoFacts
<1>d. /\ Front \in DOMAIN logs_ /\ \A n \in DOMAIN logs_ : Front <= n
      /\ DOMAIN logs_ \subseteq Nat
  BY FrontIsFirst DEF TypeOK, LogsInv
<1>e. /\ writer.pc # "sync"
      /\ \A n \in DOMAIN logs_ : ~logs_[n] /\ \A a \in Syncers : ~Holds(a, n)
      /\ \A d \in CFs : flush[d].pc # "close"
  BY <1>a, <1>d, NobodyClaims DEF Closes
<1>f. /\ DOMAIN logs_' = DOMAIN logs_ /\ logs_' \in [DOMAIN logs_ -> BOOLEAN]
      /\ Front' = Front /\ WalGrows
      /\ \A n \in DOMAIN logs_ : logs_'[n] <=> n = Front
  <2>1. DOMAIN logs_' = DOMAIN logs_
    BY <1>a
  <2>2. \A n \in DOMAIN logs_ : n <= Front <=> n = Front
    BY <1>d, SMTT(30)
  <2>3. \A n \in DOMAIN logs_ : logs_'[n] <=> n = Front
    BY <1>a, <1>e, <2>2
  <2>4. \A n \in DOMAIN logs_ : logs_'[n] \in BOOLEAN
    BY <1>a
  <2>5. logs_' = [n \in DOMAIN logs_ |-> logs_'[n]]
    BY <1>a
  <2>6. logs_' \in [DOMAIN logs_ -> BOOLEAN]
    BY <2>4, <2>5
  <2>7. Front' = Front
    BY <2>1 DEF Front
  <2>8. WalGrows
    BY <1>u DEF WalGrows, LogsInv
  <2> QED
    BY <2>1, <2>3, <2>6, <2>7, <2>8
<1>1. TypeOK'
  BY <1>c, <1>f, <1>u DEF TypeOK
<1>2. LogsInv' /\ WriterInv' /\ ClosedInv'
  BY <1>f, <1>u DEF LogsInv, WriterInv, ClosedInv, Kept, Full
<1>3. SyncInv'
  <2>1. \A a \in Syncers : SyncOK(a) => SyncOK(a)'
    BY <1>f, <1>u, SMTT(30) DEF SyncOK, Kept, Full
  <2>2. \A d \in CFs : flush'[d].pc = "sync" <=> flush[d].pc = "sync"
    BY <1>a, <1>c
  <2> QED
    BY <1>u, <2>1, <2>2 DEF SyncInv
<1>4. ClaimInv'
  <2> SUFFICES ASSUME NEW n \in DOMAIN logs_
               PROVE  /\ logs_'[n] <=> \E d \in CFs : Closes(d, n)'
                      /\ \A a \in Syncers : ~Holds(a, n)'
                      /\ \A d, e \in CFs : Closes(d, n)' /\ Closes(e, n)' => d = e
    BY <1>e, <1>f, <1>u DEF ClaimInv
  <2>1. \A d \in CFs : Closes(d, n)' <=> d = c /\ n = Front
    BY <1>b, <1>c, <1>e, <1>f DEF Closes
  <2>2. \A a \in Syncers : ~Holds(a, n)'
    BY <1>e, <1>u DEF Holds
  <2> QED
    BY <1>b, <1>f, <2>1, <2>2
<1>5. DataInv' /\ ReplayInv'
  BY <1>f, <1>u, DataFrame, ReplayPersists
<1>6. DurableInv'
  <2>1. \A d \in families : flush'[d].pc \in {"write", "queue", "commit"} => flush'[d] = flush[d]
    BY <1>b, <1>c
  <2> QED
    BY <1>b, <1>f, <1>u, <2>1, DurableFrame, SMTT(30)
<1>7. (\A d \in CFs \ {c} : JobOK(d)' /\ CloseOK(d)') /\ ManifestInv'
  <2>1. flush[c].pc # "commit" /\ flush'[c].pc # "commit"
    BY <1>a, <1>c
  <2> QED
    BY <1>b, <1>c, <1>f, <1>u, <2>1, OtherJobs
<1>8. JobOK(c)' /\ CloseOK(c)'
  <2>1. CloseOK(c)
    BY <1>b DEF CloseInv
  <2> QED
    BY <1>a, <1>c, <1>f, <1>u, <2>1 DEF JobOK, CloseOK, Picked
<1> QED
  BY <1>1, <1>2, <1>3, <1>4, <1>5, <1>6, <1>7, <1>8 DEF FlushInv, CloseInv

\* The first log, closed, leaves logs_.
LEMMA PopObsoleteLogStep ==
  ASSUME LogsHaveOldest,
         WFInv, UNCHANGED families, NEW c \in families, PopObsoleteLog(c)
  PROVE  WFInv'
<1> USE DEF WFInv
<1>0. PICK f : f = Front
  OBVIOUS
<1>a. /\ flush[c].pc = "close" /\ Goto(c, "logs")
      /\ logs_' = [n \in DOMAIN logs_ \ {f} |-> logs_[n]]
  BY <1>0 DEF PopObsoleteLog
<1>u. /\ wal' = wal /\ alive_log_files_' = alive_log_files_
      /\ logfile_number_' = logfile_number_ /\ log_empty_' = log_empty_
      /\ log_dir_synced_' = log_dir_synced_
      /\ mem' = mem /\ imm' = imm /\ log_number' = log_number
      /\ min_log_number_to_keep_' = min_log_number_to_keep_ /\ UNCHANGED manifestVars
      /\ manifest' = manifest /\ next_manifest' = next_manifest
      /\ batch' = batch /\ acked' = acked /\ synced' = synced
      /\ next_file_number_' = next_file_number_ /\ writer' = writer
      /\ sync' = sync /\ syncs' = syncs
  BY DEF PopObsoleteLog, cfVars, manifestVars, ackVars
<1>b. /\ c \in CFs /\ families \subseteq CFs /\ min_log_number_to_keep_ \in Nat
      /\ logfile_number_ \in Nat /\ log_number[c] \in Nat /\ flush[c].min \in Nat
      /\ Len(batch) \in Nat
  BY ListLength DEF TypeOK, FlushStates
<1>c. /\ flush' \in [CFs -> FlushStates]
      /\ \A d \in CFs \ {c} : flush'[d] = flush[d]
      /\ flush'[c].pc = "logs" /\ flush'[c].min = flush[c].min /\ flush'[c].del = flush[c].del
  BY <1>a, <1>b, GotoFacts
<1>d. f \in DOMAIN logs_ /\ DOMAIN logs_ \subseteq Nat /\ f \in Nat
  BY <1>0, FrontIsFirst DEF TypeOK, LogsInv
<1>e. f < min_log_number_to_keep_ /\ f # logfile_number_
  <2>1. CloseOK(c) /\ FamilyOK(c)
    BY <1>b DEF CloseInv, DataInv
  <2>2. f < flush[c].min /\ flush[c].min <= min_log_number_to_keep_
    BY <1>0, <1>a, <2>1 DEF CloseOK
  <2>3. min_log_number_to_keep_ <= log_number[c] /\ log_number[c] <= logfile_number_
    BY <2>1 DEF FamilyOK
  <2> QED
    BY <1>b, <1>d, <2>2, <2>3, SMTT(30)
<1>f. /\ writer.pc # "sync" /\ \A a \in Syncers : ~Holds(a, f)
      /\ \A d \in CFs \ {c} : flush[d].pc # "close"
  <2>1. Closes(c, f)
    BY <1>0, <1>a DEF Closes
  <2>2. \A d \in CFs : Closes(d, f) => d = c
    BY <1>b, <1>d, <2>1 DEF ClaimInv
  <2>3. writer.pc # "sync" /\ \A a \in Syncers : ~Holds(a, f)
    BY <1>b, <1>d, <2>1 DEF ClaimInv
  <2> QED
    BY <1>0, <2>2, <2>3 DEF Closes
<1>g. /\ DOMAIN logs_' = DOMAIN logs_ \ {f} /\ logs_' \in [DOMAIN logs_' -> BOOLEAN]
      /\ \A n \in DOMAIN logs_' : logs_'[n] = logs_[n]
      /\ WalGrows
  <2>1. WalGrows
    BY <1>u DEF WalGrows, LogsInv
  <2>2. logs_ \in [DOMAIN logs_ -> BOOLEAN]
    BY DEF TypeOK
  <2> QED
    BY <1>a, <2>1, <2>2
<1>1. TypeOK'
  BY <1>c, <1>g, <1>u DEF TypeOK
<1>2. LogsInv' /\ WriterInv' /\ ClosedInv'
  <2>1. LogsInv'
    BY <1>e, <1>g, <1>u DEF LogsInv
  <2>2. WriterInv'
    BY <1>f, <1>u DEF WriterInv
  <2>3. \A n \in Kept : n # f
    BY <1>b, <1>d, <1>e, SMTT(30) DEF Kept
  <2>4. ClosedInv'
    BY <1>g, <1>u, <2>3 DEF ClosedInv, Kept, Full
  <2> QED
    BY <2>1, <2>2, <2>4
<1>3. SyncInv'
  <2>1. ASSUME NEW a \in Syncers, sync[a].pc # "idle", SyncOK(a)
        PROVE  SyncOK(a)'
    <3>1. f \notin sync[a].todo \union sync[a].done
      BY <1>f, <2>1 DEF SyncOK, Holds
    <3>2. sync[a].todo \union sync[a].done \subseteq DOMAIN logs_'
      BY <1>g, <2>1, <3>1 DEF SyncOK
    <3> QED
      BY <1>b, <1>g, <1>u, <2>1, <3>2, SyncPersists, SMTT(30)
  <2>2. \A d \in CFs : flush'[d].pc = "sync" <=> flush[d].pc = "sync"
    BY <1>a, <1>c
  <2> QED
    BY <1>u, <2>1, <2>2 DEF SyncInv
<1>4. ClaimInv'
  <2> SUFFICES ASSUME NEW n \in DOMAIN logs_'
               PROVE  /\ logs_'[n] <=> \E a \in Syncers : Holds(a, n)'
                      /\ \A a, b \in Syncers : Holds(a, n)' /\ Holds(b, n)' => a = b
                      /\ \A d \in CFs : ~Closes(d, n)'
    BY <1>f, <1>u DEF ClaimInv
  <2>1. \A d \in CFs : ~Closes(d, n)'
    BY <1>c, <1>f DEF Closes
  <2>2. \A a \in Syncers : Holds(a, n)' <=> Holds(a, n)
    BY <1>u DEF Holds
  <2>3. n \in DOMAIN logs_ /\ n # f /\ logs_'[n] = logs_[n]
    BY <1>g
  <2>4. \A d \in CFs : ~Closes(d, n)
    BY <1>0, <2>3 DEF Closes
  <2>5. /\ logs_[n] <=> \E a \in Syncers : Holds(a, n)
        /\ \A a, b \in Syncers : Holds(a, n) /\ Holds(b, n) => a = b
    BY <1>f, <2>3, <2>4 DEF ClaimInv
  <2> QED
    BY <2>1, <2>2, <2>3, <2>5
<1>5. DataInv' /\ ReplayInv'
  BY <1>g, <1>u, DataFrame, ReplayPersists
<1>6. DurableInv'
  <2>1. \A d \in families : flush'[d].pc \in {"write", "queue", "commit"} => flush'[d] = flush[d]
    BY <1>b, <1>c
  <2> QED
    BY <1>b, <1>g, <1>u, <2>1, DurableFrame, SMTT(30)
<1>7. (\A d \in CFs \ {c} : JobOK(d)' /\ CloseOK(d)') /\ ManifestInv'
  <2>1. flush[c].pc # "commit" /\ flush'[c].pc # "commit"
    BY <1>a, <1>c
  <2> QED
    BY <1>b, <1>c, <1>f, <1>u, <2>1, OtherJobs
<1>8. JobOK(c)' /\ CloseOK(c)'
  <2>1. CloseOK(c)
    BY <1>b DEF CloseInv
  <2> QED
    BY <1>a, <1>c, <1>u, <2>1 DEF JobOK, CloseOK, Picked
<1> QED
  BY <1>1, <1>2, <1>3, <1>4, <1>5, <1>6, <1>7, <1>8 DEF FlushInv, CloseInv

-----------------------------------------------------------------------------
(* The end of a flush job.                                                 *)

\* ... and of a list without its first members.
LEMMA DropFirst ==
  ASSUME NEW S, NEW q \in Seq(S), NEW n \in 1..Len(q)
  PROVE  /\ SubSeq(q, n + 1, Len(q)) \in Seq(S)
         /\ Len(SubSeq(q, n + 1, Len(q))) = Len(q) - n
         /\ \A i \in 1..Len(SubSeq(q, n + 1, Len(q))) :
              i + n \in 1..Len(q) /\ SubSeq(q, n + 1, Len(q))[i] = q[i + n]
BY SMTT(30)

\* What the commit of an edit does to the families.
LEMMA CommitFacts ==
  ASSUME WFInv, NEW c \in families, Commit(c)
  PROVE  /\ flush[c].n \in 1..Len(imm[c]) /\ Len(imm[c]) \in Nat
         /\ flush[c].next_log = imm[c][flush[c].n].next_log
         /\ log_number' \in [CFs -> Nat] /\ log_number'[c] = flush[c].next_log
         /\ log_number[c] <= log_number'[c]
         /\ \A d \in CFs \ {c} : log_number'[d] = log_number[d] /\ imm'[d] = imm[d]
         /\ min_log_number_to_keep_' \in Nat
         /\ min_log_number_to_keep_ <= min_log_number_to_keep_'
         /\ min_log_number_to_keep_' = UpTo(min_log_number_to_keep_, flush[c].min)
         /\ \A d \in families : min_log_number_to_keep_' <= log_number'[d]
         /\ imm' \in [CFs -> Seq(Memtables)]
         /\ Len(imm'[c]) = Len(imm[c]) - flush[c].n
         /\ \A i \in 1..Len(imm'[c]) :
              i + flush[c].n \in 1..Len(imm[c]) /\ imm'[c][i] = imm[c][i + flush[c].n]
<1> USE DEF WFInv
<1> DEFINE new == SubSeq(imm[c], flush[c].n + 1, Len(imm[c]))
<1>a. /\ flush[c].pc = "commit"
      /\ log_number' = [log_number EXCEPT ![c] = UpTo(@, flush[c].next_log)]
      /\ min_log_number_to_keep_' = UpTo(min_log_number_to_keep_, flush[c].min)
      /\ imm' = [imm EXCEPT ![c] = new]
  BY DEF Commit
<1>b. /\ c \in CFs /\ families \subseteq CFs /\ flush[c] \in FlushStates
      /\ log_number \in [CFs -> Nat] /\ min_log_number_to_keep_ \in Nat
      /\ imm \in [CFs -> Seq(Memtables)]
  BY DEF TypeOK
<1>c. /\ flush[c].n \in 1..Len(imm[c]) /\ flush[c].next_log = imm[c][flush[c].n].next_log
      /\ flush[c].min <= flush[c].next_log
      /\ \A d \in families \ {c} : flush[c].min <= log_number[d]
  BY <1>a, <1>b DEF FlushInv, JobOK, Picked
<1>d. flush[c].next_log \in Nat /\ flush[c].min \in Nat /\ Len(imm[c]) \in Nat
  BY <1>b, ListLength DEF FlushStates
<1>e. log_number[c] <= flush[c].next_log /\ log_number[c] \in Nat
  BY <1>b, <1>c DEF DataInv, FamilyOK
<1>f. log_number' = [log_number EXCEPT ![c] = flush[c].next_log]
  <2>1. UpTo(log_number[c], flush[c].next_log) = flush[c].next_log
    BY <1>d, <1>e, UpToFacts
  <2> QED
    BY <1>a, <1>b, <2>1
<1>1. /\ log_number' \in [CFs -> Nat] /\ log_number'[c] = flush[c].next_log
      /\ log_number[c] <= log_number'[c]
      /\ \A d \in CFs \ {c} : log_number'[d] = log_number[d]
  BY <1>b, <1>d, <1>e, <1>f
<1>2. /\ min_log_number_to_keep_' \in Nat
      /\ min_log_number_to_keep_ <= min_log_number_to_keep_'
      /\ min_log_number_to_keep_' \in {min_log_number_to_keep_, flush[c].min}
  BY <1>a, <1>b, <1>d, UpToFacts
<1>3. ASSUME NEW d \in families
      PROVE  min_log_number_to_keep_' <= log_number'[d]
  <2>1. min_log_number_to_keep_ <= log_number[d] /\ log_number[d] \in Nat
    BY <1>b DEF DataInv, FamilyOK
  <2>2. CASE d = c
    BY <1>b, <1>c, <1>d, <1>1, <1>2, <2>1, <2>2, SMTT(30)
  <2>3. CASE d # c
    BY <1>b, <1>c, <1>1, <1>2, <2>1, <2>3
  <2> QED
    BY <2>2, <2>3
<1>4. /\ new \in Seq(Memtables) /\ Len(new) = Len(imm[c]) - flush[c].n
      /\ \A i \in 1..Len(new) : i + flush[c].n \in 1..Len(imm[c])
                                /\ new[i] = imm[c][i + flush[c].n]
  <2>1. imm[c] \in Seq(Memtables)
    BY <1>b
  <2> QED
    BY <1>c, <2>1, DropFirst
<1> HIDE DEF new
<1>5. imm' \in [CFs -> Seq(Memtables)] /\ imm'[c] = new /\ \A d \in CFs \ {c} : imm'[d] = imm[d]
  BY <1>a, <1>b, <1>4
<1> QED
  BY <1>a, <1>c, <1>d, <1>1, <1>2, <1>3, <1>4, <1>5

\* The family that was flushed: what is left of its memtables is still found.
LEMMA CommitFamily ==
  ASSUME WFInv, NEW c \in families, Commit(c)
  PROVE  FamilyOK(c)'
<1> USE DEF WFInv
<1> DEFINE N == flush[c].n
<1>a. /\ N \in 1..Len(imm[c]) /\ Len(imm[c]) \in Nat
      /\ log_number'[c] = imm[c][N].next_log
      /\ min_log_number_to_keep_' <= log_number'[c]
      /\ Len(imm'[c]) = Len(imm[c]) - N
      /\ \A i \in 1..Len(imm'[c]) : i + N \in 1..Len(imm[c]) /\ imm'[c][i] = imm[c][i + N]
  BY CommitFacts
<1>b. /\ mem' = mem /\ wal' = wal /\ logfile_number_' = logfile_number_ /\ acked' = acked
  BY DEF Commit, walVars, ackVars
<1>c. FamilyOK(c)
  BY DEF DataInv
<1> HIDE DEF N
<1>d. \A i \in 1..Len(imm'[c]) : i \in Nat /\ N < i + N /\ N \in Nat
  BY <1>a, SMTT(30)
<1>1. log_number'[c] <= logfile_number_' /\ mem'[c] \subseteq acked'
  BY <1>a, <1>b, <1>c DEF FamilyOK
<1>2. ASSUME NEW s \in mem'[c]
      PROVE  \E n \in DOMAIN wal' :
               /\ s \in wal'[n].recs /\ n >= log_number'[c]
               /\ \A i \in 1..Len(imm'[c]) : n >= imm'[c][i].next_log
  <2>1. PICK n \in DOMAIN wal : /\ s \in wal[n].recs
                                /\ \A i \in 1..Len(imm[c]) : n >= imm[c][i].next_log
    BY <1>b, <1>c DEF FamilyOK
  <2>2. n >= log_number'[c] /\ \A i \in 1..Len(imm'[c]) : n >= imm'[c][i].next_log
    BY <1>a, <2>1
  <2> QED
    BY <1>b, <2>1, <2>2
<1>3. ASSUME NEW i \in 1..Len(imm'[c])
      PROVE  /\ imm'[c][i].data \subseteq acked'
             /\ log_number'[c] <= imm'[c][i].next_log
             /\ imm'[c][i].next_log <= logfile_number_'
             /\ \A j \in 1..Len(imm'[c]) : j < i => imm'[c][j].next_log <= imm'[c][i].next_log
  <2>1. i + N \in 1..Len(imm[c]) /\ imm'[c][i] = imm[c][i + N] /\ N < i + N
    BY <1>a, <1>d
  <2>2. /\ imm[c][i + N].data \subseteq acked
        /\ imm[c][i + N].next_log <= logfile_number_
        /\ \A k \in 1..Len(imm[c]) : k < i + N => imm[c][k].next_log <= imm[c][i + N].next_log
    BY <1>c, <2>1 DEF FamilyOK
  <2>3. ASSUME NEW j \in 1..Len(imm'[c]), j < i
        PROVE  imm'[c][j].next_log <= imm'[c][i].next_log
    <3>1. j + N \in 1..Len(imm[c]) /\ imm'[c][j] = imm[c][j + N] /\ j + N < i + N
      BY <1>a, <1>d, <2>3, SMTT(30)
    <3> QED
      BY <2>1, <2>2, <3>1
  <2> QED
    BY <1>a, <1>b, <2>1, <2>2, <2>3
<1>4. ASSUME NEW i \in 1..Len(imm'[c]), NEW s \in imm'[c][i].data
      PROVE  /\ \A n \in DOMAIN wal' : s \in wal'[n].recs => n < imm'[c][i].next_log
             /\ \E n \in DOMAIN wal' :
                  /\ s \in wal'[n].recs /\ n >= log_number'[c]
                  /\ \A j \in 1..Len(imm'[c]) : j < i => n >= imm'[c][j].next_log
  <2>1. i + N \in 1..Len(imm[c]) /\ imm'[c][i] = imm[c][i + N] /\ N < i + N
    BY <1>a, <1>d
  <2>2. /\ \A n \in DOMAIN wal : s \in wal[n].recs => n < imm[c][i + N].next_log
        /\ \E n \in DOMAIN wal :
             /\ s \in wal[n].recs
             /\ \A k \in 1..Len(imm[c]) : k < i + N => n >= imm[c][k].next_log
    BY <1>c, <2>1 DEF FamilyOK
  <2>3. PICK n \in DOMAIN wal :
             /\ s \in wal[n].recs
             /\ \A k \in 1..Len(imm[c]) : k < i + N => n >= imm[c][k].next_log
    BY <2>2
  <2>4. n >= log_number'[c]
    BY <1>a, <2>1, <2>3
  <2>5. ASSUME NEW j \in 1..Len(imm'[c]), j < i
        PROVE  n >= imm'[c][j].next_log
    <3>1. j + N \in 1..Len(imm[c]) /\ imm'[c][j] = imm[c][j + N] /\ j + N < i + N
      BY <1>a, <1>d, <2>5, SMTT(30)
    <3> QED
      BY <2>3, <3>1
  <2> QED
    BY <1>b, <2>1, <2>2, <2>3, <2>4, <2>5
<1> QED
  BY <1>a, <1>1, <1>2, <1>3, <1>4 DEF FamilyOK

\* The edit is synced and installed.
LEMMA CommitStep ==
  ASSUME WFInv, UNCHANGED families, NEW c \in families, Commit(c)
  PROVE  WFInv'
<1> USE DEF WFInv
<1> DEFINE N == flush[c].n
<1>a. /\ flush[c].pc = "commit" /\ manifest' = next_manifest /\ next_manifest' = next_manifest
      /\ Goto(c, "find")
  BY DEF Commit
<1>u. /\ wal' = wal /\ logs_' = logs_ /\ alive_log_files_' = alive_log_files_
      /\ logfile_number_' = logfile_number_ /\ log_empty_' = log_empty_
      /\ log_dir_synced_' = log_dir_synced_ /\ mem' = mem
      /\ batch' = batch /\ acked' = acked /\ synced' = synced
      /\ next_file_number_' = next_file_number_ /\ writer' = writer
      /\ sync' = sync /\ syncs' = syncs /\ Front' = Front
  BY DEF Commit, walVars, ackVars, Front
<1>b. /\ c \in CFs /\ families \subseteq CFs
      /\ \A d \in CFs : log_number[d] \in Nat /\ Len(imm[d]) \in Nat
      /\ Len(batch) \in Nat /\ acked \subseteq 1..Len(batch) /\ logfile_number_ \in Nat
      /\ min_log_number_to_keep_ \in Nat
  BY ListLength, SMTT(30) DEF TypeOK, LogsInv
<1>c. /\ flush' \in [CFs -> FlushStates]
      /\ \A d \in CFs \ {c} : flush'[d] = flush[d]
      /\ flush'[c].pc = "find"
  BY <1>a, <1>b, GotoFacts
<1>d. /\ N \in 1..Len(imm[c])
      /\ flush[c].next_log = imm[c][N].next_log
      /\ log_number' \in [CFs -> Nat] /\ log_number'[c] = flush[c].next_log
      /\ log_number[c] <= log_number'[c]
      /\ \A d \in CFs \ {c} : log_number'[d] = log_number[d] /\ imm'[d] = imm[d]
      /\ imm' \in [CFs -> Seq(Memtables)]
      /\ Len(imm'[c]) = Len(imm[c]) - N
      /\ \A i \in 1..Len(imm'[c]) : i + N \in 1..Len(imm[c]) /\ imm'[c][i] = imm[c][i + N]
  BY CommitFacts
<1>m. /\ min_log_number_to_keep_' \in Nat
      /\ min_log_number_to_keep_ <= min_log_number_to_keep_'
      /\ min_log_number_to_keep_' = UpTo(min_log_number_to_keep_, flush[c].min)
      /\ \A d \in families : min_log_number_to_keep_' <= log_number'[d]
  BY CommitFacts
<1> HIDE DEF N
<1>e. \A d \in CFs \ {c} : flush[d].pc # "commit"
  BY <1>a, <1>b DEF ManifestInv
<1>f. /\ manifest'.min = UpTo(manifest.min, flush[c].min)
      /\ manifest'.log[c] = flush[c].next_log
      /\ \A d \in families : manifest.log[d] <= manifest'.log[d]
      /\ \A d \in families \ {c} : manifest'.log[d] <= log_number[d]
      /\ manifest'.flushed = [manifest.flushed EXCEPT ![c] =
                                @ \union UNION {imm[c][i].data : i \in 1..N}]
  BY <1>a, <1>b DEF ManifestInv, N
<1>g. /\ \A d \in CFs \ {c} : manifest'.flushed[d] = manifest.flushed[d]
      /\ \A s : s \in manifest'.flushed[c] <=>
                  s \in manifest.flushed[c] \/ \E i \in 1..N : s \in imm[c][i].data
  <2>1. manifest.flushed \in [CFs -> SUBSET Nat]
    BY DEF TypeOK, Manifests
  <2>2. /\ \A d \in CFs \ {c} : manifest'.flushed[d] = manifest.flushed[d]
        /\ manifest'.flushed[c] =
             manifest.flushed[c] \union (UNION {imm[c][i].data : i \in 1..N})
    BY <1>b, <1>f, <2>1
  <2> QED
    BY <2>2
<1>h. /\ WalGrows /\ Kept' \subseteq Kept
      /\ \A n : Full(n)' <=> Full(n)
  <2>1. WalGrows
    BY <1>u DEF WalGrows, LogsInv
  <2>2. \A n \in DOMAIN wal : n \in Nat
    BY DEF TypeOK
  <2>3. Kept' \subseteq Kept
    BY <1>b, <1>m, <1>u, <2>2, SMTT(30) DEF Kept
  <2> QED
    BY <1>u, <2>1, <2>3 DEF Full
<1>i. \A i \in 1..N : /\ i \in 1..Len(imm[c]) /\ imm[c][i].data \subseteq acked
                      /\ imm[c][i].next_log <= flush[c].next_log
  <2> SUFFICES ASSUME NEW i \in 1..N
               PROVE  /\ i \in 1..Len(imm[c]) /\ imm[c][i].data \subseteq acked
                      /\ imm[c][i].next_log <= flush[c].next_log
    OBVIOUS
  <2>1. i \in 1..Len(imm[c])
    BY <1>b, <1>d, SMTT(30)
  <2>2. imm[c][i].data \subseteq acked
    BY <2>1 DEF DataInv, FamilyOK
  <2>3. imm[c][i].next_log \in Nat
    <3>1. imm[c][i] \in Memtables
      BY <1>b, <2>1, ListMember DEF TypeOK
    <3> QED
      BY <3>1 DEF Memtables
  <2>4. CASE i = N
    BY <1>d, <2>1, <2>2, <2>3, <2>4, SMTT(30)
  <2>5. CASE i < N
    <3>1. imm[c][i].next_log <= imm[c][N].next_log
      BY <1>d, <2>1, <2>5 DEF DataInv, FamilyOK
    <3> QED
      BY <1>d, <2>1, <2>2, <3>1
  <2> QED
    BY <1>b, <1>d, <2>4, <2>5, SMTT(30)
<1>1. TypeOK'
  BY <1>a, <1>c, <1>d, <1>m, <1>u DEF TypeOK
<1>2. LogsInv' /\ WriterInv' /\ ClosedInv'
  <2>1. LogsInv'
    BY <1>u DEF LogsInv
  <2>2. WriterInv'
    BY <1>h, <1>u DEF WriterInv
  <2>3. ClosedInv'
    BY <1>h, <1>u DEF ClosedInv
  <2> QED
    BY <2>1, <2>2, <2>3
<1>3. SyncInv'
  <2>1. ASSUME NEW a \in Syncers, SyncOK(a)
        PROVE  SyncOK(a)'
    <3>1. sync[a].todo \union sync[a].done \subseteq DOMAIN logs_'
      BY <1>u, <2>1 DEF SyncOK
    <3> QED
      BY <1>b, <1>h, <1>m, <1>u, <2>1, <3>1, SyncPersists, SMTT(30)
  <2>2. \A d \in CFs : flush'[d].pc = "sync" <=> flush[d].pc = "sync"
    BY <1>a, <1>c
  <2> QED
    BY <1>u, <2>1, <2>2 DEF SyncInv
<1>4. ClaimInv'
  <2>1. \A d \in CFs : flush'[d].pc = "close" <=> flush[d].pc = "close"
    BY <1>a, <1>c
  <2> QED
    BY <1>u, <2>1, ClaimFrame
<1>5. DataInv'
  <2>1. ASSUME NEW d \in families
        PROVE  FamilyOK(d)'
    <3>1. CASE d = c
      BY <3>1, CommitFamily
    <3>2. CASE d # c
      <4>1. /\ imm'[d] = imm[d] /\ log_number'[d] = log_number[d]
            /\ min_log_number_to_keep_' <= log_number[d]
        BY <1>b, <1>d, <1>m, <3>2
      <4>2. FamilyOK(d)
        BY DEF DataInv
      <4> QED
        BY <1>b, <1>h, <1>u, <4>1, <4>2, FamilyPersists, SMTT(30)
    <3> QED
      BY <3>1, <3>2
  <2>2. ASSUME NEW s \in acked', NEW d \in batch'[s]
        PROVE  \/ s \in manifest'.flushed[d] \/ s \in mem'[d]
               \/ \E i \in 1..Len(imm'[d]) : s \in imm'[d][i].data
    <3>1. \/ s \in manifest.flushed[d] \/ s \in mem[d]
          \/ \E i \in 1..Len(imm[d]) : s \in imm[d][i].data
      BY <1>u DEF DataInv
    <3>2. d \in CFs
      BY <1>b, <1>u DEF LogsInv
    <3>3. CASE d # c
      BY <1>d, <1>g, <1>u, <3>1, <3>2, <3>3
    <3>4. CASE d = c /\ \E i \in 1..Len(imm[c]) : s \in imm[c][i].data
      <4>1. PICK i \in 1..Len(imm[c]) : s \in imm[c][i].data
        BY <3>4
      <4>2. CASE i <= N
        <5>1. i \in 1..N
          BY <1>d, <4>2, SMTT(30)
        <5> QED
          BY <1>g, <3>4, <4>1, <5>1
      <4>3. CASE ~(i <= N)
        <5>1. i - N \in 1..Len(imm'[c]) /\ (i - N) + N = i
          BY <1>b, <1>d, <4>3, SMTT(30)
        <5>2. imm'[c][i - N] = imm[c][i]
          BY <1>d, <5>1
        <5> QED
          BY <3>4, <4>1, <5>1, <5>2
      <4> QED
        BY <4>2, <4>3
    <3>5. CASE d = c /\ (s \in manifest.flushed[c] \/ s \in mem[c])
      BY <1>g, <1>u, <3>5
    <3> QED
      BY <3>1, <3>3, <3>4, <3>5
  <2> QED
    BY <2>1, <2>2 DEF DataInv
<1>6. ReplayInv'
  <2> SUFFICES ASSUME NEW d \in families, NEW s \in manifest'.flushed[d]
               PROVE  /\ s \in acked
                      /\ \A n \in DOMAIN wal : s \in wal[n].recs => n < manifest'.log[d]
    BY <1>u DEF ReplayInv
  <2>1. /\ manifest.log[d] \in Nat /\ manifest'.log[d] \in Nat /\ DOMAIN wal \subseteq Nat
        /\ manifest.log[d] <= manifest'.log[d]
    BY <1>a, <1>b, <1>f DEF TypeOK, Manifests
  <2>2. CASE s \in manifest.flushed[d]
    <3>1. s \in acked /\ \A n \in DOMAIN wal : s \in wal[n].recs => n < manifest.log[d]
      BY <2>2 DEF ReplayInv
    <3> QED
      BY <2>1, <3>1, SMTT(30)
  <2>3. CASE d = c /\ \E i \in 1..N : s \in imm[c][i].data
    <3>1. PICK i \in 1..N : s \in imm[c][i].data
      BY <2>3
    <3>2. i \in 1..Len(imm[c]) /\ s \in acked /\ imm[c][i].next_log <= flush[c].next_log
      BY <1>i, <3>1
    <3>3. \A n \in DOMAIN wal : s \in wal[n].recs => n < imm[c][i].next_log
      BY <3>1, <3>2 DEF DataInv, FamilyOK
    <3>4. imm[c][i].next_log \in Nat
      <4>1. imm[c][i] \in Memtables
        BY <1>b, <3>2, ListMember DEF TypeOK
      <4> QED
        BY <4>1 DEF Memtables
    <3>5. manifest'.log[d] = flush[c].next_log
      BY <1>f, <2>3
    <3> QED
      BY <2>1, <3>2, <3>3, <3>4, <3>5, SMTT(30)
  <2> QED
    BY <1>b, <1>g, <2>2, <2>3
<1>7. DurableInv'
  <2>1. ASSUME Cardinality(families) > 1, NEW d \in families
        PROVE  /\ \A s \in manifest'.flushed[d] : s \in manifest.flushed[d] \/ Durable(s)'
               /\ flush'[d].pc \in {"write", "queue", "commit"} =>
                    /\ flush[d].pc \in {"write", "queue", "commit"}
                    /\ flush'[d].n = flush[d].n
                    /\ \A i \in 1..flush[d].n : imm'[d][i] = imm[d][i]
    <3>1. CASE d = c
      <4>1. ASSUME NEW i \in 1..N, NEW s \in imm[c][i].data
            PROVE  Durable(s)'
        <5>1. Durable(s)
          BY <1>a, <2>1 DEF DurableInv, N
        <5>2. s \in 1..Len(batch)
          BY <1>b, <1>i
        <5> QED
          BY <1>h, <1>m, <5>1, <5>2, DurablePersists
      <4> QED
        BY <1>c, <1>g, <3>1, <4>1
    <3>2. CASE d # c
      BY <1>b, <1>c, <1>d, <1>g, <3>2
    <3> QED
      BY <3>1, <3>2
  <2>2. \A s \in synced' : s \in synced
    BY <1>u
  <2> QED
    BY <1>h, <1>m, <1>u, <2>1, <2>2, DurableFrame
<1>8. FlushInv' /\ CloseInv'
  <2>1. JobOK(c)' /\ CloseOK(c)'
    BY <1>c DEF JobOK, CloseOK, Picked
  <2>2. ASSUME NEW d \in CFs \ {c}
        PROVE  JobOK(d)' /\ CloseOK(d)'
    <3>1. JobOK(d) /\ CloseOK(d) /\ flush'[d] = flush[d] /\ imm'[d] = imm[d]
      BY <1>c, <1>d DEF FlushInv, CloseInv
    <3>2. \A e \in families : log_number'[e] \in Nat /\ log_number[e] <= log_number'[e]
      <4>1. \A e \in CFs : log_number'[e] \in Nat
        BY <1>d
      <4>2. \A e \in CFs \ {c} : log_number[e] <= log_number'[e]
        BY <1>b, <1>d, SMTT(30)
      <4> QED
        BY <1>b, <1>d, <4>1, <4>2
    <3>3. JobOK(d)'
      BY <1>b, <1>u, <3>1, <3>2, JobPersists, SMTT(30)
    <3>4. CloseOK(d)'
      BY <1>m, <1>u, <3>1, ClosePersists
    <3> QED
      BY <3>3, <3>4
  <2> QED
    BY <2>1, <2>2 DEF FlushInv, CloseInv
<1>9. ManifestInv'
  <2>1. \A d \in CFs : flush'[d].pc # "commit"
    BY <1>c, <1>e
  <2>2. manifest'.min = min_log_number_to_keep_'
    BY <1>f, <1>m DEF ManifestInv
  <2>3. \A d \in families : manifest'.log[d] <= log_number'[d]
    <3>1. manifest'.log[c] <= log_number'[c]
      BY <1>b, <1>d, <1>f, SMTT(30)
    <3> QED
      BY <1>b, <1>d, <1>f, <3>1
  <2> QED
    BY <1>a, <2>1, <2>2, <2>3 DEF ManifestInv
<1> QED
  BY <1>1, <1>2, <1>3, <1>4, <1>5, <1>6, <1>7, <1>8, <1>9

\* The obsolete logs are deleted.
LEMMA PurgeObsoleteFilesStep ==
  ASSUME LogsHaveOldest,
         WFInv, UNCHANGED families, NEW c \in families, PurgeObsoleteFiles(c)
  PROVE  WFInv'
<1> USE DEF WFInv
<1>0. PICK del : del = flush[c].del
  OBVIOUS
<1>a. /\ flush[c].pc = "logs" /\ Front >= flush[c].min
      /\ wal' = [n \in DOMAIN wal \ del |-> wal[n]]
      /\ flush' = [flush EXCEPT ![c] = IdleFlush]
  BY <1>0 DEF PurgeObsoleteFiles
<1>u. /\ logs_' = logs_ /\ alive_log_files_' = alive_log_files_
      /\ logfile_number_' = logfile_number_ /\ log_empty_' = log_empty_
      /\ log_dir_synced_' = log_dir_synced_
      /\ mem' = mem /\ imm' = imm /\ log_number' = log_number
      /\ min_log_number_to_keep_' = min_log_number_to_keep_ /\ UNCHANGED manifestVars
      /\ manifest' = manifest /\ next_manifest' = next_manifest
      /\ batch' = batch /\ acked' = acked /\ synced' = synced
      /\ next_file_number_' = next_file_number_ /\ writer' = writer
      /\ sync' = sync /\ syncs' = syncs /\ Front' = Front
  BY DEF PurgeObsoleteFiles, cfVars, manifestVars, ackVars, Front
<1>b. /\ c \in CFs /\ families \subseteq CFs /\ min_log_number_to_keep_ \in Nat
      /\ logfile_number_ \in Nat /\ flush[c].min \in Nat /\ Len(batch) \in Nat
      /\ DOMAIN wal \subseteq Nat /\ del \subseteq Nat
      /\ \A d \in CFs : log_number[d] \in Nat
  BY <1>0, ListLength DEF TypeOK, FlushStates
<1>c. /\ flush' \in [CFs -> FlushStates]
      /\ \A d \in CFs \ {c} : flush'[d] = flush[d]
      /\ flush'[c] = IdleFlush
  <2>1. IdleFlush \in FlushStates
    BY DEF IdleFlush, FlushStates
  <2> QED
    BY <1>a, <1>b, <2>1 DEF TypeOK
<1>d. /\ \A n \in del : n < flush[c].min /\ n < min_log_number_to_keep_
      /\ \A n \in DOMAIN logs_ : n \notin del
  <2>1. flush[c].min <= min_log_number_to_keep_ /\ \A n \in del : n < flush[c].min
    BY <1>0, <1>a, <1>b DEF CloseInv, CloseOK
  <2>2. DOMAIN logs_ \subseteq Nat /\ \A n \in DOMAIN logs_ : Front <= n
    BY FrontIsFirst DEF TypeOK, LogsInv
  <2>3. Front \in Nat
    BY FrontIsFirst, <2>2
  <2>4. \A n \in DOMAIN logs_ : n >= flush[c].min
    BY <1>a, <1>b, <2>2, <2>3, SMTT(30)
  <2>5. \A n \in del : n < flush[c].min /\ n < min_log_number_to_keep_
    BY <1>b, <2>1, SMTT(30)
  <2>6. \A n \in DOMAIN logs_ : n \notin del
    BY <1>b, <2>1, <2>2, <2>4, SMTT(30)
  <2> QED
    BY <2>5, <2>6
<1>e. /\ DOMAIN wal' = DOMAIN wal \ del /\ wal' \in [DOMAIN wal' -> Wals]
      /\ \A n \in DOMAIN wal' : n \in DOMAIN wal /\ wal'[n] = wal[n]
  <2>1. wal \in [DOMAIN wal -> Wals]
    BY DEF TypeOK
  <2> QED
    BY <1>a, <2>1
<1>f. WalGrows
  BY <1>e DEF WalGrows, LogsInv
<1>g. /\ Kept' = Kept /\ \A n \in Kept : Full(n)' <=> Full(n)
      /\ \A n \in DOMAIN wal : n >= min_log_number_to_keep_ => n \in DOMAIN wal'
  <2>1. \A n \in DOMAIN wal : n >= min_log_number_to_keep_ => n \in DOMAIN wal'
    BY <1>b, <1>d, <1>e, SMTT(30)
  <2>2. Kept' = Kept
    BY <1>e, <1>u, <2>1 DEF Kept
  <2>3. \A n \in Kept : Full(n)' <=> Full(n)
    BY <1>e, <2>1 DEF Kept, Full
  <2> QED
    BY <2>1, <2>2, <2>3
<1>h. logfile_number_ \in DOMAIN wal' /\ DOMAIN logs_ \subseteq DOMAIN wal'
  BY <1>d, <1>e DEF LogsInv
<1>1. TypeOK'
  BY <1>b, <1>c, <1>e, <1>u DEF TypeOK
<1>2. LogsInv' /\ WriterInv' /\ ClosedInv'
  <2>1. LogsInv'
    BY <1>e, <1>h, <1>u DEF LogsInv
  <2>2. WriterInv'
    BY <1>e, <1>g, <1>h, <1>u DEF WriterInv
  <2>3. ClosedInv'
    BY <1>g, <1>u DEF ClosedInv
  <2> QED
    BY <2>1, <2>2, <2>3
<1>3. SyncInv'
  <2>1. ASSUME NEW a \in Syncers, SyncOK(a)
        PROVE  SyncOK(a)'
    <3>1. sync[a].todo \union sync[a].done \subseteq DOMAIN logs_'
      BY <1>u, <2>1 DEF SyncOK
    <3> QED
      BY <1>b, <1>f, <1>u, <2>1, <3>1, SyncPersists, SMTT(30)
  <2>2. \A d \in CFs : flush'[d].pc = "sync" <=> flush[d].pc = "sync"
    BY <1>a, <1>c DEF IdleFlush
  <2> QED
    BY <1>u, <2>1, <2>2 DEF SyncInv
<1>4. ClaimInv'
  <2>1. \A d \in CFs : flush'[d].pc = "close" <=> flush[d].pc = "close"
    BY <1>a, <1>c DEF IdleFlush
  <2> QED
    BY <1>u, <2>1, ClaimFrame
<1>5. DataInv' /\ ReplayInv'
  <2>1. ASSUME NEW d \in families, NEW n \in DOMAIN wal, n >= log_number[d]
        PROVE  n \in DOMAIN wal'
    <3>1. min_log_number_to_keep_ <= log_number[d]
      BY DEF DataInv, FamilyOK
    <3>2. n >= min_log_number_to_keep_
      BY <1>b, <2>1, <3>1, SMTT(30)
    <3> QED
      BY <1>g, <3>2
  <2> QED
    BY <1>f, <1>u, <2>1, DataFrame, ReplayPersists
<1>6. DurableInv'
  <2>1. \A d \in families : flush'[d].pc \in {"write", "queue", "commit"} => flush'[d] = flush[d]
    BY <1>b, <1>c, SMTT(30) DEF IdleFlush
  <2> QED
    BY <1>b, <1>f, <1>u, <2>1, DurableFrame, SMTT(30)
<1>7. (\A d \in CFs \ {c} : JobOK(d)' /\ CloseOK(d)') /\ ManifestInv'
  <2>1. flush[c].pc # "commit" /\ flush'[c].pc # "commit"
    BY <1>a, <1>c, SMTT(30) DEF IdleFlush
  <2> QED
    BY <1>b, <1>c, <1>u, <2>1, OtherJobs
<1>8. JobOK(c)' /\ CloseOK(c)'
  BY <1>c, SMTT(30) DEF JobOK, CloseOK, Picked, IdleFlush
<1> QED
  BY <1>1, <1>2, <1>3, <1>4, <1>5, <1>6, <1>7, <1>8 DEF FlushInv, CloseInv

=============================================================================
