--------------------------- MODULE WalFlushSteps ----------------------------
(***************************************************************************)
(* The steps of the writers, and of those that switch memtables and logs,  *)
(* keep the invariant WFInv; with WalFlushSyncs, every step does.          *)
(* Then, what recovery finds in a state that satisfies WFInv.              *)
(***************************************************************************)
EXTENDS WalFlushSyncs

\* Most leaves are first-order; those that need arithmetic cite SMT.
USE ZenonT(30), SMTT(30)

-----------------------------------------------------------------------------
(* Writes.                                                                 *)

\* ... of a list with one member more, ...
LEMMA ListAppend ==
  ASSUME NEW S, NEW q \in Seq(S), NEW e \in S
  PROVE  /\ Append(q, e) \in Seq(S) /\ Len(Append(q, e)) = Len(q) + 1
         /\ \A i \in 1..Len(q) : Append(q, e)[i] = q[i]
         /\ Append(q, e)[Len(q) + 1] = e
BY SMTT(30)

\* A record that is in the active log goes to the memtables and is returned.
LEMMA InsertData ==
  ASSUME TypeOK, LogsInv, DataInv, WalGrows, NEW s, Insert(s),
         UNCHANGED <<families, imm, log_number, min_log_number_to_keep_, manifest,
                     logfile_number_>>,
         logfile_number_ \in DOMAIN wal', s \in wal'[logfile_number_].recs,
         batch'[s] \subseteq CFs, \A t \in acked : batch'[t] = batch[t],
         DOMAIN wal' = DOMAIN wal
  PROVE  DataInv'
<1>1. acked' = acked \union {s} /\ \A c \in CFs : mem'[c] =
        IF c \in batch'[s] THEN mem[c] \union {s} ELSE mem[c]
  BY DEF Insert
<1>2. ASSUME NEW c \in families
      PROVE  FamilyOK(c)'
  <2>1. FamilyOK(c) /\ min_log_number_to_keep_ <= log_number[c] /\ c \in CFs
    BY DEF DataInv, FamilyOK, TypeOK
  <2>2. logfile_number_ \in Nat /\ logfile_number_ <= logfile_number_
    BY SMTT(30) DEF TypeOK
  <2>3. \A t \in mem'[c] : t \in mem[c] \/ t = s
    BY <1>1, <2>1
  <2> QED
    BY <1>1, <2>1, <2>2, <2>3, FamilyPersists
<1>3. ASSUME NEW t \in acked', NEW c \in batch'[t]
      PROVE  \/ t \in manifest.flushed[c]
             \/ t \in mem'[c]
             \/ \E i \in 1..Len(imm[c]) : t \in imm[c][i].data
  <2>1. CASE t = s
    BY <2>1, <1>1
  <2>2. CASE t \in acked
    <3>1. c \in batch[t]
      BY <2>2
    <3>2. batch[t] \subseteq CFs
      BY <2>2, ListLength, SMTT(30) DEF LogsInv, TypeOK
    <3>3. \/ t \in manifest.flushed[c]
          \/ t \in mem[c]
          \/ \E i \in 1..Len(imm[c]) : t \in imm[c][i].data
      BY <2>2, <3>1 DEF DataInv
    <3>4. mem[c] \subseteq mem'[c]
      BY <1>1, <3>1, <3>2
    <3> QED
      BY <3>3, <3>4
  <2> QED
    BY <1>1, <2>1, <2>2
<1> QED
  BY <1>2, <1>3 DEF DataInv

\* Appending a record.
LEMMA AppendFacts ==
  ASSUME TypeOK, LogsInv, NEW cfs \in SUBSET families, Append_(Len(batch) + 1, cfs)
  PROVE  /\ Len(batch) \in Nat /\ Len(batch') = Len(batch) + 1
         /\ batch' \in Seq(SUBSET CFs) /\ batch'[Len(batch) + 1] = cfs
         /\ \A s \in 1..Len(batch) : batch'[s] = batch[s]
         /\ DOMAIN wal' = DOMAIN wal /\ wal' \in [DOMAIN wal -> Wals]
         /\ \A n \in DOMAIN wal : /\ wal'[n].synced = wal[n].synced
                                  /\ wal'[n].dir = wal[n].dir
                                  /\ wal[n].recs \subseteq wal'[n].recs
                                  /\ wal'[n].recs \subseteq 1..Len(batch')
         /\ Len(batch) + 1 \in wal'[logfile_number_].recs
         /\ WalGrows
<1>1. /\ Len(batch) \in Nat /\ Len(batch') = Len(batch) + 1
      /\ batch' \in Seq(SUBSET CFs) /\ batch'[Len(batch) + 1] = cfs
      /\ \A s \in 1..Len(batch) : batch'[s] = batch[s]
  <2>1. batch \in Seq(SUBSET CFs) /\ cfs \in SUBSET CFs /\ batch' = Append(batch, cfs)
    BY DEF TypeOK, Append_
  <2> QED
    BY <2>1, ListLength, ListAppend, SMTT(30)
<1>2. logfile_number_ \in DOMAIN wal
  BY DEF LogsInv
<1>3. /\ DOMAIN wal' = DOMAIN wal /\ wal' \in [DOMAIN wal -> Wals]
      /\ \A n \in DOMAIN wal : /\ wal'[n].synced = wal[n].synced
                               /\ wal'[n].dir = wal[n].dir
                               /\ n # logfile_number_ => wal'[n] = wal[n]
      /\ wal'[logfile_number_].recs = wal[logfile_number_].recs \union {Len(batch) + 1}
  <2> DEFINE f == logfile_number_
             new == [wal[f] EXCEPT !.recs = @ \union {Len(batch) + 1}]
  <2>1. wal \in [DOMAIN wal -> Wals] /\ wal[f] \in Wals
    BY <1>2 DEF TypeOK
  <2>2. wal' = [wal EXCEPT ![f] = new]
    BY DEF Append_
  <2>3. /\ new \in Wals /\ new.synced = wal[f].synced /\ new.dir = wal[f].dir
        /\ new.recs = wal[f].recs \union {Len(batch) + 1}
    BY <1>1, <2>1, SMTT(30) DEF Wals
  <2> HIDE DEF new
  <2> QED
    BY <1>2, <2>1, <2>2, <2>3
<1>4. ASSUME NEW n \in DOMAIN wal
      PROVE  /\ wal[n].recs \subseteq wal'[n].recs
             /\ wal'[n].recs \subseteq 1..Len(batch')
             /\ wal[n].synced \subseteq wal[n].recs
  BY <1>1, <1>3, SMTT(30) DEF LogsInv
<1>5. WalGrows
  BY <1>3, <1>4 DEF WalGrows
<1> QED
  BY <1>1, <1>2, <1>3, <1>4, <1>5

\* A sync that the writer does not touch.
LEMMA WriterSyncs ==
  ASSUME TypeOK, LogsInv, SyncInv, WalGrows,
         UNCHANGED <<sync, flush, logfile_number_, min_log_number_to_keep_>>,
         DOMAIN logs_' = DOMAIN logs_, acked \subseteq acked',
         Len(batch') \in Nat, Len(batch) <= Len(batch')
  PROVE  SyncInv'
<1>1. logfile_number_ \in Nat /\ min_log_number_to_keep_ \in Nat
  BY DEF TypeOK
<1>2. ASSUME NEW a \in Syncers, sync[a].pc # "idle"
      PROVE  SyncOK(a)'
  <2>1. SyncOK(a)
    BY <1>2 DEF SyncInv
  <2>2. sync[a].todo \union sync[a].done \subseteq DOMAIN logs_
    BY <2>1 DEF SyncOK
  <2> QED
    BY <1>1, <2>1, <2>2, SyncPersists, SMTT(30)
<1> QED
  BY <1>2 DEF SyncInv

\* A write without sync.
LEMMA WriteStep ==
  ASSUME WFInv, UNCHANGED families, NEW cfs \in (SUBSET families) \ {{}}, Write(cfs)
  PROVE  WFInv'
<1> USE DEF WFInv
<1>a. /\ writer.pc = "idle" /\ Append_(Len(batch) + 1, cfs) /\ Insert(Len(batch) + 1)
      /\ logs_' = logs_ /\ alive_log_files_' = alive_log_files_
      /\ logfile_number_' = logfile_number_ /\ log_dir_synced_' = log_dir_synced_
      /\ imm' = imm /\ log_number' = log_number
      /\ min_log_number_to_keep_' = min_log_number_to_keep_
      /\ UNCHANGED manifestVars /\ manifest' = manifest /\ next_manifest' = next_manifest
      /\ synced' = synced /\ next_file_number_' = next_file_number_ /\ writer' = writer
      /\ sync' = sync /\ flush' = flush /\ syncs' = syncs
  BY DEF Write, manifestVars
<1>b. cfs \in SUBSET families
  OBVIOUS
<1>c. /\ Len(batch) \in Nat /\ Len(batch') = Len(batch) + 1
      /\ batch' \in Seq(SUBSET CFs) /\ batch'[Len(batch) + 1] = cfs
      /\ \A s \in 1..Len(batch) : batch'[s] = batch[s]
      /\ DOMAIN wal' = DOMAIN wal /\ wal' \in [DOMAIN wal -> Wals]
      /\ \A n \in DOMAIN wal : /\ wal'[n].synced = wal[n].synced
                               /\ wal'[n].dir = wal[n].dir
                               /\ wal[n].recs \subseteq wal'[n].recs
                               /\ wal'[n].recs \subseteq 1..Len(batch')
      /\ Len(batch) + 1 \in wal'[logfile_number_].recs
      /\ WalGrows
  BY <1>a, <1>b, AppendFacts
<1>d. acked = 1..Len(batch) /\ acked' = acked \union {Len(batch) + 1} /\ acked' = 1..Len(batch')
  BY <1>a, <1>c, SMTT(30) DEF LogsInv, Insert
<1>1. TypeOK'
  <2>1. mem' \in [CFs -> SUBSET Nat]
    BY <1>a, <1>c, SMTT(30) DEF Insert, TypeOK
  <2>2. log_empty_' \in BOOLEAN /\ acked' \subseteq Nat
    <3>1. log_empty_' = FALSE
      BY <1>a DEF Append_
    <3>2. acked' \subseteq Nat
      BY <1>d, SMTT(30)
    <3> QED
      BY <3>1, <3>2
  <2> QED
    BY <1>a, <1>c, <2>1, <2>2 DEF TypeOK
<1>2. LogsInv'
  <2>1. \A s \in 1..Len(batch') : batch'[s] \subseteq families
    BY <1>c, SMTT(30) DEF LogsInv
  <2>2. log_empty_' = FALSE
    BY <1>a DEF Append_
  <2>3. \A n \in DOMAIN wal : wal[n].synced \subseteq wal[n].recs
    BY DEF LogsInv
  <2>4. \A n \in DOMAIN wal' : /\ n <= logfile_number_
                               /\ wal'[n].synced \subseteq wal'[n].recs
                               /\ wal'[n].recs \subseteq 1..Len(batch')
    BY <1>c, <2>3 DEF LogsInv
  <2>5. log_dir_synced_ => \A n \in DOMAIN wal' : wal'[n].dir
    BY <1>c DEF LogsInv
  <2> QED
    BY <1>a, <1>c, <1>d, <2>1, <2>2, <2>4, <2>5 DEF LogsInv
<1>3. WriterInv'
  BY <1>a DEF WriterInv
<1>4. SyncInv'
  BY <1>a, <1>c, <1>d, WriterSyncs, SMTT(30)
<1>5. ClosedInv'
  <2>1. /\ WalGrows /\ logs_' = logs_ /\ DOMAIN wal' = DOMAIN wal
        /\ min_log_number_to_keep_' = min_log_number_to_keep_
        /\ min_log_number_to_keep_ \in Nat
    BY <1>a, <1>c DEF TypeOK
  <2> QED
    BY <2>1, ClosedPersists, SMTT(30)
<1>6. ClaimInv'
  BY <1>a, ClaimFrame
<1>7. FlushInv' /\ CloseInv' /\ ManifestInv'
  BY <1>a, FlushFrame DEF Front
<1>8. DataInv'
  <2>1. logfile_number_ \in DOMAIN wal' /\ batch'[Len(batch) + 1] \subseteq CFs
    BY <1>b, <1>c DEF LogsInv, TypeOK
  <2> QED
    BY <1>a, <1>c, <1>d, <2>1, InsertData
<1>9. ReplayInv'
  BY <1>a, <1>c, <1>d, ReplayPersists
<1>10. DurableInv'
  <2>1. /\ WalGrows /\ acked \subseteq acked' /\ synced' = synced /\ flush' = flush
        /\ imm' = imm /\ manifest' = manifest
        /\ min_log_number_to_keep_' = min_log_number_to_keep_
        /\ min_log_number_to_keep_ \in Nat
    BY <1>a, <1>c, <1>d DEF TypeOK
  <2> QED
    BY <2>1, DurableFrame, SMTT(30)
<1> QED
  BY <1>1, <1>2, <1>3, <1>4, <1>5, <1>6, <1>7, <1>8, <1>9, <1>10

\* A write with sync claims the logs and appends its record.
LEMMA WriteBeginStep ==
  ASSUME LogsHaveOldest,
         WFInv, UNCHANGED families, NEW cfs \in (SUBSET families) \ {{}}, WriteBegin(cfs)
  PROVE  WFInv'
<1> USE DEF WFInv
<1>a. /\ writer.pc = "idle" /\ Append_(Len(batch) + 1, cfs) /\ ~logs_[Front]
      /\ logs_' = PrepareForSync(logfile_number_) /\ alive_log_files_' = alive_log_files_
      /\ logfile_number_' = logfile_number_ /\ log_dir_synced_' = log_dir_synced_
      /\ mem' = mem /\ imm' = imm /\ log_number' = log_number
      /\ min_log_number_to_keep_' = min_log_number_to_keep_
      /\ UNCHANGED manifestVars /\ manifest' = manifest /\ next_manifest' = next_manifest
      /\ acked' = acked /\ synced' = synced /\ next_file_number_' = next_file_number_
      /\ sync' = sync /\ flush' = flush /\ syncs' = syncs + 1
      /\ writer' = [IdleWriter EXCEPT !.pc = "sync", !.todo = DOMAIN logs_,
                                      !.dir = ~log_dir_synced_]
  BY DEF WriteBegin, cfVars, manifestVars
<1>b. cfs \in SUBSET families
  OBVIOUS
<1>c. /\ Len(batch) \in Nat /\ Len(batch') = Len(batch) + 1
      /\ batch' \in Seq(SUBSET CFs) /\ batch'[Len(batch) + 1] = cfs
      /\ \A s \in 1..Len(batch) : batch'[s] = batch[s]
      /\ DOMAIN wal' = DOMAIN wal /\ wal' \in [DOMAIN wal -> Wals]
      /\ \A n \in DOMAIN wal : /\ wal'[n].synced = wal[n].synced
                               /\ wal'[n].dir = wal[n].dir
                               /\ wal[n].recs \subseteq wal'[n].recs
                               /\ wal'[n].recs \subseteq 1..Len(batch')
      /\ Len(batch) + 1 \in wal'[logfile_number_].recs
      /\ WalGrows
  BY <1>a, <1>b, AppendFacts
<1>d. acked = 1..Len(batch)
  BY <1>a, <1>c DEF LogsInv
<1>e. /\ DOMAIN logs_' = DOMAIN logs_ /\ Front' = Front
      /\ \A n \in DOMAIN logs_ : logs_'[n] = TRUE
  <2>1. \A n \in DOMAIN logs_ : n <= logfile_number_
    BY DEF LogsInv
  <2> QED
    BY <1>a, <2>1 DEF PrepareForSync, Front
<1>f. /\ writer'.pc = "sync" /\ writer'.todo = DOMAIN logs_ /\ writer'.dir = ~log_dir_synced_
      /\ writer' \in WriterStates
  <2>1. DOMAIN logs_ \subseteq Nat
    BY DEF TypeOK, LogsInv
  <2> QED
    BY <1>a, <2>1 DEF IdleWriter, WriterStates, TypeOK, Syncers
<1>1. TypeOK'
  <2>1. log_empty_' \in BOOLEAN /\ logs_' \in [DOMAIN logs_ -> BOOLEAN]
    BY <1>a, <1>e DEF Append_, PrepareForSync, TypeOK
  <2> QED
    <3>1. syncs' \in Nat
      BY <1>a, SMTT(30) DEF TypeOK
    <3> QED
      BY <1>a, <1>c, <1>e, <1>f, <2>1, <3>1 DEF TypeOK
<1>2. LogsInv'
  <2>1. \A s \in 1..Len(batch') : batch'[s] \subseteq families
    BY <1>c, SMTT(30) DEF LogsInv
  <2>2. log_empty_' = FALSE
    BY <1>a DEF Append_
  <2>3. \A n \in DOMAIN wal : wal[n].synced \subseteq wal[n].recs
    BY DEF LogsInv
  <2>4. \A n \in DOMAIN wal' : /\ n <= logfile_number_
                               /\ wal'[n].synced \subseteq wal'[n].recs
                               /\ wal'[n].recs \subseteq 1..Len(batch')
    BY <1>c, <2>3 DEF LogsInv
  <2>5. log_dir_synced_ => \A n \in DOMAIN wal' : wal'[n].dir
    BY <1>c DEF LogsInv
  <2>6. acked' = 1..(Len(batch') - 1)
    BY <1>a, <1>c, <1>d, SMTT(30)
  <2> QED
    BY <1>a, <1>c, <1>e, <1>f, <2>1, <2>2, <2>4, <2>5, <2>6 DEF LogsInv
<1>3. ClosedInv'
  BY <1>a, <1>c, <1>e, ClosedPersists, SMTT(30) DEF TypeOK
<1>4. WriterInv'
  <2>1. Len(batch') \in wal'[logfile_number_'].recs
    BY <1>a, <1>c
  <2>2. \A n \in Kept' : n \in writer'.todo \/ Full(n)'
    BY <1>3, <1>e, <1>f DEF ClosedInv
  <2>3. ~writer'.dir => \A n \in DOMAIN wal' : wal'[n].dir
    BY <1>c, <1>f DEF LogsInv
  <2> QED
    BY <1>e, <1>f, <2>1, <2>2, <2>3 DEF WriterInv
<1>5. SyncInv'
  BY <1>a, <1>c, <1>e, WriterSyncs, SMTT(30)
<1>6. ClaimInv'
  <2>1. \A n \in DOMAIN logs_ : /\ \A a \in Syncers : ~Holds(a, n)
                                /\ \A c \in CFs : ~Closes(c, n)
    BY <1>a, NobodyClaims
  <2>2. \A n \in DOMAIN logs_ : /\ \A a \in Syncers : ~Holds(a, n)'
                                /\ \A c \in CFs : ~Closes(c, n)'
    BY <1>a, <1>e, <2>1 DEF Holds, Closes
  <2> QED
    BY <1>e, <1>f, <2>2 DEF ClaimInv
<1>7. FlushInv' /\ CloseInv' /\ ManifestInv'
  BY <1>a, <1>e, FlushFrame
<1>8. DataInv'
  BY <1>a, <1>c, <1>d, DataFrame
<1>9. ReplayInv'
  BY <1>a, <1>c, ReplayPersists
<1>10. DurableInv'
  <2>1. /\ WalGrows /\ acked' = acked /\ synced' = synced /\ flush' = flush
        /\ imm' = imm /\ manifest' = manifest
        /\ min_log_number_to_keep_' = min_log_number_to_keep_
        /\ min_log_number_to_keep_ \in Nat
    BY <1>a, <1>c DEF TypeOK
  <2> QED
    BY <2>1, DurableFrame, SMTT(30)
<1> QED
  BY <1>1, <1>2, <1>3, <1>4, <1>5, <1>6, <1>7, <1>8, <1>9, <1>10

\* The sync write syncs the next log.
LEMMA WriteSyncStep ==
  ASSUME LogsHaveOldest,
         WFInv, UNCHANGED families, WriteSync
  PROVE  WFInv'
<1> USE DEF WFInv
<1>0. PICK n : n = Oldest(writer.todo)
  OBVIOUS
<1>a. /\ writer.pc = "sync" /\ writer.todo # {} /\ wal' = Fsync(n, wal[n].recs)
      /\ writer' = [writer EXCEPT !.todo = @ \ {n}]
      /\ UNCHANGED cfVars /\ UNCHANGED manifestVars
      /\ logs_' = logs_ /\ alive_log_files_' = alive_log_files_
      /\ logfile_number_' = logfile_number_ /\ log_empty_' = log_empty_
      /\ log_dir_synced_' = log_dir_synced_
      /\ mem' = mem /\ imm' = imm /\ log_number' = log_number
      /\ min_log_number_to_keep_' = min_log_number_to_keep_
      /\ manifest' = manifest /\ next_manifest' = next_manifest
      /\ batch' = batch /\ acked' = acked /\ synced' = synced
      /\ next_file_number_' = next_file_number_
      /\ sync' = sync /\ flush' = flush /\ syncs' = syncs
  BY <1>0 DEF WriteSync, cfVars, manifestVars, ackVars
<1>b. writer.todo \subseteq DOMAIN logs_ /\ DOMAIN logs_ \subseteq DOMAIN wal /\ DOMAIN wal \subseteq Nat
  BY <1>a DEF WriterInv, LogsInv, TypeOK
<1>c. n \in writer.todo /\ n \in DOMAIN wal
  BY <1>0, <1>a, <1>b, OldestIsLeast
<1>d. /\ DOMAIN wal' = DOMAIN wal /\ wal' \in [DOMAIN wal -> Wals]
      /\ \A k \in DOMAIN wal : /\ wal'[k].recs = wal[k].recs
                               /\ wal'[k].dir = wal[k].dir
                               /\ wal[k].synced \subseteq wal'[k].synced
                               /\ wal'[k].synced \subseteq wal'[k].recs
                               /\ Full(k) => Full(k)'
      /\ Full(n)' /\ WalGrows
  <2>1. wal[n].recs \in SUBSET wal[n].recs
    OBVIOUS
  <2> QED
    BY <1>a, <1>c, <2>1, FsyncFacts
<1>e. /\ writer'.pc = "sync" /\ writer'.todo = writer.todo \ {n} /\ writer'.dir = writer.dir
      /\ writer' \in WriterStates
  BY <1>a DEF TypeOK, WriterStates
<1>f. Len(batch) \in Nat /\ min_log_number_to_keep_ \in Nat /\ logfile_number_ \in Nat
  BY ListLength DEF TypeOK
<1>1. TypeOK'
  BY <1>a, <1>d, <1>e DEF TypeOK
<1>2. LogsInv' /\ DataInv' /\ ReplayInv'
  <2>1. log_dir_synced_ => \A k \in DOMAIN wal : wal'[k].dir
    BY <1>d DEF LogsInv
  <2>2. logfile_number_ \in DOMAIN logs_
    BY DEF LogsInv
  <2> QED
    BY <1>a, <1>d, <1>e, <2>1, <2>2, SameRecords
<1>3. WriterInv'
  <2>1. Kept' = Kept
    BY <1>a, <1>d DEF Kept
  <2>2. \A k \in Kept' : k \in writer'.todo \/ Full(k)'
    <3> SUFFICES ASSUME NEW k \in Kept, k \notin writer'.todo
                 PROVE  Full(k)'
      BY <2>1
    <3>1. k \in DOMAIN wal /\ (k \in writer.todo \/ Full(k))
      BY <1>a DEF WriterInv, Kept
    <3>2. k = n \/ Full(k)
      BY <3>1, <1>e
    <3>3. CASE k = n
      BY <3>3, <1>d
    <3>4. CASE Full(k)
      BY <3>1, <3>4, <1>d
    <3> QED
      BY <3>2, <3>3, <3>4
  <2>3. Len(batch) \in wal'[logfile_number_].recs
    BY <1>a, <1>d DEF WriterInv, LogsInv
  <2>4. writer'.todo \subseteq DOMAIN logs_
    BY <1>b, <1>e
  <2>5. ~writer'.dir => \A k \in DOMAIN wal' : wal'[k].dir
    BY <1>a, <1>d, <1>e DEF WriterInv
  <2> QED
    BY <1>a, <1>e, <2>2, <2>3, <2>4, <2>5 DEF WriterInv
<1>4. SyncInv'
  BY <1>a, <1>d, <1>f, WriterSyncs, SMTT(30)
<1>5. ClosedInv'
  BY <1>a, <1>d, <1>f, ClosedPersists, SMTT(30)
<1>6. ClaimInv'
  BY <1>a, <1>e, ClaimFrame
<1>7. FlushInv' /\ CloseInv' /\ ManifestInv'
  BY <1>a, FlushFrame DEF Front
<1>8. DurableInv'
  BY <1>a, <1>d, <1>f, DurableFrame, SMTT(30)
<1> QED
  BY <1>1, <1>2, <1>3, <1>4, <1>5, <1>6, <1>7, <1>8

\* The sync write syncs the directory, releases the logs and returns.
LEMMA WriteEndStep ==
  ASSUME WFInv, UNCHANGED families, WriteEnd
  PROVE  WFInv'
<1> USE DEF WFInv
<1>a. /\ writer.pc = "sync" /\ writer.todo = {}
      /\ wal' = IF writer.dir THEN FsyncDir(wal) ELSE wal
      /\ log_dir_synced_' = (log_dir_synced_ \/ writer.dir)
      /\ logs_' = [n \in DOMAIN logs_ \ {} |-> logs_[n] /\ n > logfile_number_]
      /\ Insert(Len(batch)) /\ writer' = IdleWriter
      /\ UNCHANGED manifestVars
      /\ alive_log_files_' = alive_log_files_
      /\ logfile_number_' = logfile_number_ /\ log_empty_' = log_empty_
      /\ imm' = imm /\ log_number' = log_number
      /\ min_log_number_to_keep_' = min_log_number_to_keep_
      /\ manifest' = manifest /\ next_manifest' = next_manifest
      /\ batch' = batch /\ synced' = synced \union {Len(batch)}
      /\ next_file_number_' = next_file_number_
      /\ sync' = sync /\ flush' = flush /\ syncs' = syncs
  BY DEF WriteEnd, manifestVars, MarkLogsSynced
<1>b. /\ DOMAIN wal' = DOMAIN wal /\ wal' \in [DOMAIN wal -> Wals] /\ WalGrows
      /\ \A k \in DOMAIN wal : /\ wal'[k].recs = wal[k].recs
                               /\ wal'[k].synced = wal[k].synced
                               /\ wal'[k].dir = TRUE
                               /\ Full(k)' <=> Full(k)
  <2>1. CASE writer.dir
    BY <1>a, <2>1, FsyncDirFacts
  <2>2. CASE ~writer.dir
    <3>1. wal' = wal /\ \A k \in DOMAIN wal : wal[k].dir /\ wal[k] \in Wals
      BY <1>a, <2>2 DEF WriterInv, TypeOK
    <3>2. \A k \in DOMAIN wal : wal[k].dir = TRUE /\ wal[k].synced \subseteq wal[k].recs
      BY <3>1 DEF Wals, LogsInv
    <3>3. WalGrows
      BY <3>1, <3>2 DEF WalGrows
    <3> QED
      BY <3>1, <3>2, <3>3 DEF TypeOK, Full
  <2> QED
    BY <2>1, <2>2
<1>c. /\ DOMAIN logs_' = DOMAIN logs_ /\ Front' = Front
      /\ \A n \in DOMAIN logs_ : logs_'[n] = FALSE
      /\ logs_' \in [DOMAIN logs_ -> BOOLEAN]
  <2>1. \A n \in DOMAIN logs_ : ~(n > logfile_number_)
    BY SMTT(30) DEF LogsInv, TypeOK
  <2> QED
    BY <1>a, <2>1 DEF Front
<1>d. /\ Len(batch) \in Nat \ {0} /\ Len(batch) \in wal'[logfile_number_].recs
      /\ logfile_number_ \in DOMAIN wal
  <2>1. Len(batch) \in wal[logfile_number_].recs /\ logfile_number_ \in DOMAIN wal
    BY <1>a DEF WriterInv, LogsInv
  <2>2. Len(batch) \in 1..Len(batch) /\ Len(batch) \in Nat
    BY <2>1, ListLength DEF LogsInv, TypeOK
  <2> QED
    BY <2>1, <2>2, <1>b, SMTT(30)
<1>e. acked' = acked \union {Len(batch)} /\ acked = 1..(Len(batch) - 1) /\ acked' = 1..Len(batch)
  <2>1. acked' = acked \union {Len(batch)} /\ acked = 1..(Len(batch) - 1)
    BY <1>a DEF Insert, LogsInv
  <2> QED
    BY <2>1, <1>d, SMTT(30)
<1>f. writer'.pc = "idle" /\ writer' \in WriterStates
  BY <1>a DEF IdleWriter, WriterStates, Syncers
<1>g. min_log_number_to_keep_ \in Nat /\ logfile_number_ \in Nat
  BY DEF TypeOK
<1>1. TypeOK'
  <2>1. mem' \in [CFs -> SUBSET Nat] /\ acked' \subseteq Nat /\ synced' \subseteq Nat
    BY <1>a, <1>d, <1>e DEF Insert, TypeOK
  <2>2. log_dir_synced_' \in BOOLEAN
    BY <1>a
  <2> QED
    BY <1>a, <1>b, <1>c, <1>f, <2>1, <2>2 DEF TypeOK
<1>2. LogsInv'
  BY <1>a, <1>b, <1>c, <1>d, <1>e, <1>f DEF LogsInv
<1>3. WriterInv'
  BY <1>f DEF WriterInv
<1>4. SyncInv'
  BY <1>a, <1>b, <1>c, <1>d, <1>e, WriterSyncs, SMTT(30)
<1>5. ClosedInv'
  BY <1>a, <1>b, <1>c, <1>g, ClosedPersists, SMTT(30)
<1>6. ClaimInv'
  <2>1. \A n \in DOMAIN logs_ : /\ \A a \in Syncers : ~Holds(a, n)
                                /\ \A c \in CFs : ~Closes(c, n)
    BY <1>a DEF ClaimInv
  <2>2. \A n \in DOMAIN logs_ : /\ \A a \in Syncers : ~Holds(a, n)'
                                /\ \A c \in CFs : ~Closes(c, n)'
    BY <1>a, <1>c, <2>1 DEF Holds, Closes
  <2>3. writer'.pc # "sync"
    BY <1>f
  <2> QED
    BY <1>c, <2>2, <2>3 DEF ClaimInv
<1>7. FlushInv' /\ CloseInv' /\ ManifestInv'
  BY <1>a, <1>c, FlushFrame
<1>8. DataInv'
  <2>1. batch'[Len(batch)] \subseteq CFs
    BY <1>a, <1>d, SMTT(30) DEF LogsInv, TypeOK
  <2> QED
    BY <1>a, <1>b, <1>d, <2>1, InsertData
<1>9. ReplayInv'
  BY <1>a, <1>b, <1>e, ReplayPersists
<1>10. DurableInv'
  <2>1. Durable(Len(batch))'
    <3>1. \A n \in Kept' : n \in DOMAIN wal /\ Full(n)'
      BY <1>a, <1>b DEF WriterInv, Kept
    <3> QED
      BY <3>1, <1>b DEF Durable, Full
  <2>2. \A s \in synced' : s \in synced \/ (s \in acked' /\ Durable(s)')
    BY <1>a, <1>e, <2>1
  <2> QED
    BY <1>a, <1>b, <1>e, <1>g, <2>2, DurableFrame, SMTT(30)
<1> QED
  BY <1>1, <1>2, <1>3, <1>4, <1>5, <1>6, <1>7, <1>8, <1>9, <1>10

-----------------------------------------------------------------------------
(* Switches.                                                               *)

\* A switch of memtables takes the number of the log that follows.
LEMMA SwitchMemtableStep ==
  ASSUME WFInv, UNCHANGED families, NEW c \in families, SwitchMemtable(c)
  PROVE  WFInv'
<1> USE DEF WFInv
<1>a. /\ writer.pc = "idle" /\ UNCHANGED walVars /\ UNCHANGED cfVars
      /\ wal' = wal /\ logs_' = logs_ /\ alive_log_files_' = alive_log_files_
      /\ logfile_number_' = logfile_number_ /\ log_empty_' = log_empty_
      /\ log_dir_synced_' = log_dir_synced_
      /\ mem' = mem /\ imm' = imm /\ log_number' = log_number
      /\ min_log_number_to_keep_' = min_log_number_to_keep_ /\ UNCHANGED manifestVars
      /\ manifest' = manifest /\ next_manifest' = next_manifest
      /\ batch' = batch /\ acked' = acked /\ synced' = synced
      /\ sync' = sync /\ flush' = flush /\ syncs' = syncs
  BY DEF SwitchMemtable, walVars, cfVars, manifestVars, ackVars
<1>b. /\ writer'.pc = "switch" /\ writer'.cf = c
      /\ writer'.number = IF log_empty_ THEN logfile_number_ ELSE next_file_number_
      /\ next_file_number_' = next_file_number_ + (IF log_empty_ THEN 0 ELSE 1)
      /\ writer' \in WriterStates
  BY DEF SwitchMemtable, IdleWriter, WriterStates, Syncers, TypeOK
<1>c. /\ logfile_number_ \in Nat /\ next_file_number_ \in Nat /\ log_empty_ \in BOOLEAN
      /\ logfile_number_ < next_file_number_ /\ next_file_number_' \in Nat
      /\ next_file_number_ <= next_file_number_' /\ min_log_number_to_keep_ \in Nat
      /\ Len(batch) \in Nat
  BY <1>b, ListLength, SMTT(30) DEF TypeOK, LogsInv
<1>d. WalGrows
  BY <1>a DEF WalGrows, LogsInv
<1>1. TypeOK'
  BY <1>a, <1>b, <1>c DEF TypeOK
<1>2. LogsInv'
  <2>1. logfile_number_ < next_file_number_'
    BY <1>c, SMTT(30)
  <2> QED
    BY <1>a, <1>b, <2>1 DEF LogsInv
<1>3. WriterInv'
  <2>1. /\ writer'.number < next_file_number_' /\ writer'.number >= logfile_number_
        /\ writer'.number = logfile_number_ => log_empty_
    BY <1>b, <1>c, SMTT(30)
  <2> QED
    BY <1>a, <1>b, <2>1 DEF WriterInv, LogsInv
<1>4. SyncInv'
  BY <1>a, <1>c, <1>d, WriterSyncs, SMTT(30)
<1>5. ClosedInv'
  BY <1>a DEF ClosedInv, Kept, Full
<1>6. ClaimInv'
  BY <1>a, <1>b, ClaimFrame
<1>7. FlushInv' /\ CloseInv' /\ ManifestInv'
  BY <1>a, FlushFrame DEF Front
<1>8. DataInv' /\ ReplayInv'
  BY <1>a, <1>d, DataFrame, ReplayPersists
<1>9. DurableInv'
  BY <1>a, <1>c, <1>d, DurableFrame, SMTT(30)
<1> QED
  BY <1>1, <1>2, <1>3, <1>4, <1>5, <1>6, <1>7, <1>8, <1>9

\* What the end of a switch does to the logs.
LEMMA SwitchEndLogs ==
  ASSUME TypeOK, LogsInv, WriterInv, SwitchEnd
  PROVE  /\ WalGrows /\ DOMAIN wal' \subseteq Nat /\ wal' \in [DOMAIN wal' -> Wals]
         /\ logfile_number_' = writer.number /\ logfile_number_ <= logfile_number_'
         /\ logfile_number_' \in Nat \ {0}
         /\ alive_log_files_' \subseteq Nat
         /\ log_empty_' \in BOOLEAN /\ log_dir_synced_' \in BOOLEAN
         /\ logs_' \in [DOMAIN logs_' -> BOOLEAN]
         /\ DOMAIN logs_ \subseteq DOMAIN logs_' /\ logfile_number_' \in DOMAIN logs_'
         /\ \A n \in DOMAIN logs_ : logs_'[n] = logs_[n]
         /\ \A n \in DOMAIN logs_' : n \in DOMAIN logs_ \/ (n > logfile_number_ /\ ~logs_'[n])
         /\ DOMAIN logs_' \subseteq DOMAIN wal' /\ DOMAIN wal \subseteq DOMAIN wal'
         /\ \A n \in DOMAIN wal : wal'[n] = wal[n]
         /\ \A n \in DOMAIN wal' :
              n \in DOMAIN wal \/ (n = logfile_number_' /\ n \in DOMAIN logs_' /\ wal'[n] = NewWal)
         /\ wal'[logfile_number_'].recs = {}
         /\ log_dir_synced_' => DOMAIN wal' = DOMAIN wal /\ log_dir_synced_
         /\ \A n \in DOMAIN wal : wal[n].recs # {} => n < logfile_number_'
<1> DEFINE n == writer.number
<1>1. /\ n \in Nat /\ logfile_number_ \in Nat \ {0} /\ n >= logfile_number_
      /\ n = logfile_number_ => wal[logfile_number_].recs = {}
  BY DEF SwitchEnd, WriterInv, TypeOK, WriterStates
<1>2. NewWal \in Wals /\ NewWal.recs = {} /\ NewWal.synced = {}
  BY DEF NewWal, Wals
<1>3. /\ \A k \in DOMAIN wal : k <= logfile_number_ /\ wal[k].synced \subseteq wal[k].recs /\ k \in Nat
      /\ \A k \in DOMAIN wal : wal[k] \in Wals
      /\ DOMAIN logs_ \subseteq DOMAIN wal /\ logfile_number_ \in DOMAIN logs_
  BY DEF LogsInv, TypeOK
<1>4. CASE n > logfile_number_
  <2>1. /\ wal' = [k \in DOMAIN wal \union {n} |-> IF k = n THEN NewWal ELSE wal[k]]
        /\ logs_' = [k \in DOMAIN logs_ \union {n} |-> k # n /\ logs_[k]]
        /\ alive_log_files_' = alive_log_files_ \union {n}
        /\ logfile_number_' = n /\ log_empty_' = TRUE /\ log_dir_synced_' = FALSE
    BY <1>4 DEF SwitchEnd
  <2>2. n \notin DOMAIN wal /\ n \notin DOMAIN logs_
    BY <1>1, <1>3, <1>4, SMTT(30)
  <2> HIDE DEF n
  <2>3. /\ DOMAIN wal' = DOMAIN wal \union {n} /\ wal'[n] = NewWal
        /\ \A k \in DOMAIN wal : wal'[k] = wal[k]
        /\ \A k \in DOMAIN wal' : wal'[k] \in Wals
        /\ DOMAIN wal' \subseteq Nat
    BY <1>1, <1>2, <1>3, <2>1, <2>2
  <2>4. /\ DOMAIN logs_' = DOMAIN logs_ \union {n} /\ ~logs_'[n]
        /\ \A k \in DOMAIN logs_ : logs_'[k] = logs_[k]
        /\ logs_' \in [DOMAIN logs_' -> BOOLEAN]
    BY <2>1, <2>2 DEF TypeOK
  <2>5. WalGrows
    BY <1>1, <1>2, <1>3, <1>4, <2>3 DEF WalGrows
  <2>6. wal' \in [DOMAIN wal' -> Wals]
    BY <2>1, <2>3
  <2>7. \A k \in DOMAIN wal : k < n
    BY <1>1, <1>3, <1>4, SMTT(30)
  <2>8. alive_log_files_' \subseteq Nat /\ logfile_number_ <= n /\ n \in Nat \ {0}
    BY <1>1, <1>4, <2>1, SMTT(30) DEF TypeOK
  <2> QED
    BY <1>2, <1>3, <1>4, <2>1, <2>3, <2>4, <2>5, <2>6, <2>7, <2>8 DEF n
<1>5. CASE ~(n > logfile_number_)
  <2>1. /\ wal' = wal /\ logs_' = logs_ /\ alive_log_files_' = alive_log_files_
        /\ logfile_number_' = logfile_number_ /\ log_empty_' = log_empty_
        /\ log_dir_synced_' = log_dir_synced_
    BY <1>5 DEF SwitchEnd, walVars
  <2>2. n = logfile_number_ /\ wal[logfile_number_].recs = {}
    BY <1>1, <1>5, SMTT(30)
  <2>3. WalGrows
    BY <1>3, <2>1 DEF WalGrows
  <2>4. \A k \in DOMAIN wal : wal[k].recs # {} => k < logfile_number_
    BY <1>1, <1>3, <2>2, SMTT(30)
  <2> QED
    BY <1>1, <1>3, <2>1, <2>2, <2>3, <2>4 DEF TypeOK
<1> QED
  BY <1>4, <1>5

\* What the end of a switch does to the memtables of a family.
LEMMA SwitchEndFamily ==
  ASSUME TypeOK, LogsInv, WriterInv, DataInv, SwitchEnd, UNCHANGED families,
         NEW c \in families
  PROVE  /\ FamilyOK(c)' /\ log_number'[c] \in Nat /\ log_number[c] <= log_number'[c]
         /\ imm'[c] \in Seq(Memtables)
         /\ Len(imm'[c]) \in Nat /\ Len(imm[c]) <= Len(imm'[c])
         /\ \A i \in 1..Len(imm[c]) : imm'[c][i] = imm[c][i]
         /\ \A s \in mem[c] : s \in mem'[c] \/ \E i \in 1..Len(imm'[c]) : s \in imm'[c][i].data
<1> DEFINE n == writer.number
           table == [data |-> mem[c], next_log |-> n]
<1>1. /\ WalGrows /\ logfile_number_' = n /\ logfile_number_ <= n
      /\ DOMAIN wal \subseteq DOMAIN wal' /\ \A k \in DOMAIN wal : wal'[k] = wal[k]
      /\ \A k \in DOMAIN wal' : k \in DOMAIN wal \/ wal'[k] = NewWal
      /\ \A k \in DOMAIN wal : wal[k].recs # {} => k < n
  BY SwitchEndLogs
<1>2. /\ c \in CFs /\ n \in Nat /\ logfile_number_ \in Nat /\ log_number[c] \in Nat
      /\ imm[c] \in Seq(Memtables) /\ Len(imm[c]) \in Nat /\ mem[c] \subseteq Nat
      /\ min_log_number_to_keep_ \in Nat /\ DOMAIN wal \subseteq Nat
  BY ListLength DEF TypeOK, WriterStates
<1>3. FamilyOK(c)
  BY DEF DataInv
<1>4. /\ log_number[c] <= logfile_number_ /\ min_log_number_to_keep_ <= log_number[c]
      /\ mem[c] \subseteq acked
  BY <1>3 DEF FamilyOK
<1>5. /\ acked' = acked /\ min_log_number_to_keep_' = min_log_number_to_keep_
      /\ log_number'[c] = IF IsEmpty(c) /\ n > logfile_number_ THEN n ELSE log_number[c]
      /\ mem'[c] = IF c = writer.cf THEN {} ELSE mem[c]
      /\ imm'[c] = IF c = writer.cf THEN Append(imm[c], table) ELSE imm[c]
  BY <1>2 DEF SwitchEnd, ackVars, TypeOK
<1>6. table \in Memtables /\ table.data = mem[c] /\ table.next_log = n
  BY <1>2 DEF Memtables
<1> HIDE DEF table
<1>7. /\ Append(imm[c], table) \in Seq(Memtables)
      /\ Len(Append(imm[c], table)) = Len(imm[c]) + 1
      /\ Append(imm[c], table)[Len(imm[c]) + 1] = table
      /\ \A i \in 1..Len(imm[c]) : Append(imm[c], table)[i] = imm[c][i]
  BY <1>2, <1>6, ListAppend, SMTT(30)
<1>8. /\ log_number'[c] \in Nat /\ log_number[c] <= log_number'[c]
      /\ log_number'[c] <= n
  BY <1>1, <1>2, <1>4, <1>5, SMTT(30)
<1>9. /\ imm'[c] \in Seq(Memtables)
      /\ Len(imm'[c]) \in Nat /\ Len(imm[c]) <= Len(imm'[c])
      /\ \A i \in 1..Len(imm[c]) : imm'[c][i] = imm[c][i]
  BY <1>2, <1>5, <1>7, SMTT(30)
<1>10. \A s \in mem[c] : s \in mem'[c] \/ \E i \in 1..Len(imm'[c]) : s \in imm'[c][i].data
  <2>1. CASE c = writer.cf
    <3>1. Len(imm[c]) + 1 \in 1..Len(imm'[c]) /\ imm'[c][Len(imm[c]) + 1].data = mem[c]
      BY <1>2, <1>5, <1>6, <1>7, <2>1, SMTT(30)
    <3> QED
      BY <3>1
  <2>2. CASE c # writer.cf
    BY <1>5, <2>2
  <2> QED
    BY <2>1, <2>2
<1>11. FamilyOK(c)'
  <2>0. /\ log_number'[c] <= logfile_number_'
        /\ min_log_number_to_keep_' <= log_number'[c]
        /\ mem'[c] \subseteq acked'
    BY <1>1, <1>2, <1>4, <1>5, <1>8, SMTT(30)
  <2>1. CASE mem[c] = {} /\ imm[c] = <<>>
    <3>1. mem'[c] = {} /\ Len(imm[c]) = 0
      BY <1>5, <2>1
    <3>2. \A i \in 1..Len(imm'[c]) : i = 1 /\ imm'[c][i] = table
      BY <1>2, <1>5, <1>7, <3>1, SMTT(30)
    <3>3. \A i \in 1..Len(imm'[c]) : imm'[c][i].data = {} /\ imm'[c][i].next_log = n
      BY <1>6, <2>1, <3>2
    <3>4. \A i, j \in 1..Len(imm'[c]) : ~(j < i)
      BY <3>2, SMTT(30)
    <3>5. n <= n
      BY <1>2, SMTT(30)
    <3> QED
      BY <1>1, <1>8, <2>0, <3>1, <3>3, <3>4, <3>5 DEF FamilyOK
  <2>2. CASE ~(mem[c] = {} /\ imm[c] = <<>>) /\ c # writer.cf
    <3>1. log_number'[c] = log_number[c] /\ mem'[c] = mem[c] /\ imm'[c] = imm[c]
      BY <1>5, <2>2 DEF IsEmpty
    <3>2. logfile_number_' \in Nat /\ min_log_number_to_keep_' <= log_number[c]
      BY <1>1, <1>2, <1>4, <1>5
    <3> QED
      BY <1>1, <1>3, <1>5, <3>1, <3>2, FamilyPersists
  <2>3. CASE ~(mem[c] = {} /\ imm[c] = <<>>) /\ c = writer.cf
    <3> DEFINE l == Len(imm[c])
    <3>1. log_number'[c] = log_number[c] /\ mem'[c] = {} /\ imm'[c] = Append(imm[c], table)
      BY <1>5, <2>3 DEF IsEmpty
    <3>2. /\ Len(imm'[c]) = l + 1 /\ imm'[c][l + 1] = table
          /\ \A i \in 1..l : imm'[c][i] = imm[c][i]
      BY <1>7, <3>1
    <3>3. \A i \in 1..l : imm[c][i].next_log \in Nat /\ imm[c][i].next_log <= logfile_number_
      <4>1. \A i \in 1..l : imm[c][i] \in Memtables
        BY <1>2, ListMember
      <4> QED
        BY <1>3, <4>1 DEF FamilyOK, Memtables
    <3>4. l \in Nat
      BY <1>2
    <3> HIDE DEF l, n
    <3>5. \A i \in 1..Len(imm'[c]) : i \in 1..l \/ i = l + 1
      BY <3>2, <3>4, SMTT(30)
    <3>6. \A i, j \in 1..Len(imm'[c]) : j < i => j \in 1..l
      BY <3>2, <3>4, SMTT(30)
    <3>7. \A i \in 1..l : /\ imm[c][i].next_log <= n /\ log_number[c] <= imm[c][i].next_log
                          /\ imm[c][i].data \subseteq acked
      BY <1>1, <1>2, <1>3, <3>3, SMTT(30) DEF FamilyOK, l
    <3>8. ASSUME NEW i \in 1..l
          PROVE  /\ \A j \in 1..l : j < i => imm[c][j].next_log <= imm[c][i].next_log
                 /\ \A s \in imm[c][i].data :
                      /\ \A k \in DOMAIN wal' : s \in wal'[k].recs => k < imm[c][i].next_log
                      /\ \E k \in DOMAIN wal' :
                           /\ s \in wal'[k].recs /\ k >= log_number[c]
                           /\ \A j \in 1..l : j < i => k >= imm[c][j].next_log
      <4>1. \A k \in DOMAIN wal' : wal'[k].recs # {} => k \in DOMAIN wal /\ wal'[k] = wal[k]
        BY <1>1, SMTT(30) DEF NewWal
      <4>2. /\ \A j \in 1..l : j < i => imm[c][j].next_log <= imm[c][i].next_log
            /\ \A s \in imm[c][i].data :
                 /\ \A k \in DOMAIN wal : s \in wal[k].recs => k < imm[c][i].next_log
                 /\ \E k \in DOMAIN wal :
                      /\ s \in wal[k].recs /\ k >= log_number[c]
                      /\ \A j \in 1..l : j < i => k >= imm[c][j].next_log
        BY <1>3 DEF FamilyOK, l
      <4> QED
        BY <1>1, <4>1, <4>2
    <3>9. ASSUME NEW s \in mem[c]
          PROVE  /\ \A k \in DOMAIN wal' : s \in wal'[k].recs => k < n
                 /\ \E k \in DOMAIN wal' :
                      /\ s \in wal'[k].recs /\ k >= log_number[c]
                      /\ \A j \in 1..l : k >= imm[c][j].next_log
      <4>1. \A k \in DOMAIN wal' : wal'[k].recs # {} => k \in DOMAIN wal /\ wal'[k] = wal[k]
        BY <1>1, SMTT(30) DEF NewWal
      <4>2. \E k \in DOMAIN wal : /\ s \in wal[k].recs /\ k >= log_number[c]
                                  /\ \A j \in 1..l : k >= imm[c][j].next_log
        BY <1>3 DEF FamilyOK, l
      <4> QED
        BY <1>1, <4>1, <4>2
    <3>10. ASSUME NEW i \in 1..Len(imm'[c])
           PROVE  /\ imm'[c][i].data \subseteq acked'
                  /\ log_number[c] <= imm'[c][i].next_log
                  /\ imm'[c][i].next_log <= logfile_number_'
                  /\ \A j \in 1..Len(imm'[c]) : j < i => imm'[c][j].next_log <= imm'[c][i].next_log
                  /\ \A s \in imm'[c][i].data :
                       /\ \A k \in DOMAIN wal' : s \in wal'[k].recs => k < imm'[c][i].next_log
                       /\ \E k \in DOMAIN wal' :
                            /\ s \in wal'[k].recs /\ k >= log_number[c]
                            /\ \A j \in 1..Len(imm'[c]) : j < i => k >= imm'[c][j].next_log
      <4>0. \A j \in 1..Len(imm'[c]) : j < i => j \in 1..l /\ imm'[c][j] = imm[c][j]
        BY <3>2, <3>6
      <4>1. CASE i \in 1..l
        <5>1. imm'[c][i] = imm[c][i]
          BY <3>2, <4>1
        <5> QED
          BY <1>1, <1>5, <3>7, <3>8, <4>0, <4>1, <5>1, SMTT(30)
      <4>2. CASE i = l + 1
        <5>1. imm'[c][i].data = mem[c] /\ imm'[c][i].next_log = n
          BY <1>6, <3>2, <4>2
        <5>2. log_number[c] <= n /\ n <= logfile_number_'
          BY <1>1, <1>2, <1>4, SMTT(30)
        <5> QED
          BY <1>4, <1>5, <3>7, <3>9, <4>0, <5>1, <5>2
      <4> QED
        BY <3>5, <4>1, <4>2
    <3> QED
      BY <2>0, <3>1, <3>10 DEF FamilyOK
  <2> QED
    BY <2>1, <2>2, <2>3
<1> QED
  BY <1>8, <1>9, <1>10, <1>11

\* The end of a switch: a new log, and an immutable memtable.
LEMMA SwitchEndStep ==
  ASSUME LogsHaveOldest,
         WFInv, UNCHANGED families, SwitchEnd
  PROVE  WFInv'
<1> USE DEF WFInv
<1>a. /\ writer.pc = "switch" /\ writer' = IdleWriter
      /\ min_log_number_to_keep_' = min_log_number_to_keep_ /\ UNCHANGED manifestVars
      /\ manifest' = manifest /\ next_manifest' = next_manifest
      /\ batch' = batch /\ acked' = acked /\ synced' = synced
      /\ next_file_number_' = next_file_number_
      /\ sync' = sync /\ flush' = flush /\ syncs' = syncs
  BY DEF SwitchEnd, manifestVars, ackVars
<1>b. /\ WalGrows /\ DOMAIN wal' \subseteq Nat /\ wal' \in [DOMAIN wal' -> Wals]
      /\ logfile_number_' = writer.number /\ logfile_number_ <= logfile_number_'
      /\ logfile_number_' \in Nat \ {0}
      /\ alive_log_files_' \subseteq Nat
      /\ log_empty_' \in BOOLEAN /\ log_dir_synced_' \in BOOLEAN
      /\ logs_' \in [DOMAIN logs_' -> BOOLEAN]
      /\ DOMAIN logs_ \subseteq DOMAIN logs_' /\ logfile_number_' \in DOMAIN logs_'
      /\ \A n \in DOMAIN logs_ : logs_'[n] = logs_[n]
      /\ \A n \in DOMAIN logs_' : n \in DOMAIN logs_ \/ (n > logfile_number_ /\ ~logs_'[n])
      /\ DOMAIN logs_' \subseteq DOMAIN wal' /\ DOMAIN wal \subseteq DOMAIN wal'
      /\ \A n \in DOMAIN wal : wal'[n] = wal[n]
      /\ \A n \in DOMAIN wal' :
           n \in DOMAIN wal \/ (n = logfile_number_' /\ n \in DOMAIN logs_' /\ wal'[n] = NewWal)
      /\ wal'[logfile_number_'].recs = {}
      /\ log_dir_synced_' => DOMAIN wal' = DOMAIN wal /\ log_dir_synced_
  BY SwitchEndLogs
<1>c. \A c \in families :
        /\ FamilyOK(c)' /\ log_number'[c] \in Nat /\ log_number[c] <= log_number'[c]
        /\ imm'[c] \in Seq(Memtables)
        /\ Len(imm'[c]) \in Nat /\ Len(imm[c]) <= Len(imm'[c])
        /\ \A i \in 1..Len(imm[c]) : imm'[c][i] = imm[c][i]
        /\ \A s \in mem[c] : s \in mem'[c] \/ \E i \in 1..Len(imm'[c]) : s \in imm'[c][i].data
  BY SwitchEndFamily
<1>d. /\ writer.cf \in families /\ writer.number < next_file_number_ /\ families \subseteq CFs
      /\ writer.number \in Nat /\ writer.number >= logfile_number_
  BY <1>a DEF WriterInv, TypeOK, WriterStates
<1>e. writer'.pc = "idle" /\ writer' \in WriterStates
  BY <1>a DEF IdleWriter, WriterStates, Syncers
<1>f. /\ logfile_number_ \in Nat /\ min_log_number_to_keep_ \in Nat /\ Len(batch) \in Nat
      /\ acked = 1..Len(batch)
  BY <1>a, ListLength DEF TypeOK, LogsInv
<1>g. \A c \in CFs \ families : imm'[c] = imm[c] /\ imm[c] \in Seq(Memtables) /\ log_number'[c] \in Nat
  BY <1>d DEF SwitchEnd, TypeOK
<1>1. TypeOK'
  <2>1. mem' \in [CFs -> SUBSET Nat]
    BY DEF SwitchEnd, TypeOK
  <2>2. imm' \in [CFs -> Seq(Memtables)]
    <3>1. imm' = [c \in CFs |-> imm'[c]]
      BY DEF SwitchEnd, TypeOK
    <3>2. \A c \in CFs : imm'[c] \in Seq(Memtables)
      BY <1>c, <1>g
    <3> QED
      BY <3>1, <3>2
  <2>3. log_number' \in [CFs -> Nat]
    <3>1. log_number' = [c \in CFs |-> log_number'[c]]
      BY DEF SwitchEnd
    <3>2. \A c \in CFs : log_number'[c] \in Nat
      BY <1>c, <1>g
    <3> QED
      BY <3>1, <3>2
  <2> QED
    BY <1>a, <1>b, <1>e, <2>1, <2>2, <2>3 DEF TypeOK
<1>2. LogsInv'
  <2>1. /\ logfile_number_' < next_file_number_'
        /\ log_empty_' => wal'[logfile_number_'].recs = {}
        /\ acked' = 1..Len(batch') /\ writer'.pc # "sync"
        /\ \A s \in 1..Len(batch') : batch'[s] \subseteq families'
    BY <1>a, <1>b, <1>d, <1>e, <1>f DEF LogsInv
  <2>2. ASSUME NEW n \in DOMAIN wal'
        PROVE  /\ n <= logfile_number_'
               /\ wal'[n].synced \subseteq wal'[n].recs
               /\ wal'[n].recs \subseteq 1..Len(batch')
    <3>1. CASE n \in DOMAIN wal
      <4>1. n <= logfile_number_ /\ n \in Nat
        BY <3>1 DEF LogsInv, TypeOK
      <4>2. n <= logfile_number_'
        BY <4>1, <1>b, <1>f, SMTT(30)
      <4> QED
        BY <3>1, <4>2, <1>a, <1>b DEF LogsInv
    <3>2. CASE n = logfile_number_' /\ wal'[n] = NewWal
      BY <3>2, <1>b, SMTT(30) DEF NewWal
    <3> QED
      BY <3>1, <3>2, <1>b
  <2>3. log_dir_synced_' => \A n \in DOMAIN wal' : wal'[n].dir
    BY <1>b DEF LogsInv
  <2> QED
    BY <1>b, <2>1, <2>2, <2>3 DEF LogsInv
<1>3. WriterInv'
  BY <1>e DEF WriterInv
<1>4. SyncInv'
  <2>1. ASSUME NEW a \in Syncers, sync[a].pc # "idle"
        PROVE  SyncOK(a)'
    <3>1. SyncOK(a)
      BY <2>1 DEF SyncInv
    <3>2. sync[a].todo \union sync[a].done \subseteq DOMAIN logs_'
      BY <3>1, <1>b DEF SyncOK
    <3> QED
      BY <1>a, <1>b, <1>f, <3>1, <3>2, SyncPersists, SMTT(30)
  <2> QED
    BY <1>a, <2>1 DEF SyncInv
<1>5. ClosedInv'
  BY <1>a, <1>b, <1>f, ClosedPersists, SMTT(30)
<1>h. Front' = Front
  <2>1. /\ Front \in DOMAIN logs_ /\ \A n \in DOMAIN logs_ : Front <= n
        /\ Front' \in DOMAIN logs_' /\ \A n \in DOMAIN logs_' : Front' <= n
    <3>1. Front \in DOMAIN logs_ /\ \A n \in DOMAIN logs_ : Front <= n
      BY FrontIsFirst
    <3>2. DOMAIN logs_' \subseteq Nat /\ DOMAIN logs_' # {}
      BY <1>b
    <3>3. Front' \in DOMAIN logs_' /\ \A n \in DOMAIN logs_' : Front' <= n
      BY <3>2, OldestIsLeast DEF Front
    <3> QED
      BY <3>1, <3>3
  <2>2. Front \in Nat /\ Front' \in Nat /\ Front <= logfile_number_
    BY <2>1, <1>b DEF LogsInv, TypeOK
  <2>3. Front' <= Front
    BY <2>1, <1>b
  <2>4. Front' \in DOMAIN logs_
    BY <2>1, <2>2, <2>3, <1>b, <1>f, SMTT(30)
  <2> QED
    BY <2>1, <2>2, <2>3, <2>4, SMTT(30)
<1>6. ClaimInv'
  <2>1. \A a \in Syncers : \A n : Holds(a, n)' <=> Holds(a, n)
    BY <1>a DEF Holds
  <2>2. \A c \in CFs : \A n : Closes(c, n)' <=> Closes(c, n)
    BY <1>a, <1>h DEF Closes
  <2>3. writer.pc # "sync" /\ writer'.pc # "sync"
    BY <1>a, <1>e
  <2>4. ASSUME NEW n \in DOMAIN logs_', n > logfile_number_
        PROVE  (\A a \in Syncers : ~Holds(a, n)) /\ (\A c \in CFs : ~Closes(c, n))
    <3>1. n \in Nat
      BY <1>b
    <3>2. ASSUME NEW a \in Syncers, Holds(a, n)
          PROVE  FALSE
      <4>1. SyncOK(a) /\ sync[a] \in SyncStates /\ n <= sync[a].up_to
        BY <3>2 DEF SyncInv, Holds, TypeOK
      <4>2. sync[a].up_to <= sync[a].active /\ sync[a].active <= logfile_number_
        BY <4>1, SMTT(30) DEF SyncOK, SyncStates
      <4>3. sync[a].up_to \in Nat /\ sync[a].active \in Nat
        BY <4>1 DEF SyncStates
      <4> QED
        BY <1>f, <2>4, <3>1, <4>1, <4>2, <4>3, SMTT(30)
    <3>3. Front <= logfile_number_ /\ Front \in Nat
      BY FrontIsFirst DEF LogsInv, TypeOK
    <3>4. \A c \in CFs : ~Closes(c, n)
      BY <3>1, <3>3, <2>4, <1>f, SMTT(30) DEF Closes
    <3> QED
      BY <3>2, <3>4
  <2>5. ASSUME NEW n \in DOMAIN logs_'
        PROVE  /\ logs_'[n] <=> \/ writer'.pc = "sync"
                                \/ \E a \in Syncers : Holds(a, n)'
                                \/ \E c \in CFs : Closes(c, n)'
               /\ \A a, b \in Syncers : Holds(a, n)' /\ Holds(b, n)' => a = b
               /\ \A c, d \in CFs : Closes(c, n)' /\ Closes(d, n)' => c = d
               /\ \A a \in Syncers, c \in CFs : ~(Holds(a, n)' /\ Closes(c, n)')
    <3>1. CASE n \in DOMAIN logs_
      <4>1. logs_'[n] <=> logs_[n]
        BY <3>1, <1>b
      <4>2. /\ logs_[n] <=> \/ writer.pc = "sync"
                            \/ \E a \in Syncers : Holds(a, n)
                            \/ \E c \in CFs : Closes(c, n)
            /\ \A a, b \in Syncers : Holds(a, n) /\ Holds(b, n) => a = b
            /\ \A c, d \in CFs : Closes(c, n) /\ Closes(d, n) => c = d
            /\ \A a \in Syncers, c \in CFs : ~(Holds(a, n) /\ Closes(c, n))
        BY <3>1 DEF ClaimInv
      <4> QED
        BY <4>1, <4>2, <2>1, <2>2, <2>3
    <3>2. CASE n > logfile_number_ /\ ~logs_'[n]
      BY <3>2, <2>1, <2>2, <2>3, <2>4
    <3> QED
      BY <3>1, <3>2, <1>b
  <2> QED
    BY <2>3, <2>5 DEF ClaimInv
<1>7. FlushInv' /\ CloseInv' /\ ManifestInv'
  <2>1. ASSUME NEW c \in CFs
        PROVE  JobOK(c)' /\ CloseOK(c)'
    <3>1. JobOK(c) /\ CloseOK(c)
      BY DEF FlushInv, CloseInv
    <3>2. /\ Len(imm'[c]) \in Nat /\ Len(imm[c]) <= Len(imm'[c])
          /\ \A i \in 1..Len(imm[c]) : imm'[c][i] = imm[c][i]
      BY <1>c, <1>g, ListLength, SMTT(30)
    <3>3. JobOK(c)'
      BY <1>a, <1>c, <3>1, <3>2, JobPersists
    <3>4. CloseOK(c)'
      BY <1>a, <1>f, <1>h, <3>1, ClosePersists, SMTT(30)
    <3> QED
      BY <3>3, <3>4
  <2>2. \A c \in CFs : flush[c].pc = "commit" => \A i \in 1..flush[c].n : imm'[c][i] = imm[c][i]
    BY <1>c, JobData DEF Picked
  <2>3. ManifestInv'
    BY <1>a, <1>c, <2>2, ManifestPersists
  <2> QED
    BY <2>1, <2>3 DEF FlushInv, CloseInv
<1>8. DataInv'
  <2>1. ASSUME NEW s \in acked, NEW c \in batch[s]
        PROVE  \/ s \in manifest.flushed[c]
               \/ s \in mem'[c]
               \/ \E i \in 1..Len(imm'[c]) : s \in imm'[c][i].data
    <3>1. c \in families
      BY <1>f DEF LogsInv
    <3>2. \/ s \in manifest.flushed[c]
          \/ s \in mem[c]
          \/ \E i \in 1..Len(imm[c]) : s \in imm[c][i].data
      BY DEF DataInv
    <3>3. ASSUME NEW i \in 1..Len(imm[c]), s \in imm[c][i].data
          PROVE  \E j \in 1..Len(imm'[c]) : s \in imm'[c][j].data
      <4>1. i \in 1..Len(imm'[c]) /\ imm'[c][i] = imm[c][i]
        BY <1>c, <3>1, ListLength, SMTT(30) DEF TypeOK
      <4> QED
        BY <3>3, <4>1
    <3> QED
      BY <1>c, <3>1, <3>2, <3>3
  <2> QED
    BY <1>a, <1>c, <2>1 DEF DataInv
<1>9. ReplayInv'
  BY <1>a, <1>b, ReplayPersists
<1>10. DurableInv'
  <2>1. \A c \in families : flush[c].pc \in {"write", "queue", "commit"} =>
          \A i \in 1..flush[c].n : imm'[c][i] = imm[c][i]
    BY <1>c, <1>d, JobData DEF Picked
  <2> QED
    BY <1>a, <1>b, <1>f, <2>1, DurableFrame, SMTT(30)
<1> QED
  BY <1>1, <1>2, <1>3, <1>4, <1>5, <1>6, <1>7, <1>8, <1>9, <1>10

-----------------------------------------------------------------------------
(* The first state and every step.                                         *)

\* A new DB satisfies the invariant.
LEMMA InitInv ==
  ASSUME Init
  PROVE  WFInv
<1>a. /\ families \in (SUBSET CFs) \ {{}}
      /\ DOMAIN wal = {1} /\ wal[1] = NewWal /\ wal = [n \in {1} |-> NewWal]
      /\ DOMAIN logs_ = {1} /\ logs_[1] = FALSE /\ logs_ = [n \in {1} |-> FALSE]
      /\ alive_log_files_ = {1} /\ logfile_number_ = 1
      /\ log_empty_ = TRUE /\ log_dir_synced_ = FALSE /\ next_file_number_ = 2
      /\ mem = [c \in CFs |-> {}] /\ imm = [c \in CFs |-> <<>>]
      /\ log_number = [c \in CFs |-> 1] /\ min_log_number_to_keep_ = 1
      /\ manifest = [flushed |-> [c \in CFs |-> {}], log |-> log_number, min |-> 1]
      /\ next_manifest = manifest
      /\ batch = <<>> /\ acked = {} /\ synced = {} /\ syncs = 0
  BY DEF Init
<1>b. /\ writer = IdleWriter /\ sync = [a \in Syncers |-> IdleSync]
      /\ flush = [c \in CFs |-> IdleFlush]
  BY DEF Init, Syncers
<1>c. /\ writer.pc = "idle" /\ \A a \in Syncers : sync[a].pc = "idle"
      /\ \A c \in CFs : flush[c].pc = "idle"
  BY <1>b DEF IdleWriter, IdleSync, IdleFlush
<1>d. Len(batch) = 0 /\ 1..0 = {} /\ \A c \in CFs : imm[c] = <<>> /\ Len(imm[c]) = 0
  BY <1>a, SMTT(30)
<1>e. /\ manifest \in Manifests /\ manifest.min = 1
      /\ \A c \in CFs : manifest.flushed[c] = {} /\ manifest.log[c] = 1
      /\ \A c \in CFs : mem[c] = {} /\ log_number[c] = 1
  BY <1>a DEF Manifests
<1>g. /\ families \in (SUBSET CFs) \ {{}} /\ DOMAIN wal = {1}
      /\ alive_log_files_ = {1} /\ logfile_number_ = 1
      /\ log_empty_ = TRUE /\ log_dir_synced_ = FALSE /\ next_file_number_ = 2
      /\ min_log_number_to_keep_ = 1 /\ acked = {} /\ synced = {} /\ syncs = 0
  BY <1>a
<1>1. TypeOK
  <2>1. wal \in [DOMAIN wal -> Wals] /\ logs_ \in [DOMAIN logs_ -> BOOLEAN]
    BY <1>a DEF NewWal, Wals
  <2>2. writer \in WriterStates
    BY <1>b DEF IdleWriter, WriterStates, Syncers
  <2>3. sync \in [Syncers -> SyncStates]
    <3>1. IdleSync \in SyncStates
      BY DEF IdleSync, SyncStates
    <3> QED
      BY <1>b, <3>1
  <2>4. flush \in [CFs -> FlushStates]
    <3>1. IdleFlush \in FlushStates
      BY DEF IdleFlush, FlushStates
    <3> QED
      BY <1>b, <3>1
  <2>5. imm \in [CFs -> Seq(Memtables)] /\ batch \in Seq(SUBSET CFs)
    BY <1>a, SMTT(30)
  <2> QED
    <3>0. log_empty_ \in BOOLEAN /\ log_dir_synced_ \in BOOLEAN
      BY <1>g
    <3>1. /\ DOMAIN wal \subseteq Nat
          /\ alive_log_files_ \subseteq Nat /\ logfile_number_ \in Nat \ {0}
          /\ next_file_number_ \in Nat /\ min_log_number_to_keep_ \in Nat
          /\ acked \subseteq Nat /\ synced \subseteq Nat /\ syncs \in Nat
      BY <1>g, SMTT(30)
    <3>2. mem \in [CFs -> SUBSET Nat] /\ log_number \in [CFs -> Nat]
      BY <1>a
    <3>3. next_manifest \in Manifests
      BY <1>a, <1>e
    <3> QED
      BY <1>e, <1>g, <2>1, <2>2, <2>3, <2>4, <2>5, <3>0, <3>1, <3>2, <3>3 DEF TypeOK
<1>2. LogsInv
  BY <1>a, <1>c, <1>d, SMTT(30) DEF LogsInv, NewWal
<1>3. WriterInv /\ SyncInv /\ ClosedInv
  BY <1>a, <1>c DEF WriterInv, SyncInv, ClosedInv, Kept, Syncers
<1>4. ClaimInv
  BY <1>a, <1>c DEF ClaimInv, Holds, Closes
<1>5. CloseInv /\ FlushInv
  BY <1>c DEF CloseInv, CloseOK, FlushInv, JobOK, Picked
<1>6. DataInv /\ ReplayInv
  BY <1>a, <1>d, <1>e, SMTT(30) DEF DataInv, FamilyOK, ReplayInv
<1>7. ManifestInv
  BY <1>a, <1>c, <1>e, SMTT(30) DEF ManifestInv
<1>8. DurableInv
  BY <1>a, <1>c, <1>e DEF DurableInv
<1> QED
  BY <1>1, <1>2, <1>3, <1>4, <1>5, <1>6, <1>7, <1>8 DEF WFInv

\* A step in which nothing changes.
LEMMA StutterInv ==
  ASSUME WFInv, UNCHANGED vars
  PROVE  WFInv'
<1> USE DEF WFInv
<1>a. /\ families' = families /\ wal' = wal /\ logs_' = logs_
      /\ alive_log_files_' = alive_log_files_ /\ logfile_number_' = logfile_number_
      /\ log_empty_' = log_empty_ /\ log_dir_synced_' = log_dir_synced_
      /\ next_file_number_' = next_file_number_ /\ mem' = mem /\ imm' = imm
      /\ log_number' = log_number /\ min_log_number_to_keep_' = min_log_number_to_keep_
      /\ manifest' = manifest /\ next_manifest' = next_manifest
      /\ batch' = batch /\ acked' = acked /\ synced' = synced
      /\ writer' = writer /\ sync' = sync /\ flush' = flush /\ syncs' = syncs
      /\ UNCHANGED ackVars /\ UNCHANGED manifestVars /\ Front' = Front
  BY DEF vars, walVars, cfVars, manifestVars, ackVars, Front
<1>b. flush \in [CFs -> FlushStates] /\ alive_log_files_ \subseteq Nat /\ next_manifest \in Manifests
  BY DEF TypeOK
<1>1. /\ TypeOK' /\ LogsInv' /\ WriterInv' /\ SyncInv' /\ ClosedInv' /\ ClaimInv'
      /\ DataInv' /\ ReplayInv' /\ DurableInv'
  BY <1>a, <1>b, QuietJob
<1>2. FlushInv' /\ CloseInv' /\ ManifestInv'
  BY <1>a, FlushFrame
<1> QED
  BY <1>1, <1>2

\* Every step keeps the invariant.
LEMMA NextInv ==
  ASSUME LogsHaveOldest,
         WFInv, [Next]_vars
  PROVE  WFInv'
<1>0. User \in Syncers /\ families \subseteq Syncers
  BY DEF Syncers, WFInv, TypeOK
<1>1. CASE UNCHANGED vars
  BY <1>1, StutterInv
<1>2. CASE Next
  <2>0. UNCHANGED families
    BY <1>2 DEF Next
  <2>1. ASSUME NEW cfs \in (SUBSET families) \ {{}}, Write(cfs) \/ WriteBegin(cfs)
        PROVE  WFInv'
    BY <2>0, <2>1, WriteStep, WriteBeginStep
  <2>2. CASE WriterStep
    BY <2>0, <2>2, WriteSyncStep, WriteEndStep, SwitchEndStep DEF WriterStep
  <2>3. ASSUME NEW c \in families, SwitchMemtable(c) \/ FlushMemTable(c)
        PROVE  WFInv'
    BY <2>0, <2>3, SwitchMemtableStep, FlushMemTableStep
  <2>4. ASSUME NEW c \in families, FlushStep(c)
        PROVE  WFInv'
    <3>1. CASE SyncClosedWals(c) \/ SyncClosedWalsEnd(c)
      BY <2>0, <3>1, SyncClosedWalsStep, SyncClosedWalsEndStep
    <3>2. CASE SyncOne(c) \/ SyncDir(c)
      BY <1>0, <2>0, <3>2, SyncOneStep, SyncDirStep
    <3>3. CASE InstallResults(c) \/ Commit(c) \/ FindObsoleteFiles(c)
      BY <2>0, <3>3, InstallResultsStep, CommitStep, FindObsoleteFilesStep
    <3>4. CASE \E roll \in BOOLEAN : LogAndApply(c, roll)
      BY <2>0, <3>4, LogAndApplyStep
    <3>5. CASE CloseObsoleteLog(c) \/ PopObsoleteLog(c) \/ PurgeObsoleteFiles(c)
      BY <2>0, <3>5, CloseObsoleteLogStep, PopObsoleteLogStep, PurgeObsoleteFilesStep
    <3> QED
      BY <2>4, <3>1, <3>2, <3>3, <3>4, <3>5 DEF FlushStep
  <2>5. CASE SyncWAL
    BY <2>0, <2>5, SyncWALStep
  <2>6. CASE UserStep
    BY <1>0, <2>0, <2>6, SyncOneStep, SyncDirStep, SyncWALEndStep DEF UserStep
  <2> QED
    BY <1>2, <2>1, <2>2, <2>3, <2>4, <2>5, <2>6 DEF Next
<1> QED
  BY <1>1, <1>2

-----------------------------------------------------------------------------
(* What recovery finds.                                                    *)

\* MANIFEST as it is, or with the edit that one job is writing.
LEMMA ManifestCases ==
  ASSUME WFInv, NEW m \in manifests
  PROVE  /\ m \in Manifests
         /\ \/ m = manifest
            \/ \E d \in families :
                 /\ flush[d].pc = "commit" /\ flush[d].n \in 1..Len(imm[d])
                 /\ flush[d].next_log = imm[d][flush[d].n].next_log
                 /\ m.min = UpTo(manifest.min, flush[d].min)
                 /\ m.log[d] = flush[d].next_log
                 /\ \A e \in families : manifest.log[e] <= m.log[e]
                 /\ \A e \in families \ {d} : m.log[e] <= log_number[e]
                 /\ \A e \in families \ {d} : m.flushed[e] = manifest.flushed[e]
                 /\ \A s : s \in m.flushed[d] <=>
                      s \in manifest.flushed[d]
                      \/ \E i \in 1..flush[d].n : s \in imm[d][i].data
<1> USE DEF WFInv
<1>1. m \in Manifests /\ manifest.flushed \in [CFs -> SUBSET Nat] /\ families \subseteq CFs
  BY DEF TypeOK, manifests, Manifests
<1>2. CASE \A d \in CFs : flush[d].pc # "commit"
  BY <1>1, <1>2 DEF ManifestInv, manifests
<1>3. ASSUME NEW d \in CFs, flush[d].pc = "commit", m # manifest
      PROVE  /\ d \in families /\ flush[d].n \in 1..Len(imm[d])
             /\ flush[d].next_log = imm[d][flush[d].n].next_log
             /\ m.min = UpTo(manifest.min, flush[d].min)
             /\ m.log[d] = flush[d].next_log
             /\ \A e \in families : manifest.log[e] <= m.log[e]
             /\ \A e \in families \ {d} : m.log[e] <= log_number[e]
             /\ \A e \in families \ {d} : m.flushed[e] = manifest.flushed[e]
             /\ \A s : s \in m.flushed[d] <=>
                  s \in manifest.flushed[d] \/ \E i \in 1..flush[d].n : s \in imm[d][i].data
  <2>1. m = next_manifest
    BY <1>3 DEF manifests
  <2>2. /\ m.min = UpTo(manifest.min, flush[d].min)
        /\ m.flushed = [manifest.flushed EXCEPT ![d] =
                          @ \union UNION {imm[d][i].data : i \in 1..flush[d].n}]
        /\ m.log[d] = flush[d].next_log
        /\ \A e \in families : manifest.log[e] <= m.log[e]
        /\ \A e \in families \ {d} : m.log[e] <= log_number[e]
    BY <1>3, <2>1 DEF ManifestInv
  <2>3. /\ \A e \in CFs \ {d} : m.flushed[e] = manifest.flushed[e]
        /\ m.flushed[d] = manifest.flushed[d] \union
                            (UNION {imm[d][i].data : i \in 1..flush[d].n})
    BY <1>1, <2>2
  <2>4. \A s : s \in m.flushed[d] <=>
          s \in manifest.flushed[d] \/ \E i \in 1..flush[d].n : s \in imm[d][i].data
    BY <2>3
  <2>5. /\ d \in families /\ flush[d].n \in 1..Len(imm[d])
        /\ flush[d].next_log = imm[d][flush[d].n].next_log
    BY <1>3 DEF FlushInv, JobOK, Picked
  <2> QED
    BY <1>1, <2>2, <2>3, <2>4, <2>5
<1> QED
  BY <1>1, <1>2, <1>3

\* Recovery starts at or after the smallest log MANIFEST knows to be needed,
\* and not after the log number of any family if that is not older.
LEMMA MinWalFacts ==
  ASSUME LogsHaveOldest, TypeOK, NEW m \in Manifests
  PROVE  /\ MinWal(m) \in Nat /\ m.min <= MinWal(m)
         /\ \A c \in families, n \in Nat : n >= m.min /\ n >= m.log[c] => n >= MinWal(m)
<1> DEFINE S == {m.log[c] : c \in families}
<1>1. S \subseteq Nat /\ S # {} /\ m.min \in Nat /\ \A c \in families : m.log[c] \in S
  BY SMTT(30) DEF TypeOK, Manifests
<1>2. MinWal(m) = UpTo(m.min, Oldest(S))
  BY DEF MinWal
<1> HIDE DEF S
<1>3. Oldest(S) \in S /\ \A y \in S : Oldest(S) <= y
  BY <1>1, OldestIsLeast
<1>4. Oldest(S) \in Nat /\ \A c \in families : Oldest(S) <= m.log[c] /\ m.log[c] \in Nat
  BY <1>1, <1>3
<1>5. MinWal(m) \in Nat /\ m.min <= MinWal(m) /\ MinWal(m) \in {m.min, Oldest(S)}
  <2>1. PICK x \in Nat : x = Oldest(S)
    BY <1>4
  <2> QED
    BY <1>1, <1>2, <2>1, UpToFacts, SMTT(30)
<1>6. ASSUME NEW c \in families, NEW n \in Nat, n >= m.min, n >= m.log[c]
      PROVE  n >= MinWal(m)
  BY <1>1, <1>4, <1>5, <1>6, SMTT(30)
<1> QED
  BY <1>5, <1>6

\* A log that is not before the log number of a family, nor before the memtables
\* the edit in progress would flush, is replayed into it.
LEMMA IsReplayed ==
  ASSUME LogsHaveOldest,
         WFInv, NEW m \in manifests, NEW c \in families, NEW n \in DOMAIN wal,
         n >= log_number[c],
         m # manifest /\ flush[c].pc = "commit" => n >= flush[c].next_log
  PROVE  n \in ReplayedLogs(m, c) /\ n \in Kept
<1> USE DEF WFInv
<1>1. /\ n \in Nat /\ log_number[c] \in Nat /\ min_log_number_to_keep_ \in Nat
      /\ \A d \in families : flush[d].min \in Nat /\ flush[d].next_log \in Nat
      /\ \A d \in families : manifest.log[d] \in Nat
      /\ manifest.min = min_log_number_to_keep_
  BY DEF TypeOK, FlushStates, Manifests, ManifestInv
<1>2. min_log_number_to_keep_ <= log_number[c]
  BY DEF DataInv, FamilyOK
<1>3. m \in Manifests /\ m.min \in Nat /\ m.log[c] \in Nat
  <2>1. m \in Manifests /\ c \in CFs
    BY ManifestCases DEF TypeOK
  <2> QED
    BY <2>1 DEF Manifests
<1>4. n >= m.min /\ n >= m.log[c]
  <2>1. CASE m = manifest
    <3>1. manifest.log[c] <= log_number[c]
      BY DEF ManifestInv
    <3> QED
      BY <1>1, <1>2, <2>1, <3>1, SMTT(30)
  <2>2. CASE m # manifest
    <3>1. PICK d \in families :
            /\ flush[d].pc = "commit" /\ m.min = UpTo(manifest.min, flush[d].min)
            /\ m.log[d] = flush[d].next_log
            /\ \A e \in families \ {d} : m.log[e] <= log_number[e]
      BY <2>2, ManifestCases
    <3>2. /\ flush[d].min <= flush[d].next_log
          /\ \A e \in families \ {d} : flush[d].min <= log_number[e]
      BY <3>1 DEF FlushInv, JobOK, TypeOK
    <3>3. m.min \in {manifest.min, flush[d].min}
      BY <1>1, <3>1, UpToFacts
    <3>4. CASE d = c
      BY <1>1, <1>2, <1>3, <2>2, <3>1, <3>2, <3>3, <3>4, SMTT(30)
    <3>5. CASE d # c
      BY <1>1, <1>2, <1>3, <3>1, <3>2, <3>3, <3>5, SMTT(30)
    <3> QED
      BY <3>4, <3>5
  <2> QED
    BY <2>1, <2>2
<1>5. n >= MinWal(m)
  BY <1>1, <1>3, <1>4, MinWalFacts
<1>6. n >= min_log_number_to_keep_
  BY <1>1, <1>2, SMTT(30)
<1> QED
  BY <1>4, <1>5, <1>6 DEF ReplayedLogs, Kept

\* A record that was returned is in MANIFEST or in a log that will be replayed.
LEMMA IsFound ==
  ASSUME LogsHaveOldest,
         WFInv, NEW m \in manifests, NEW s \in acked, NEW c \in batch[s]
  PROVE  \/ s \in m.flushed[c]
         \/ \E n \in ReplayedLogs(m, c) : n \in Kept /\ s \in wal[n].recs
<1> USE DEF WFInv
<1>1. c \in families /\ c \in CFs /\ FamilyOK(c)
  <2>1. s \in 1..Len(batch)
    <3>1. Len(batch) \in Nat
      BY ListLength DEF TypeOK
    <3> QED
      BY <3>1, SMTT(30) DEF LogsInv
  <2>2. c \in families
    BY <2>1 DEF LogsInv
  <2> QED
    BY <2>2 DEF TypeOK, DataInv
<1>2. /\ manifest.flushed[c] \subseteq m.flushed[c]
      /\ m # manifest /\ flush[c].pc = "commit" =>
           /\ flush[c].n \in 1..Len(imm[c])
           /\ flush[c].next_log = imm[c][flush[c].n].next_log
           /\ \A i \in 1..flush[c].n : imm[c][i].data \subseteq m.flushed[c]
  <2>1. CASE m = manifest
    BY <2>1
  <2>2. CASE m # manifest
    <3>1. PICK d \in families :
                 /\ flush[d].pc = "commit" /\ flush[d].n \in 1..Len(imm[d])
                 /\ flush[d].next_log = imm[d][flush[d].n].next_log
                 /\ \A e \in families \ {d} : m.flushed[e] = manifest.flushed[e]
                 /\ \A t : t \in m.flushed[d] <=>
                      t \in manifest.flushed[d]
                      \/ \E i \in 1..flush[d].n : t \in imm[d][i].data
      BY <2>2, ManifestCases
    <3>2. flush[c].pc = "commit" => d = c
      BY <1>1, <3>1 DEF ManifestInv, TypeOK
    <3>3. manifest.flushed[c] \subseteq m.flushed[c]
      BY <1>1, <3>1
    <3>4. flush[c].pc = "commit" =>
            \A i \in 1..flush[c].n : imm[c][i].data \subseteq m.flushed[c]
      BY <3>1, <3>2
    <3> QED
      BY <3>1, <3>2, <3>3, <3>4
  <2> QED
    BY <2>1, <2>2
<1>3. \/ s \in manifest.flushed[c] \/ s \in mem[c]
      \/ \E i \in 1..Len(imm[c]) : s \in imm[c][i].data
  BY DEF DataInv
<1>4. CASE s \in manifest.flushed[c]
  BY <1>2, <1>4
<1>5. CASE s \in mem[c]
  <2>1. PICK n \in DOMAIN wal :
          /\ s \in wal[n].recs /\ n >= log_number[c]
          /\ \A i \in 1..Len(imm[c]) : n >= imm[c][i].next_log
    BY <1>1, <1>5 DEF FamilyOK
  <2>2. m # manifest /\ flush[c].pc = "commit" => n >= flush[c].next_log
    BY <1>2, <2>1
  <2> QED
    BY <1>1, <2>1, <2>2, IsReplayed
<1>6. ASSUME NEW i \in 1..Len(imm[c]), s \in imm[c][i].data
      PROVE  \/ s \in m.flushed[c]
             \/ \E n \in ReplayedLogs(m, c) : n \in Kept /\ s \in wal[n].recs
  <2>1. PICK n \in DOMAIN wal :
          /\ s \in wal[n].recs /\ n >= log_number[c]
          /\ \A j \in 1..Len(imm[c]) : j < i => n >= imm[c][j].next_log
    BY <1>1, <1>6 DEF FamilyOK
  <2>2. CASE m # manifest /\ flush[c].pc = "commit" /\ i <= flush[c].n
    <3>1. i \in 1..flush[c].n
      BY <1>2, <2>2, SMTT(30)
    <3> QED
      BY <1>2, <1>6, <2>2, <3>1
  <2>3. CASE ~(m # manifest /\ flush[c].pc = "commit" /\ i <= flush[c].n)
    <3>1. m # manifest /\ flush[c].pc = "commit" => n >= flush[c].next_log
      <4> HAVE m # manifest /\ flush[c].pc = "commit"
      <4>1. flush[c].n \in 1..Len(imm[c]) /\ flush[c].n < i
        BY <1>2, <2>3, SMTT(30)
      <4> QED
        BY <1>2, <2>1, <4>1
    <3> QED
      BY <1>1, <2>1, <3>1, IsReplayed
  <2> QED
    BY <2>2, <2>3
<1> QED
  BY <1>3, <1>4, <1>5, <1>6

\* A durable record that was returned survives a power failure.
LEMMA DurableSurvives ==
  ASSUME LogsHaveOldest,
         WFInv, NEW m \in manifests, NEW s \in acked, NEW c \in batch[s], Durable(s)
  PROVE  s \in m.flushed[c] \/ SurvivesPowerLoss(m, c, s)
<1> USE DEF WFInv
<1> SUFFICES ASSUME s \notin m.flushed[c]
             PROVE  SurvivesPowerLoss(m, c, s)
  OBVIOUS
<1>1. PICK n \in ReplayedLogs(m, c) : n \in Kept /\ s \in wal[n].recs
  BY IsFound
<1>2. wal[n].dir /\ s \in wal[n].synced /\ \A k \in Kept : k < n => Full(k)
  BY <1>1 DEF Durable
<1>3. \A k \in DOMAIN wal : k >= MinWal(m) => k \in Kept
  <2>1. m \in Manifests
    BY ManifestCases
  <2>2. MinWal(m) \in Nat /\ m.min <= MinWal(m) /\ m.min \in Nat
    BY <2>1, MinWalFacts DEF Manifests
  <2>3. min_log_number_to_keep_ <= m.min /\ min_log_number_to_keep_ \in Nat
    <3>1. manifest.min = min_log_number_to_keep_ /\ min_log_number_to_keep_ \in Nat
      BY DEF ManifestInv, TypeOK
    <3>2. CASE m = manifest
      BY <3>1, <3>2, SMTT(30)
    <3>3. ASSUME NEW d \in families, m.min = UpTo(manifest.min, flush[d].min)
          PROVE  min_log_number_to_keep_ <= m.min
      <4>1. flush[d].min \in Nat
        BY DEF TypeOK, FlushStates
      <4> QED
        BY <3>1, <3>3, <4>1, UpToFacts, SMTT(30)
    <3> QED
      BY <3>1, <3>2, <3>3, ManifestCases
  <2>4. DOMAIN wal \subseteq Nat
    BY DEF TypeOK
  <2> QED
    BY <2>2, <2>3, <2>4, SMTT(30) DEF Kept
<1> QED
  BY <1>1, <1>2, <1>3 DEF SurvivesPowerLoss, Full

\* What MANIFEST holds, or is about to, was returned and is not in a log that
\* will be replayed; with several families it is durable.
LEMMA FlushedFacts ==
  ASSUME WFInv, NEW m \in manifests, NEW c \in families, NEW s \in m.flushed[c]
  PROVE  /\ s \in acked
         /\ \A n \in DOMAIN wal : s \in wal[n].recs => n < m.log[c]
         /\ Cardinality(families) > 1 => Durable(s)
<1> USE DEF WFInv
<1>0. /\ c \in CFs /\ m \in Manifests /\ m.log[c] \in Nat /\ manifest.log[c] \in Nat
      /\ DOMAIN wal \subseteq Nat
  <2>1. c \in CFs /\ m \in Manifests /\ manifest \in Manifests /\ DOMAIN wal \subseteq Nat
    BY ManifestCases DEF TypeOK
  <2> QED
    BY <2>1 DEF Manifests
<1>1. CASE s \in manifest.flushed[c]
  <2>1. s \in acked /\ \A n \in DOMAIN wal : s \in wal[n].recs => n < manifest.log[c]
    BY <1>1 DEF ReplayInv
  <2>2. manifest.log[c] <= m.log[c]
    BY <1>0, ManifestCases, SMTT(30)
  <2>3. Cardinality(families) > 1 => Durable(s)
    BY <1>1 DEF DurableInv
  <2> QED
    BY <1>0, <2>1, <2>2, <2>3, SMTT(30)
<1>2. CASE s \notin manifest.flushed[c]
  <2>1. m # manifest
    BY <1>2
  <2>2. PICK d \in families :
          /\ flush[d].pc = "commit" /\ flush[d].n \in 1..Len(imm[d])
          /\ flush[d].next_log = imm[d][flush[d].n].next_log
          /\ m.log[d] = flush[d].next_log
          /\ \A e \in families \ {d} : m.flushed[e] = manifest.flushed[e]
          /\ \A t : t \in m.flushed[d] <=>
               t \in manifest.flushed[d] \/ \E i \in 1..flush[d].n : t \in imm[d][i].data
    BY <2>1, ManifestCases
  <2>3. d = c
    BY <1>2, <2>2
  <2>4. PICK i \in 1..flush[c].n : s \in imm[c][i].data
    BY <1>2, <2>2, <2>3
  <2>5. Len(imm[c]) \in Nat /\ i \in 1..Len(imm[c]) /\ flush[c].n \in 1..Len(imm[c])
    BY <1>0, <2>2, <2>3, ListLength, SMTT(30) DEF TypeOK
  <2>6. \A j \in 1..Len(imm[c]) : imm[c][j].next_log \in Nat
    <3>1. \A j \in 1..Len(imm[c]) : imm[c][j] \in Memtables
      BY <1>0, ListMember DEF TypeOK
    <3> QED
      BY <3>1 DEF Memtables
  <2>7. imm[c][i].next_log <= imm[c][flush[c].n].next_log
    <3>1. CASE i = flush[c].n
      BY <2>5, <2>6, <3>1, SMTT(30)
    <3>2. CASE i < flush[c].n
      BY <2>5, <3>2 DEF DataInv, FamilyOK
    <3> QED
      BY <2>5, <3>1, <3>2, SMTT(30)
  <2>8. s \in acked /\ \A n \in DOMAIN wal : s \in wal[n].recs => n < imm[c][i].next_log
    BY <2>4, <2>5 DEF DataInv, FamilyOK
  <2>9. m.log[c] = imm[c][flush[c].n].next_log
    BY <2>2, <2>3
  <2>10. \A n \in DOMAIN wal : s \in wal[n].recs => n < m.log[c]
    BY <1>0, <2>5, <2>6, <2>7, <2>8, <2>9, SMTT(30)
  <2>11. Cardinality(families) > 1 => Durable(s)
    BY <2>2, <2>3, <2>4 DEF DurableInv
  <2> QED
    BY <2>8, <2>10, <2>11
<1> QED
  BY <1>1, <1>2

=============================================================================
