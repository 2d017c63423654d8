----------------------------- MODULE FlushList -----------------------------
(***************************************************************************)
(* The immutable memtables of one column family (MemTableList,             *)
(* db/memtable_list.cc), the flush jobs that turn them into SST files, the *)
(* queue that schedules those jobs (db/db_impl/db_impl_compaction_flush.cc) *)
(* and the recovery that follows a failed flush (DBImpl::ResumeImpl and    *)
(* db/error_handler.cc).                                                   *)
(*                                                                         *)
(* Every action is one holding of the DB mutex; a job's program counter    *)
(* says between which two holdings it is.  LogAndApply is two steps, its   *)
(* start and its outcome: module Manifest has its inside.                  *)
(*                                                                         *)
(* min_write_buffer_number_to_merge is 1, the default, for which           *)
(* flush_requested_ has no influence on IsFlushPending, and the DB has one *)
(* path (auto_recovery_ is on).  The errors are retryable I/O errors.      *)
(* Those of a table or of the MANIFEST FlushMemTableToOutputFile reports   *)
(* as kFlushNoWAL or kManifestWriteNoWAL: soft errors that stop background *)
(* work and leave writes running.  A failed sync of the closed WALs, and   *)
(* an error of the recovery's own MANIFEST write, are hard errors.         *)
(***************************************************************************)
EXTENDS Naturals, Sequences, FiniteSets, SequencesExt

CONSTANTS
  Threads,       \* threads of the flush pool (max_background_flushes)
  Environments   \* what the DB runs with: a set of [auto, kinds, max, mems]

ASSUME FlushListAssumption ==
  /\ IsFiniteSet(Threads) /\ Threads # {}
  /\ \A e \in Environments :
       /\ e.auto \in BOOLEAN /\ e.max \in Nat /\ e.mems \in Nat
       /\ e.kinds \subseteq {"wal", "sst", "sst_many", "manifest"}

VARIABLES
  env,                     \* the member of Environments, fixed by Init
  memlist_,                \* oldest first: [id, in_progress, completed, file]
  last_memtable_id_,
  num_flush_not_started_,
  commit_in_progress_,
  flush_queue_,            \* reasons of the queued requests of this family
  unscheduled_flushes_,
  bg_flush_scheduled_,     \* jobs scheduled or running
  job,                     \* what each pool thread does
  tables,                  \* SST files on disk
  flushed,                 \* what MANIFEST has: sequence of [mems, file]
  next_file_number_,
  io_status_,              \* VersionSet::io_status_ is OK
  files_to_quarantine_,
  bg_error_,               \* its severity: "ok", "soft" or "hard"
  soft_error_no_bg_work_,
  recovery_in_prog_,
  recovery_error_,
  recover_context_,        \* its flush_reason: "retry" (kErrorRecoveryRetryFlush)
                           \* or "all" (kErrorRecovery)
  rec,                     \* who recovers: [pc, reason, id, ok, del]
  faults,
  passed_over              \* history: tables that a roll-back passed over

flagVars == <<num_flush_not_started_, commit_in_progress_>>
listVars == <<memlist_, last_memtable_id_, flagVars>>
queueVars == <<flush_queue_, unscheduled_flushes_, bg_flush_scheduled_>>
diskVars == <<tables, flushed, next_file_number_>>
quarVars == <<io_status_, files_to_quarantine_>>
errVars == <<bg_error_, soft_error_no_bg_work_, recovery_in_prog_,
             recovery_error_, recover_context_>>
vars == <<env, listVars, queueVars, diskVars, quarVars, errVars, job, rec,
          faults, passed_over>>

\* max_bgerror_resume_count > 0, the default: errors start a recovery thread.
AutoResume == env.auto
\* May a write of this kind fail now?  "wal" is SyncClosedWals, "manifest" is
\* LogAndApply; see SSTFault for the kinds of table writes.
MayFail(kind) == kind \in env.kinds /\ faults < env.max

Idle == [pc |-> "idle", reason |-> "flush", max_memtable_id |-> 0, mems |-> <<>>,
         file |-> 0, ok |-> TRUE, pending |-> 0, batch |-> <<>>, del |-> {}]
NoRecovery ==
  [pc |-> "none", reason |-> "retry", id |-> 0, ok |-> TRUE, del |-> {}]

Init ==
  /\ env \in Environments
  /\ memlist_ = <<>> /\ last_memtable_id_ = 0 /\ num_flush_not_started_ = 0
  /\ commit_in_progress_ = FALSE
  /\ flush_queue_ = <<>> /\ unscheduled_flushes_ = 0
  /\ bg_flush_scheduled_ = 0
  /\ job = [t \in Threads |-> Idle]
  /\ tables = {} /\ flushed = <<>> /\ next_file_number_ = 1
  /\ io_status_ = TRUE /\ files_to_quarantine_ = {}
  /\ bg_error_ = "ok" /\ soft_error_no_bg_work_ = FALSE
  /\ recovery_in_prog_ = FALSE /\ recovery_error_ = FALSE
  /\ recover_context_ = "all" /\ rec = NoRecovery
  /\ faults = 0 /\ passed_over = {}

----------------------------------------------------------------------------
(* Scheduling.                                                             *)

IsFlushPending == num_flush_not_started_ > 0
IsBGWorkStopped ==
  bg_error_ = "hard" \/ (bg_error_ = "soft" /\ soft_error_no_bg_work_)
IsRecovery(reason) == reason = "recovery"

\* EnqueuePendingFlush(reason) and then MaybeScheduleFlushOrCompaction, after
\* b jobs are left running: a family that is queued already is not queued
\* again.  Reads the primed list and error state.
Enqueues == flush_queue_ = <<>> /\ IsFlushPending'
\* Variant: requests that find no free thread are forgotten.
MaybeScheduleOnce(u, b) ==
  /\ unscheduled_flushes_' = 0
  /\ bg_flush_scheduled_' = IF b + u > Cardinality(Threads) THEN b ELSE b + u

MaybeSchedule(u, b) ==
  LET room == Cardinality(Threads) - b
      n == IF IsBGWorkStopped' /\ ~recovery_in_prog_' THEN 0
           ELSE IF u < room THEN u ELSE room
  IN  /\ unscheduled_flushes_' = u - n
      /\ bg_flush_scheduled_' = b + n
EnqueuePendingFlush(reason) ==
  /\ flush_queue_' = IF Enqueues THEN <<reason>> ELSE flush_queue_
  /\ MaybeSchedule(unscheduled_flushes_ + (IF Enqueues THEN 1 ELSE 0),
                   bg_flush_scheduled_)

\* MemTableList::Add of the memtable that was switched.
Add ==
  /\ last_memtable_id_' = last_memtable_id_ + 1
  /\ memlist_' = Append(memlist_, [id |-> last_memtable_id_', file |-> 0,
                                   in_progress |-> FALSE, completed |-> FALSE])
  /\ num_flush_not_started_' = num_flush_not_started_ + 1
  /\ UNCHANGED commit_in_progress_

\* A write fills the memtable (ScheduleFlushes) or DB::Flush switches it
\* (FlushMemTable), and a flush is requested.  Bound: env.mems.
SwitchMemtable ==
  /\ last_memtable_id_ < env.mems
  /\ Add
  /\ UNCHANGED errVars
  /\ EnqueuePendingFlush("flush")
  /\ UNCHANGED <<diskVars, quarVars, job, rec, faults, passed_over>>

----------------------------------------------------------------------------
(* A flush job.                                                            *)

Running == {t \in Threads : job[t].pc # "idle"}
Joining == {t \in Threads : job[t].pc = "join"}
End(t, ok) == job' = [job EXCEPT ![t].pc = "end", ![t].ok = ok]

\* BackgroundCallFlush up to FlushMemTableToOutputFile: one request is popped,
\* unless background work is stopped and nobody recovers: then the job ends
\* and leaves the request in the queue.  The newest memtable is recorded, for
\* memtables are switched while SyncClosedWals has released the mutex.
BackgroundFlush(t) ==
  /\ job[t].pc = "idle" /\ Cardinality(Running) < bg_flush_scheduled_
  /\ LET Begin(pc, ok, reason) ==
           job' = [job EXCEPT ![t] = [Idle EXCEPT !.pc = pc, !.ok = ok,
                     !.reason = reason, !.max_memtable_id = last_memtable_id_,
                     !.pending = next_file_number_]]
     IN  IF \/ IsBGWorkStopped /\ ~recovery_in_prog_
            \/ flush_queue_ = <<>>
         THEN /\ Begin("end", ~IsBGWorkStopped \/ recovery_in_prog_, "flush")
              /\ UNCHANGED flush_queue_
         ELSE /\ flush_queue_' = Tail(flush_queue_)
              /\ IF IsBGWorkStopped /\ ~IsRecovery(Head(flush_queue_))
                 THEN Begin("end", FALSE, "flush")
                 ELSE Begin(IF IsFlushPending THEN "pick" ELSE "end", TRUE,
                            Head(flush_queue_))
  /\ UNCHANGED <<listVars, unscheduled_flushes_, bg_flush_scheduled_, diskVars,
                 quarVars, errVars, rec, faults, passed_over>>

\* PickMemtablesToFlush: the oldest run of memtables no job works on, up to
\* max_memtable_id.
Picked(max_memtable_id) ==
  LET free == {i \in 1..Len(memlist_) :
                 ~memlist_[i].in_progress /\ memlist_[i].id <= max_memtable_id}
      first == CHOOSE i \in free : \A k \in free : i <= k
  IN  {i \in free : \A k \in first..i : k \in free}

\* FlushMemTableToOutputFile after SyncClosedWals, which releases the mutex.
PickMemTable(t) ==
  /\ job[t].pc = "pick"
  /\ IF IsBGWorkStopped /\ ~IsRecovery(job[t].reason)
     THEN End(t, FALSE) /\ UNCHANGED <<listVars, next_file_number_>>
     ELSE LET picked == Picked(job[t].max_memtable_id) IN
          IF picked = {}
     THEN End(t, TRUE) /\ UNCHANGED <<listVars, next_file_number_>>
     ELSE /\ memlist_' = [i \in DOMAIN memlist_ |->
               [memlist_[i] EXCEPT !.in_progress = @ \/ i \in picked]]
          /\ num_flush_not_started_' =
               num_flush_not_started_ - Cardinality(picked)
          /\ job' = [job EXCEPT ![t].pc = "write",
               ![t].mems = [i \in 1..Cardinality(picked) |->
                 memlist_[i - 1 + CHOOSE k \in picked :
                                    \A m \in picked : k <= m].id],
               ![t].file = next_file_number_]
          /\ next_file_number_' = next_file_number_ + 1
          /\ UNCHANGED <<last_memtable_id_, commit_in_progress_>>
  /\ UNCHANGED <<queueVars, tables, flushed, quarVars, errVars, rec, faults,
                 passed_over>>

\* Variant: the memtable stays marked as being flushed.
ResetFileOnly(m) == [m EXCEPT !.completed = FALSE, !.file = 0]

\* The flags of a memtable that must be flushed again.
Reset(m) == [m EXCEPT !.in_progress = FALSE, !.completed = FALSE, !.file = 0]


\* RollbackMemtableFlush(mems, rollback_succeeding_memtables = true): from
\* mems[0] on, the completed memtables that follow it directly, and mems.
Succeeding(mems) ==
  LET at == CHOOSE i \in DOMAIN memlist_ : memlist_[i].id = mems[1]
  IN  {i \in at + 1..Len(memlist_) : \A k \in at + 1..i : memlist_[k].completed}
Completed(id) == {m \in Range(memlist_) : m.completed /\ m.id > id}
RollbackMemtableFlush(mems) ==
  LET back == Succeeding(mems) \union
              {i \in DOMAIN memlist_ : memlist_[i].id \in Range(mems)
                                       /\ memlist_[i].in_progress}
  IN  /\ memlist_' = [i \in DOMAIN memlist_ |->
                       IF i \in back THEN Reset(memlist_[i]) ELSE memlist_[i]]
      /\ num_flush_not_started_' = num_flush_not_started_ + Cardinality(back)
      /\ passed_over' = passed_over \union
           IF Len(mems) > 1 THEN {m.file : m \in Completed(Last(mems))} ELSE {}

\* SetBGError with a retryable error: the severest is kept, a soft one stops
\* background work, one during a recovery is its recovery_error_, and the last
\* one says how to recover.
SetBGError(severity) ==
  /\ bg_error_' = IF bg_error_ = "hard" THEN "hard" ELSE severity
  /\ recover_context_' = IF severity = "soft" THEN "retry" ELSE "all"
  /\ soft_error_no_bg_work_' = (soft_error_no_bg_work_ \/ severity = "soft")
  /\ recovery_error_' = (recovery_error_ \/ recovery_in_prog_)
  /\ recovery_in_prog_' = (recovery_in_prog_ \/ AutoResume)

\* StartRecoverFromRetryableBGIOError, at the end of a job's SetBGError: it
\* joins the last recovery thread, without the mutex, and makes a new one.
FailJob(t, severity) ==
  /\ SetBGError(severity)
  /\ job' = [job EXCEPT ![t].ok = FALSE,
               ![t].pc = IF AutoResume /\ ~recovery_in_prog_ /\ rec.pc # "none"
                         THEN "join" ELSE "end"]
JoinRecoveryThread(t) ==
  /\ t \in Joining /\ rec.pc = "none"
  /\ End(t, FALSE)
  /\ UNCHANGED <<listVars, queueVars, diskVars, quarVars, errVars, rec, faults,
                 passed_over>>

\* SyncClosedWals, or ApplyWALToManifest after it, fails: no memtable is picked.
SyncClosedWalsFails(t) ==
  /\ job[t].pc = "pick" /\ MayFail("wal")
  /\ faults' = faults + 1
  /\ FailJob(t, "hard")
  /\ UNCHANGED <<listVars, queueVars, diskVars, quarVars, rec, passed_over>>

\* The table file cannot be written.  "sst" is the failure of a job that
\* picked one memtable, "sst_many" of one that picked several.
SSTFault(t) == IF Len(job[t].mems) = 1 THEN "sst" ELSE "sst_many"
WriteFails(t) ==
  /\ job[t].pc = "write" /\ MayFail(SSTFault(t))
  /\ faults' = faults + 1
  /\ RollbackMemtableFlush(job[t].mems)
  /\ FailJob(t, "soft")
  /\ UNCHANGED <<last_memtable_id_, commit_in_progress_, queueVars, diskVars,
                 quarVars, rec>>

\* Variant: completed memtables are committed before older ones.
BatchAny(ms) == SelectSeq(ms, LAMBDA m : m.completed)

\* The head of the loop of TryInstallMemtableFlushResults on the list ms: the
\* completed memtables at its old end are the next batch.
Batch(ms) ==
  LET n == CHOOSE k \in 0..Len(ms) :
             /\ \A i \in 1..k : ms[i].completed
             /\ k < Len(ms) => ~ms[k + 1].completed
  IN  SubSeq(ms, 1, n)
CommitOrEnd(t, ms) ==
  /\ commit_in_progress_' = (Batch(ms) # <<>>)
  /\ job' = [job EXCEPT ![t].pc = IF Batch(ms) = <<>> THEN "end" ELSE "commit",
                        ![t].ok = TRUE, ![t].batch = Batch(ms)]

\* An older memtable was rolled back, and DB::Resume lets younger jobs go on.
RolledBackBefore(id) ==
  ~AutoResume /\ \E m \in Range(memlist_) : m.id < id /\ ~m.in_progress

\* The table is written: FlushJob::Run takes the mutex back and installs, or
\* rolls back when an error stopped background work meanwhile.
WriteLevel0Table(t) ==
  /\ job[t].pc = "write"
  /\ tables' = tables \union {job[t].file}
  /\ IF IsBGWorkStopped /\ ~IsRecovery(job[t].reason)
     THEN /\ RollbackMemtableFlush(job[t].mems)
          /\ End(t, FALSE)
          /\ UNCHANGED commit_in_progress_
     ELSE /\ memlist_' = [i \in DOMAIN memlist_ |->
               IF memlist_[i].id \in Range(job[t].mems)
               THEN [memlist_[i] EXCEPT !.completed = TRUE,
                                        !.file = job[t].file]
               ELSE memlist_[i]]
          /\ passed_over' = passed_over \union
               IF RolledBackBefore(job[t].mems[1]) THEN {job[t].file} ELSE {}
          /\ UNCHANGED num_flush_not_started_
          /\ IF commit_in_progress_
             THEN End(t, TRUE) /\ UNCHANGED commit_in_progress_
             ELSE CommitOrEnd(t, memlist_')
  /\ UNCHANGED <<last_memtable_id_, queueVars, flushed, next_file_number_,
                 quarVars, errVars, rec, faults>>

\* The files of a batch, oldest first, with the memtables each holds.
Entries(batch) ==
  FoldLeft(LAMBDA es, m :
             IF es # <<>> /\ Last(es).file = m.file
             THEN [es EXCEPT ![Len(es)].mems = Append(@, m.id)]
             ELSE Append(es, [mems |-> <<m.id>>, file |-> m.file]),
           <<>>, batch)

\* LogAndApply succeeded: RemoveMemTablesOrRestoreFlags drops the batch, and
\* the loop looks for what completed while the mutex was released.
CommitSucceeds(t) ==
  /\ job[t].pc = "commit"
  /\ flushed' = flushed \o Entries(job[t].batch)
  /\ memlist_' = SubSeq(memlist_, Len(job[t].batch) + 1, Len(memlist_))
  /\ io_status_' = TRUE /\ files_to_quarantine_' = {}
  /\ CommitOrEnd(t, memlist_')
  /\ UNCHANGED <<last_memtable_id_, num_flush_not_started_, queueVars, tables,
                 next_file_number_, errVars, rec, faults, passed_over>>

\* It failed: the flags of the batch, counted from the old end, are restored,
\* its files are quarantined and the job reports the error.  Memtables that
\* completed since keep their flags.
CommitFails(t) ==
  /\ job[t].pc = "commit" /\ MayFail("manifest")
  /\ faults' = faults + 1
  /\ memlist_' = [i \in DOMAIN memlist_ |->
                    IF i <= Len(job[t].batch) THEN Reset(memlist_[i])
                    ELSE memlist_[i]]
  /\ num_flush_not_started_' = num_flush_not_started_ + Len(job[t].batch)
  /\ passed_over' = passed_over \union
       {m.file : m \in Completed(Last(job[t].batch).id)}
  /\ commit_in_progress_' = FALSE
  /\ io_status_' = FALSE
  /\ files_to_quarantine_' =
       IF io_status_
       THEN files_to_quarantine_ \union
              {m.file : m \in Range(job[t].batch)}
       ELSE files_to_quarantine_
  /\ FailJob(t, "soft")
  /\ UNCHANGED <<last_memtable_id_, queueVars, diskVars, rec>>

\* FindObsoleteFiles with a full scan, once the pending outputs of the jobs
\* done are released: the tables that no version, job or quarantine holds.
FindObsoleteFiles(done) ==
  LET pending == {job[t].pending : t \in {v \in Running \ done :
                                            job[v].pc # "purge"}}
  IN  {f \in tables : /\ \A i \in DOMAIN flushed : flushed[i].file # f
                      /\ \A p \in pending : f < p
                      /\ f \notin files_to_quarantine_}

\* The end of BackgroundCallFlush: a failed job looks for the files it left.
\* Then, without the mutex, it deletes them, and is gone.
EndFlush(t) ==
  /\ job[t].pc = "end"
  /\ job' = [job EXCEPT ![t] = [Idle EXCEPT !.pc = "purge",
               !.del = IF job[t].ok THEN {} ELSE FindObsoleteFiles({t})]]
  /\ UNCHANGED <<listVars, queueVars, diskVars, quarVars, errVars, rec, faults,
                 passed_over>>

PurgeObsoleteFiles(t) ==
  /\ job[t].pc = "purge"
  /\ tables' = tables \ job[t].del
  /\ job' = [job EXCEPT ![t] = Idle]
  /\ UNCHANGED <<listVars, errVars, flush_queue_>>
  /\ MaybeSchedule(unscheduled_flushes_, bg_flush_scheduled_ - 1)
  /\ UNCHANGED <<flushed, next_file_number_, quarVars, rec, faults, passed_over>>

----------------------------------------------------------------------------
(* Recovery: the recovery thread of RecoverFromRetryableBGIOError, or a     *)
(* caller of DB::Resume, in DBImpl::ResumeImpl.                             *)

\* The recovery thread takes the context of the last error when it starts and
\* keeps it when it tries again.  A manual recovery chooses its own, and lets
\* background work run while it lasts.
StartRecovery ==
  /\ rec.pc \in {"none", "retry"} /\ bg_error_ # "ok"
  /\ recovery_in_prog_ = AutoResume
  /\ AutoResume \/ bg_error_ = "hard" \/ soft_error_no_bg_work_
  /\ rec.pc = "none" => Joining = {}
  /\ LET reason == IF rec.pc = "retry" THEN rec.reason
                   ELSE IF AutoResume THEN recover_context_
                   ELSE IF soft_error_no_bg_work_ THEN "retry" ELSE "all"
     IN  /\ rec' = [NoRecovery EXCEPT !.pc = "wait", !.reason = reason]
         /\ recover_context_' = IF AutoResume THEN recover_context_ ELSE reason
  /\ recovery_in_prog_' = TRUE
  /\ soft_error_no_bg_work_' = (soft_error_no_bg_work_ /\ AutoResume)
  /\ recovery_error_' = FALSE
  /\ UNCHANGED <<bg_error_, listVars, queueVars, diskVars, quarVars, job, faults,
                 passed_over>>

\* RecoverFromBGError of a soft error that did not stop background work.
ClearSoftError ==
  /\ rec.pc = "none" /\ bg_error_ = "soft" /\ ~recovery_in_prog_
  /\ ~soft_error_no_bg_work_
  /\ bg_error_' = "ok"
  /\ recover_context_' = "all" /\ recovery_error_' = FALSE
  /\ UNCHANGED <<soft_error_no_bg_work_, recovery_in_prog_, listVars, queueVars,
                 diskVars, quarVars, job, rec, faults, passed_over>>

\* RetryFlushesForErrorRecovery(wait): a request of its own reason, then wait
\* for the memtables there are now.  FlushAllColumnFamilies releases the mutex
\* first.
RequestFlushes ==
  IF rec.reason = "all"
  THEN /\ rec' = [rec EXCEPT !.pc = "all"]
       /\ UNCHANGED queueVars
  ELSE IF memlist_ = <<>>
  THEN /\ rec' = [rec EXCEPT !.pc = "flush", !.id = 0]
       /\ UNCHANGED queueVars
  ELSE /\ rec' = [rec EXCEPT !.pc = "flush", !.id = Last(memlist_).id]
       /\ EnqueuePendingFlush("recovery")

\* FlushMemTable for kErrorRecovery: the memtable is switched in any case.
FlushAllColumnFamilies ==
  /\ rec.pc = "all"
  /\ Add
  /\ UNCHANGED errVars
  /\ EnqueuePendingFlush("recovery")
  /\ rec' = [rec EXCEPT !.pc = "flush", !.id = last_memtable_id_']
  /\ UNCHANGED <<diskVars, quarVars, job, faults, passed_over>>

\* WaitForBackgroundWork is over.  After a MANIFEST error a dummy edit must
\* first be written to a new MANIFEST.
ResumeImpl ==
  /\ rec.pc = "wait" /\ bg_flush_scheduled_ = 0
  /\ UNCHANGED <<listVars, errVars>>
  /\ IF io_status_ THEN RequestFlushes
     ELSE rec' = [rec EXCEPT !.pc = "manifest"] /\ UNCHANGED queueVars
  /\ UNCHANGED <<diskVars, quarVars, job, faults, passed_over>>

ResumeManifest ==
  /\ rec.pc = "manifest"
  /\ io_status_' = TRUE /\ files_to_quarantine_' = {}
  /\ UNCHANGED <<listVars, errVars>>
  /\ RequestFlushes
  /\ UNCHANGED <<diskVars, job, faults, passed_over>>

ResumeManifestFails ==
  /\ rec.pc = "manifest" /\ MayFail("manifest")
  /\ faults' = faults + 1
  /\ SetBGError("hard")
  /\ rec' = [rec EXCEPT !.pc = "flush", !.id = 0]
  /\ UNCHANGED <<listVars, queueVars, diskVars, quarVars, job, passed_over>>

\* WaitForFlushMemTables(resuming_from_bg_err) is over: the memtables are
\* flushed, or an error happened.  Then ClearBGError and FindObsoleteFiles.
ResumeFlushed ==
  /\ rec.pc = "flush"
  /\ recovery_error_ \/ \A i \in DOMAIN memlist_ : memlist_[i].id > rec.id
  /\ bg_error_' = IF recovery_error_ THEN bg_error_ ELSE "ok"
  /\ soft_error_no_bg_work_' = (soft_error_no_bg_work_ /\ recovery_error_)
  /\ recovery_in_prog_' = recovery_error_
  /\ rec' = [rec EXCEPT !.pc = "purge", !.ok = ~recovery_error_,
                        !.del = FindObsoleteFiles({})]
  /\ UNCHANGED <<recovery_error_, recover_context_, listVars, queueVars, diskVars,
                 quarVars, job, faults, passed_over>>

\* The files are deleted, the mutex is taken again, and a success is followed
\* by another round of flushes in automatic recovery.  The recovery thread
\* tries again after an error, even one that came after its ClearBGError; a
\* manual recovery returns.
ResumeEnds ==
  /\ rec.pc = "purge"
  /\ tables' = tables \ rec.del
  /\ rec' = IF AutoResume /\ recovery_error_
            THEN [NoRecovery EXCEPT !.pc = "retry", !.reason = rec.reason]
            ELSE NoRecovery
  /\ recovery_in_prog_' = (recovery_in_prog_ /\ AutoResume)
  /\ soft_error_no_bg_work_' =
       IF AutoResume THEN soft_error_no_bg_work_
       ELSE ~rec.ok /\ rec.reason = "retry"
  /\ UNCHANGED <<bg_error_, recovery_error_, recover_context_, listVars>>
  /\ IF ~rec.ok \/ (IsBGWorkStopped /\ ~recovery_in_prog_)
     THEN UNCHANGED queueVars
     ELSE IF AutoResume /\ memlist_ # <<>> THEN EnqueuePendingFlush("flush")
     ELSE /\ UNCHANGED flush_queue_
          /\ MaybeSchedule(unscheduled_flushes_, bg_flush_scheduled_)
  /\ UNCHANGED <<flushed, next_file_number_, quarVars, job, faults, passed_over>>

----------------------------------------------------------------------------

JobStep(t) ==
  /\ UNCHANGED env
  /\ \/ BackgroundFlush(t) \/ PickMemTable(t) \/ WriteLevel0Table(t)
     \/ CommitSucceeds(t) \/ JoinRecoveryThread(t)
     \/ EndFlush(t) \/ PurgeObsoleteFiles(t)
ResumeStep ==
  /\ UNCHANGED env
  /\ \/ ResumeImpl \/ ResumeManifest \/ FlushAllColumnFamilies
     \/ ResumeFlushed \/ ResumeEnds
AutoRecovery == AutoResume /\ StartRecovery /\ UNCHANGED env
Fault ==
  /\ UNCHANGED env
  /\ \/ ResumeManifestFails
     \/ \E t \in Threads :
          SyncClosedWalsFails(t) \/ WriteFails(t) \/ CommitFails(t)
UserStep ==
  /\ UNCHANGED env
  /\ SwitchMemtable \/ ClearSoftError \/ (~AutoResume /\ StartRecovery)

Next ==
  UserStep \/ AutoRecovery \/ ResumeStep \/ Fault \/ \E t \in Threads : JobStep(t)

\* Pool threads run the jobs scheduled on them, and the recovery thread goes
\* on; a started DB::Resume goes on too, but nobody has to call it.  Faults
\* and new memtables need not happen.
Fairness ==
  /\ \A t \in Threads : WF_vars(JobStep(t))
  /\ WF_vars(ResumeStep)
  /\ WF_vars(AutoRecovery)

Spec == Init /\ [][Next]_vars /\ Fairness

----------------------------------------------------------------------------
(* Properties.                                                             *)

\* Memtables are committed to MANIFEST in the order they were created and none
\* is lost or committed twice, whatever failed and was rolled back ("The
\* memtables' flushes must be recorded in manifest in order").
FlushedInOrder ==
  FoldLeft(LAMBDA s, f : s \o f.mems, <<>>, flushed)
    \o [i \in DOMAIN memlist_ |-> memlist_[i].id]
  = [i \in 1..last_memtable_id_ |-> i]

Writing == {t \in Threads : job[t].pc = "write"}

\* A memtable marked as being flushed is in the hands of exactly one job that
\* is writing it, so none is stuck in progress, and the counter that decides
\* IsFlushPending agrees with the marks (the asserts of PickMemtablesToFlush
\* and RollbackMemtableFlush).
JobsOwnTheirMemtables ==
  /\ \A i \in DOMAIN memlist_ :
       LET m == memlist_[i]
           owners == {t \in Writing : m.id \in Range(job[t].mems)}
       IN  /\ Cardinality(owners) =
                 (IF m.in_progress /\ ~m.completed THEN 1 ELSE 0)
           /\ m.completed => m.in_progress
           /\ m.completed <=> m.file # 0
  /\ num_flush_not_started_ =
       Cardinality({i \in DOMAIN memlist_ : ~memlist_[i].in_progress})

\* The tables of committed memtables, and of completed ones that wait for a
\* commit.
Needed == {flushed[i].file : i \in DOMAIN flushed} \union
          {m.file : m \in {k \in Range(memlist_) : k.completed}}
Kept(files) ==
  /\ files \subseteq tables
  /\ \A t \in Threads : files \intersect job[t].del = {}
  /\ files \intersect rec.del = {}

\* The table of every committed memtable, and of every completed one that
\* waits for a commit, is on disk and not about to be deleted by the clean-up
\* of a failed job: "Rollback all memtables that are ready to be committed"
\* exists because the failed job deletes files nobody refers to.
OutputsAreKept == Kept(Needed)


\* A job waits for the recovery thread to return, and that thread, which saw
\* the error of another job before it could return, waits for all jobs.
JoinDeadlock == Joining # {} /\ rec.pc = "wait"

\* With automatic recovery and failing table writes every memtable is flushed
\* in the end: no request is dropped for good, and every error is cleared.
\* Unless a completed memtable was passed over (the recovery asks for one flush,
\* which takes the memtables before it and leaves those behind it waiting), or
\* JoinDeadlock is reached.
AllFlushed ==
  (AutoResume /\ env.kinds \subseteq {"sst", "sst_many"}) ~>
    \/ [](memlist_ = <<>> /\ bg_error_ = "ok")
    \/ passed_over # {} \/ JoinDeadlock
=============================================================================
