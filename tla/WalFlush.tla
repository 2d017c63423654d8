------------------------------ MODULE WalFlush ------------------------------
(***************************************************************************)
(* The write-ahead log against the flushes of several column families:     *)
(* which log files are synced, which may be dropped, and what a crash      *)
(* leaves.  Code: PreprocessWrite, WriteToWAL and SwitchMemtable in        *)
(* db/db_impl/db_impl_write.cc, SyncWalImpl and MarkLogsSynced in          *)
(* db/db_impl/db_impl.cc, FlushMemTableToOutputFile and FlushJob, the WAL  *)
(* part of FindObsoleteFiles, PrecomputeMinLogNumberToKeepNon2PC and the   *)
(* rules by which RecoverLogFiles picks and replays logs.                  *)
(*                                                                         *)
(* One thread at a time is at the front of the write queue (module         *)
(* WriteThread), so there is one writer.  Beside it run a caller of        *)
(* DB::SyncWAL and one flush job per column family (module FlushList has   *)
(* several jobs of one family).  There is no crash action: the properties  *)
(* say what recovery would find if the machine stopped in any state.  A    *)
(* record is a sequence number; `batch' says which families it writes to.  *)
(* No I/O fails here (modules FlushList and Manifest have failures).       *)
(*                                                                         *)
(* Records are appended to a log, and logs to the deques logs_ and         *)
(* alive_log_files_, in ascending order: sets say as much as sequences.    *)
(***************************************************************************)
EXTENDS Naturals, Sequences, FiniteSets

CONSTANTS
  CFs,          \* column families a DB may have
  User,         \* the caller of DB::SyncWAL
  MaxWrites,    \* bound: write batches
  MaxWals,      \* bound: log files ever created
  MaxSyncs      \* bound: writes with sync and calls of DB::SyncWAL

ASSUME WalFlushAssumption ==
  /\ IsFiniteSet(CFs) /\ CFs # {} /\ User \notin CFs
  /\ MaxWrites \in Nat /\ MaxWals \in Nat \ {0} /\ MaxSyncs \in Nat

VARIABLES
  families,                 \* the column families of this DB
  wal,                      \* log files: [recs, synced, dir]
  logs_,                    \* open logs: number -> is it being synced?
  alive_log_files_,
  logfile_number_,          \* the active log
  log_empty_,
  log_dir_synced_,
  next_file_number_,
  mem, imm,                 \* per family: active data, immutable memtables
  log_number,               \* per family, ColumnFamilyData::log_number_
  min_log_number_to_keep_,
  manifest,                 \* what MANIFEST holds
  next_manifest,            \* what it holds once the edit in progress is written
  batch,                    \* batch[s]: the families record s writes to
  acked,                    \* records whose write has returned
  synced,                   \* records a sync has promised to keep
  writer,                   \* the thread at the front of the write queue
  sync,                     \* SyncWalImpl as run by User and by flush jobs
  flush,                    \* flush job per family
  syncs                     \* writes with sync and calls of DB::SyncWAL so far

walVars == <<wal, logs_, alive_log_files_, logfile_number_, log_empty_, log_dir_synced_>>
manifestVars == <<manifest, next_manifest>>
cfVars == <<mem, imm, log_number, min_log_number_to_keep_, manifestVars>>
ackVars == <<batch, acked, synced>>
vars == <<families, walVars, cfVars, ackVars, next_file_number_, writer, sync, flush,
          syncs>>

NewWal == [recs |-> {}, synced |-> {}, dir |-> FALSE]
IdleWriter == [pc |-> "idle", todo |-> {}, dir |-> FALSE, cf |-> User,
               number |-> 0]
IdleSync == [pc |-> "idle", todo |-> {}, done |-> {}, dir |-> FALSE,
             active |-> 0, up_to |-> 0, pre |-> {}, promise |-> 0]
IdleFlush == [pc |-> "idle", n |-> 0, next_log |-> 0, min |-> 0, del |-> {}]

Init ==
  /\ families \in (SUBSET CFs) \ {{}}
  /\ wal = [n \in {1} |-> NewWal] /\ logs_ = [n \in {1} |-> FALSE]
  /\ alive_log_files_ = {1} /\ logfile_number_ = 1
  /\ log_empty_ = TRUE /\ log_dir_synced_ = FALSE
  /\ next_file_number_ = 2
  /\ mem = [c \in CFs |-> {}] /\ imm = [c \in CFs |-> <<>>]
  /\ log_number = [c \in CFs |-> 1] /\ min_log_number_to_keep_ = 1
  /\ manifest = [flushed |-> [c \in CFs |-> {}], log |-> log_number, min |-> 1]
  /\ next_manifest = manifest
  /\ batch = <<>> /\ acked = {} /\ synced = {}
  /\ writer = IdleWriter
  /\ sync = [a \in CFs \union {User} |-> IdleSync]
  /\ flush = [c \in CFs |-> IdleFlush]
  /\ syncs = 0

\* Logs are numbered in the order they are created.
Oldest(ns) == CHOOSE n \in ns : \A k \in ns : n <= k

\* logs_.front().
Front == Oldest(DOMAIN logs_)

----------------------------------------------------------------------------
(* Writing and syncing.                                                    *)

\* LogWriterNumber::PrepareForSync on the logs up to a number.
PrepareForSync(up_to) ==
  [n \in DOMAIN logs_ |-> logs_[n] \/ n <= up_to]

\* MarkLogsSynced(up_to): the logs that have been closed, all inactive, leave
\* logs_; the others may be synced again.
MarkLogsSynced(up_to, closed) ==
  logs_' = [n \in DOMAIN logs_ \ closed |-> logs_[n] /\ n > up_to]

\* fsync of the records of a log, and of the directory that holds the logs.
Fsync(n, recs) == [wal EXCEPT ![n].synced = @ \union recs]
FsyncDir(w) == [n \in DOMAIN w |-> [w[n] EXCEPT !.dir = TRUE]]

\* WriteImpl without sync: the record goes to the log and the memtables.
Append_(s, cfs) ==
  /\ batch' = Append(batch, cfs)
  /\ wal' = [wal EXCEPT ![logfile_number_].recs = @ \union {s}]
  /\ log_empty_' = FALSE
Insert(s) ==
  /\ mem' = [c \in CFs |-> IF c \in batch'[s] THEN mem[c] \union {s} ELSE mem[c]]
  /\ acked' = acked \union {s}
Write(cfs) ==
  /\ writer.pc = "idle" /\ Len(batch) < MaxWrites
  /\ Append_(Len(batch) + 1, cfs)
  /\ Insert(Len(batch) + 1)
  /\ UNCHANGED <<logs_, alive_log_files_, logfile_number_, log_dir_synced_, imm,
                 log_number, min_log_number_to_keep_, manifestVars, synced,
                 next_file_number_, writer, sync, flush, syncs>>

\* With sync: PreprocessWrite waits until the first log is not being synced
\* and claims all logs; WriteToWAL appends the record.
WriteBegin(cfs) ==
  /\ writer.pc = "idle" /\ Len(batch) < MaxWrites /\ syncs < MaxSyncs
  /\ syncs' = syncs + 1
  /\ ~logs_[Front]
  /\ logs_' = PrepareForSync(logfile_number_)
  /\ Append_(Len(batch) + 1, cfs)
  /\ writer' = [IdleWriter EXCEPT !.pc = "sync", !.todo = DOMAIN logs_,
                                  !.dir = ~log_dir_synced_]
  /\ UNCHANGED <<alive_log_files_, logfile_number_, log_dir_synced_, cfVars, acked,
                 synced, next_file_number_, sync, flush>>

\* WriteToWAL syncs every log in order, without a mutex.
WriteSync ==
  /\ writer.pc = "sync" /\ writer.todo # {}
  /\ LET n == Oldest(writer.todo)
     IN  /\ wal' = Fsync(n, wal[n].recs)
         /\ writer' = [writer EXCEPT !.todo = @ \ {n}]
  /\ UNCHANGED <<logs_, alive_log_files_, logfile_number_, log_empty_, log_dir_synced_,
                 cfVars, ackVars, next_file_number_, sync, flush, syncs>>

\* The directory is synced if needed, the logs are released, and the write
\* goes to the memtables and returns.
WriteEnd ==
  /\ writer.pc = "sync" /\ writer.todo = {}
  /\ wal' = IF writer.dir THEN FsyncDir(wal) ELSE wal
  /\ log_dir_synced_' = (log_dir_synced_ \/ writer.dir)
  /\ MarkLogsSynced(logfile_number_, {})
  /\ UNCHANGED batch
  /\ Insert(Len(batch))
  /\ synced' = synced \union {Len(batch)}
  /\ writer' = IdleWriter
  /\ UNCHANGED <<alive_log_files_, logfile_number_, log_empty_, imm, log_number,
                 min_log_number_to_keep_, manifestVars, next_file_number_, sync,
                 flush, syncs>>

\* Variant: nobody waits for another sync.
SyncBeginAtOnce(a, up_to) ==
  /\ logs_' = PrepareForSync(up_to)
  /\ sync' = [sync EXCEPT ![a] =
       [pc |-> "sync", up_to |-> up_to, active |-> logfile_number_, done |-> {},
        todo |-> {n \in DOMAIN logs_ : n <= up_to},
        dir |-> ~log_dir_synced_, pre |-> wal[logfile_number_].recs,
        promise |-> Len(batch)]]

\* SyncWalImpl: claim the logs up to up_to, when the first is free.
SyncBegin(a, up_to) ==
  /\ ~(Front <= up_to /\ logs_[Front])
  /\ logs_' = PrepareForSync(up_to)
  /\ sync' = [sync EXCEPT ![a] =
       [pc |-> "sync", up_to |-> up_to, active |-> logfile_number_, done |-> {},
        todo |-> {n \in DOMAIN logs_ : n <= up_to},
        dir |-> ~log_dir_synced_, pre |-> wal[logfile_number_].recs,
        promise |-> Len(batch)]]

\* Each log in turn: the active one as far as it had been written when it was
\* claimed, an inactive one entirely, and it is closed.
SyncOne(a) ==
  /\ sync[a].pc = "sync" /\ sync[a].todo # {}
  /\ LET n == Oldest(sync[a].todo)
         inactive == n < sync[a].active
     IN  /\ wal' = Fsync(n, IF inactive THEN wal[n].recs ELSE sync[a].pre)
         /\ sync' = [sync EXCEPT ![a].todo = @ \ {n},
                       ![a].done = IF inactive THEN @ \union {n} ELSE @]
  /\ UNCHANGED <<logs_, alive_log_files_, logfile_number_, log_empty_, log_dir_synced_,
                 cfVars, ackVars, next_file_number_, writer, flush, syncs>>

\* Then the directory, if it has to be; a log created after this is not covered.
SyncDir(a) ==
  /\ sync[a].pc = "sync" /\ sync[a].todo = {} /\ sync[a].dir
  /\ wal' = FsyncDir(wal)
  /\ sync' = [sync EXCEPT ![a].pc = "mark"]
  /\ UNCHANGED <<logs_, alive_log_files_, logfile_number_, log_empty_, log_dir_synced_,
                 cfVars, ackVars, next_file_number_, writer, flush, syncs>>

\* Variant: the directory counts as synced whatever log was created meanwhile.
SyncEndForAll(a) ==
  /\ \/ sync[a].pc = "sync" /\ sync[a].todo = {} /\ ~sync[a].dir
     \/ sync[a].pc = "mark"
  /\ MarkLogsSynced(sync[a].up_to, sync[a].done)
  /\ log_dir_synced_' = (log_dir_synced_ \/ sync[a].dir)
  /\ sync' = [sync EXCEPT ![a] = IdleSync]

\* With log_write_mutex_ again: MarkLogsSynced, which knows the directory as
\* synced only if no log was created meanwhile.
SyncEnd(a) ==
  /\ \/ sync[a].pc = "sync" /\ sync[a].todo = {} /\ ~sync[a].dir
     \/ sync[a].pc = "mark"
  /\ MarkLogsSynced(sync[a].up_to, sync[a].done)
  /\ log_dir_synced_' = (log_dir_synced_ \/ (sync[a].dir
                           /\ logfile_number_ = sync[a].up_to))
  /\ sync' = [sync EXCEPT ![a] = IdleSync]

SyncWAL ==
  /\ syncs < MaxSyncs /\ sync[User].pc = "idle"
  /\ SyncBegin(User, logfile_number_)
  /\ syncs' = syncs + 1
  /\ UNCHANGED <<wal, alive_log_files_, logfile_number_, log_empty_, log_dir_synced_,
                 cfVars, ackVars, next_file_number_, writer, flush>>

SyncWALEnd ==
  /\ SyncEnd(User)
  /\ UNCHANGED wal
  /\ synced' = synced \union (1..sync[User].promise)
  /\ UNCHANGED <<alive_log_files_, logfile_number_, log_empty_, cfVars, batch, acked,
                 next_file_number_, writer, flush, syncs>>

----------------------------------------------------------------------------
(* Switching memtables and log files.                                      *)

\* SwitchMemtable decides whether a new log is needed, takes its number and
\* releases the mutex to create the file.
SwitchMemtable(c) ==
  /\ writer.pc = "idle" /\ mem[c] # {}
  /\ ~log_empty_ => next_file_number_ <= MaxWals
  /\ writer' = [IdleWriter EXCEPT !.pc = "switch", !.cf = c, !.number =
                  IF log_empty_ THEN logfile_number_ ELSE next_file_number_]
  /\ next_file_number_' = next_file_number_ + (IF log_empty_ THEN 0 ELSE 1)
  /\ UNCHANGED <<walVars, cfVars, ackVars, sync, flush, syncs>>

\* Variant: the immutable memtables are forgotten.
IsMemEmpty(c) == mem[c] = {}
IsEmpty(c) == mem[c] = {} /\ imm[c] = <<>>

\* With the mutex again: the new log becomes the active one, families without
\* any unflushed data do not need the older logs any more, and the memtable
\* becomes immutable, with the log that follows its data.
SwitchEnd ==
  /\ writer.pc = "switch"
  /\ LET n == writer.number
         creating_new_log == n > logfile_number_
     IN  /\ IF creating_new_log
            THEN /\ wal' = [k \in DOMAIN wal \union {n} |->
                              IF k = n THEN NewWal ELSE wal[k]]
                 /\ logs_' = [k \in DOMAIN logs_ \union {n} |-> k # n /\ logs_[k]]
                 /\ alive_log_files_' = alive_log_files_ \union {n}
                 /\ logfile_number_' = n
                 /\ log_empty_' = TRUE /\ log_dir_synced_' = FALSE
            ELSE UNCHANGED walVars
         /\ log_number' = [c \in CFs |-> IF IsEmpty(c) /\ creating_new_log
                                         THEN n ELSE log_number[c]]
         /\ imm' = [imm EXCEPT ![writer.cf] =
                      Append(@, [data |-> mem[writer.cf], next_log |-> n])]
  /\ mem' = [mem EXCEPT ![writer.cf] = {}]
  /\ writer' = IdleWriter
  /\ UNCHANGED <<min_log_number_to_keep_, manifestVars, ackVars,
                 next_file_number_, sync, flush, syncs>>

----------------------------------------------------------------------------
(* Flushing.                                                               *)

Goto(c, pc) == flush' = [flush EXCEPT ![c].pc = pc]

\* Variant: the closed logs are not synced.
FlushMemTableAtOnce(c) ==
  /\ flush[c].pc = "idle" /\ imm[c] # <<>>
  /\ flush' = [flush EXCEPT ![c].n = Len(imm[c]), ![c].pc = "write"]
  /\ UNCHANGED <<walVars, cfVars, ackVars, next_file_number_, writer, sync,
                 syncs>>

\* FlushMemTableToOutputFile: remember how far the immutable memtables go,
\* then sync the logs before the active one (SyncClosedWals), if there are
\* other families.
FlushMemTable(c) ==
  /\ flush[c].pc = "idle" /\ imm[c] # <<>>
  /\ flush' = [flush EXCEPT ![c].n = Len(imm[c]),
       ![c].pc = IF Cardinality(families) > 1 THEN "claim" ELSE "write"]
  /\ UNCHANGED <<walVars, cfVars, ackVars, next_file_number_, writer, sync,
                 syncs>>

SyncClosedWals(c) ==
  /\ flush[c].pc = "claim"
  /\ SyncBegin(c, logfile_number_ - 1)
  /\ Goto(c, "sync")
  /\ UNCHANGED <<wal, alive_log_files_, logfile_number_, log_empty_, log_dir_synced_,
                 cfVars, ackVars, next_file_number_, writer, syncs>>

SyncClosedWalsEnd(c) ==
  /\ SyncEnd(c)
  /\ Goto(c, "write")
  /\ UNCHANGED wal
  /\ UNCHANGED <<alive_log_files_, logfile_number_, log_empty_, cfVars, ackVars,
                 next_file_number_, writer, syncs>>

\* The table is written; TryInstallMemtableFlushResults computes the edit: the
\* family's log number, and the smallest log that any family still needs
\* (PrecomputeMinLogNumberToKeepNon2PC).
InstallResults(c) ==
  /\ flush[c].pc = "write"
  /\ LET next_log == imm[c][flush[c].n].next_log
         others == {log_number[d] : d \in families \ {c}}
     IN  flush' = [flush EXCEPT ![c].pc = "queue", ![c].next_log = next_log,
                                ![c].min = Oldest(others \union {next_log})]
  /\ UNCHANGED <<walVars, cfVars, ackVars, next_file_number_, writer, sync,
                 syncs>>

\* Variant: the numbers stay as they were.
UpToFirst(a, b) == a
\* Log numbers never go back.
UpTo(a, b) == IF a < b THEN b ELSE a

\* LogAndApply, when its turn in the queue comes.  A new MANIFEST (roll) starts
\* with the log numbers the families have in memory.
LogAndApply(c, roll) ==
  /\ flush[c].pc = "queue" /\ \A d \in families : flush[d].pc # "commit"
  /\ LET log == IF roll THEN log_number ELSE manifest.log
         data == UNION {imm[c][i].data : i \in 1..flush[c].n}
     IN  next_manifest' =
           [flushed |-> [manifest.flushed EXCEPT ![c] = @ \union data],
            log |-> [log EXCEPT ![c] = UpTo(@, flush[c].next_log)],
            min |-> UpTo(manifest.min, flush[c].min)]
  /\ Goto(c, "commit")
  /\ UNCHANGED <<walVars, mem, imm, log_number, min_log_number_to_keep_, manifest,
                 ackVars, next_file_number_, writer, sync, syncs>>

\* The edit is synced and installed.
Commit(c) ==
  /\ flush[c].pc = "commit"
  /\ manifest' = next_manifest
  /\ log_number' = [log_number EXCEPT ![c] = UpTo(@, flush[c].next_log)]
  /\ min_log_number_to_keep_' = UpTo(min_log_number_to_keep_, flush[c].min)
  /\ imm' = [imm EXCEPT ![c] = SubSeq(@, flush[c].n + 1, Len(@))]
  /\ Goto(c, "find")
  /\ UNCHANGED <<walVars, mem, next_manifest, ackVars, next_file_number_, writer, sync,
                 syncs>>

\* FindObsoleteFiles: logs below the smallest needed one are no longer alive;
\* then, the mutex released, they leave logs_ one by one, each closed while it
\* is claimed, unless somebody is syncing it; then they are deleted.
FindObsoleteFiles(c) ==
  /\ flush[c].pc = "find"
  /\ LET dead == {n \in alive_log_files_ : n < min_log_number_to_keep_}
     IN  /\ flush' = [flush EXCEPT ![c].pc = "logs", ![c].del = dead,
                        ![c].min = min_log_number_to_keep_]
         /\ alive_log_files_' = alive_log_files_ \ dead
  /\ UNCHANGED <<wal, logs_, logfile_number_, log_empty_, log_dir_synced_, cfVars,
                 ackVars, next_file_number_, writer, sync, syncs>>

CloseObsoleteLog(c) ==
  /\ flush[c].pc = "logs" /\ Front < flush[c].min
  /\ ~logs_[Front]
  /\ logs_' = PrepareForSync(Front)
  /\ Goto(c, "close")
  /\ UNCHANGED <<wal, alive_log_files_, logfile_number_, log_empty_, log_dir_synced_,
                 cfVars, ackVars, next_file_number_, writer, sync, syncs>>

PopObsoleteLog(c) ==
  /\ flush[c].pc = "close"
  /\ logs_' = [n \in DOMAIN logs_ \ {Front} |-> logs_[n]]
  /\ Goto(c, "logs")
  /\ UNCHANGED <<wal, alive_log_files_, logfile_number_, log_empty_, log_dir_synced_,
                 cfVars, ackVars, next_file_number_, writer, sync, syncs>>

PurgeObsoleteFiles(c) ==
  /\ flush[c].pc = "logs" /\ Front >= flush[c].min
  /\ wal' = [n \in DOMAIN wal \ flush[c].del |-> wal[n]]
  /\ flush' = [flush EXCEPT ![c] = IdleFlush]
  /\ UNCHANGED <<logs_, alive_log_files_, logfile_number_, log_empty_, log_dir_synced_,
                 cfVars, ackVars, next_file_number_, writer, sync, syncs>>

----------------------------------------------------------------------------

WriterStep == WriteSync \/ WriteEnd \/ SwitchEnd
FlushStep(c) ==
  \/ SyncClosedWals(c) \/ SyncOne(c) \/ SyncDir(c) \/ SyncClosedWalsEnd(c)
  \/ InstallResults(c) \/ (\E roll \in BOOLEAN : LogAndApply(c, roll))
  \/ Commit(c) \/ FindObsoleteFiles(c) \/ CloseObsoleteLog(c)
  \/ PopObsoleteLog(c) \/ PurgeObsoleteFiles(c)
UserStep == SyncOne(User) \/ SyncDir(User) \/ SyncWALEnd

Next ==
  /\ UNCHANGED families
  /\ \/ \E cfs \in (SUBSET families) \ {{}} : Write(cfs) \/ WriteBegin(cfs)
     \/ WriterStep
     \/ \E c \in families : SwitchMemtable(c) \/ FlushMemTable(c) \/ FlushStep(c)
     \/ SyncWAL \/ UserStep

Spec == Init /\ [][Next]_vars

----------------------------------------------------------------------------
(* What recovery finds.                                                    *)

\* What MANIFEST may hold if the machine stops now.
manifests == {manifest, next_manifest}

\* RecoverLogFiles replays the logs from this one on ...
MinWal(m) == UpTo(m.min, Oldest({m.log[c] : c \in families}))
\* ... and applies to a family what is in logs from its log number on.
ReplayedLogs(m, c) == {n \in DOMAIN wal : n >= MinWal(m) /\ n >= m.log[c]}

\* Record s is replayed into c after a power failure whatever happened to the
\* bytes that were not synced: it is in the synced part of a log whose name is
\* on disk, and no log before it may end in a torn record, at which
\* point-in-time recovery would stop.
SurvivesPowerLoss(m, c, s) ==
  \E n \in ReplayedLogs(m, c) :
    /\ wal[n].dir /\ s \in wal[n].synced
    /\ \A k \in DOMAIN wal : k >= MinWal(m) /\ k < n => wal[k].synced = wal[k].recs

\* A write that returned from a sync, or that DB::SyncWAL covered, is recovered
\* after a power failure in every family it wrote to.
SyncedSurvive ==
  \A m \in manifests, s \in synced : \A c \in batch[s] :
    s \in m.flushed[c] \/ SurvivesPowerLoss(m, c, s)

\* "If the host crashes after flushing and before WAL is persistent, the
\* flushed SST may contain data from write batches whose updates to other
\* (unflushed) column families are missing": never.  What MANIFEST holds of a
\* batch for one family is recovered for its other families too.
BatchesWhole ==
  \A m \in manifests, s \in DOMAIN batch : \A c, d \in batch[s] :
    s \in m.flushed[c] => s \in m.flushed[d] \/ SurvivesPowerLoss(m, d, s)

\* If only the process stops, every write that returned is recovered: no log
\* is deleted, or skipped by recovery, while it is needed.
NothingLost ==
  \A m \in manifests, s \in acked : \A c \in batch[s] :
    \/ s \in m.flushed[c]
    \/ \E n \in ReplayedLogs(m, c) : s \in wal[n].recs

\* Recovery never replays into a family a record that the family's tables
\* hold already.
NoReplayOfFlushed ==
  \A m \in manifests, c \in families : \A n \in ReplayedLogs(m, c) :
    wal[n].recs \intersect m.flushed[c] = {}

Claims(n) ==
  Cardinality({a \in DOMAIN sync : sync[a].pc # "idle" /\ n <= sync[a].up_to})
  + Cardinality({c \in CFs : flush[c].pc = "close" /\ n = Front})
  + IF writer.pc = "sync" THEN 1 ELSE 0

\* Every log that is marked as being synced is claimed by exactly one thread,
\* and a thread that claims logs waits for nothing before it releases them: so
\* no two of a sync write, DB::SyncWAL, a flush and FindObsoleteFiles wait for
\* each other, no claim outlives its owner, and no log is closed by two.
ClaimsAreHeld ==
  \A n \in DOMAIN logs_ : Claims(n) = IF logs_[n] THEN 1 ELSE 0
=============================================================================
