------------------------------ MODULE LiveFiles ------------------------------
(***************************************************************************)
(* What a SuperVersion pins: a Version (db/version_set.cc), a set of table *)
(* files.  Background jobs create files and install Versions, readers keep *)
(* old Versions alive, and files that no Version contains any more are     *)
(* found under the DB mutex (FindObsoleteFiles) and deleted without it     *)
(* (PurgeObsoleteFiles, db/db_impl/db_impl_files.cc), by several threads   *)
(* at once.                                                                *)
(*                                                                         *)
(* A FileMetaData is a pair <<file number, level>>: a trivial move makes a *)
(* new one for the same file.  Readers are those of SuperVersionPins,      *)
(* which module SuperVersion implements.                                   *)
(***************************************************************************)
EXTENDS SuperVersionPins, Naturals, Sequences, FiniteSetsExt

CONSTANTS
  Jobs,        \* threads that run flushes and compactions
  Backup,      \* the thread that lists the live files for a backup
  MaxFile,     \* bound on file numbers
  MaxDisable   \* bound on nested DisableFileDeletions

ASSUME ThreadsAssumption ==
  /\ IsFiniteSet(SVs) /\ FirstSV \in SVs /\ None \notin SVs
  /\ IsFiniteSet(Jobs) /\ Threads \cap Jobs = {}
  /\ Backup \notin Threads \cup Jobs
  /\ MaxFile \in Nat \ {0}

VARIABLES
  versions,    \* every Version so far: its FileMetaData and refs_; the last
               \* one is cfd->current()
  pins,        \* SVs -> SuperVersion::current, an index of versions
  disk,        \* numbers of the table files in the directory
  obsolete_files_,            \* FileMetaData that no Version contains
  current_next_file_number,
  job,         \* Jobs -> the job it runs
  files_grabbed_for_purge_,
  del,         \* purging threads -> files PurgeObsoleteFiles has to delete
  erase,       \* purging threads -> files_to_del, deleted, still grabbed
  purge_files_, popped,       \* background purge: its queue, the file it deletes
  disable_delete_obsolete_files_,
  listed,      \* the files of the backup in progress
  background_purge            \* ReadOptions::background_purge_on_iterator_cleanup

fileVars == <<versions, pins, disk, obsolete_files_, current_next_file_number, job,
              files_grabbed_for_purge_, del, erase, purge_files_, popped,
              disable_delete_obsolete_files_, listed, background_purge>>
vars == <<pinVars, fileVars>>

Purgers == Threads \cup Jobs \cup {Backup}
NoJob   == [pc |-> "idle", kind |-> "", base |-> 0, inputs |-> {}, output |-> 0, pending |-> 0]

Current == Len(versions)
Numbers(metas) == {m[1] : m \in metas}
Metas(vs) == UNION {vs[i].files : i \in {j \in DOMAIN vs : vs[j].refs > 0}}
LiveNumbers(vs) == Numbers(Metas(vs))

LFInit ==
  /\ PinInit
  /\ versions = << [files |-> {<<1, 0>>}, refs |-> 2] >>
  /\ pins = [s \in SVs |-> IF s = FirstSV THEN 1 ELSE 0]
  /\ disk = {1} /\ obsolete_files_ = {} /\ current_next_file_number = 2
  /\ job = [j \in Jobs |-> NoJob]
  /\ files_grabbed_for_purge_ = {}
  /\ del = [p \in Purgers |-> {}] /\ erase = [p \in Purgers |-> {}]
  /\ purge_files_ = {} /\ popped = 0
  /\ disable_delete_obsolete_files_ = 0
  /\ listed = {}
  /\ background_purge \in BOOLEAN

\* Version::Unref of the Versions in vids (0: none); ~Version drops the
\* FileMetaData it was the last to contain, and they become obsolete.
UnrefVersions(vs, vids) ==
  [i \in DOMAIN vs |-> IF i \in vids THEN [vs[i] EXCEPT !.refs = @ - 1] ELSE vs[i]]

\* Variant: only the FileMetaData of the last Version are looked at.
ObsoletedFromLast(vs, ws) == vs[Len(vs)].files \ ws[Len(ws)].files
Obsoleted(vs, ws) == Metas(vs) \ Metas(ws)

\* Variant: pending outputs are ignored.
NoPendingOutputs(jobs) == MaxFile + 1

\* pending_outputs_ is a list of captured file numbers, in increasing order.
MinObsoleteSstNumberToKeep(jobs) ==
  Min({jobs[j].pending : j \in {k \in Jobs : jobs[k].pending # 0}} \cup {MaxFile + 1})

\* ShouldPurge: a full scan leaves alone what other purges are to delete.
ShouldPurge(f, grabbed) == f \notin grabbed \cup purge_files_

\* What FindObsoleteFiles grabs and hands to PurgeObsoleteFiles, which keeps
\* the live files and those that a running job may have created.
Find(p, full, sst_live, obs, jobs) ==
  LET min_pending_output == MinObsoleteSstNumberToKeep(jobs)
      sst_delete_files == {m \in obs : m[1] < min_pending_output}
      grabbed == files_grabbed_for_purge_ \cup Numbers(sst_delete_files)
      full_scan_candidate_files == {f \in disk : full /\ ShouldPurge(f, grabbed)}
  IN /\ obsolete_files_' = obs \ sst_delete_files
     /\ files_grabbed_for_purge_' = grabbed
     /\ del' = [del EXCEPT ![p] =
          {f \in Numbers(sst_delete_files) \cup full_scan_candidate_files :
              f \notin sst_live /\ f < min_pending_output}]

\* Variant: a file that a trivial move put under a new FileMetaData is deleted
\* with the old one.
FindUnchecked(p, full, vs, obs, jobs) ==
  IF disable_delete_obsolete_files_' > 0
  THEN /\ obsolete_files_' = obs
       /\ UNCHANGED <<files_grabbed_for_purge_, del>>
  ELSE Find(p, full, {}, obs, jobs)

\* Variant: disabled file deletions are not looked at.
FindAlways(p, full, vs, obs, jobs) == Find(p, full, LiveNumbers(vs), obs, jobs)

\* FindObsoleteFiles by thread p, given the Versions, obsolete_files_ and jobs
\* that the rest of the action leaves; sets what p has to purge.
FindObsoleteFiles(p, full, vs, obs, jobs) ==
  IF disable_delete_obsolete_files_' > 0
  THEN /\ obsolete_files_' = obs
       /\ UNCHANGED <<files_grabbed_for_purge_, del>>
  ELSE Find(p, full, LiveNumbers(vs), obs, jobs)
-----------------------------------------------------------------------------
(* Flush and compaction jobs *)

BeingCompacted == UNION {job[j].inputs : j \in Jobs}

\* BackgroundCallFlush / BackgroundCallCompaction: capture the next file
\* number and reference the Version the job works from.
JobStart(j, kind, inputs) ==
  /\ DBMutexFree
  /\ job[j].pc = "idle" /\ del[j] = {} /\ erase[j] = {}
  /\ inputs \subseteq versions[Current].files \ BeingCompacted
  /\ CASE kind = "flush"   -> inputs = {}
       [] kind = "compact" -> inputs # {}
       [] kind = "move"    -> \E f \in 1 .. MaxFile : inputs = {<<f, 0>>}
  /\ job' = [job EXCEPT ![j] = [pc |-> "run", kind |-> kind, base |-> Current,
               inputs |-> inputs, output |-> 0, pending |-> current_next_file_number]]
  /\ versions' = [versions EXCEPT ![Current].refs = @ + 1]
  /\ UNCHANGED <<pinVars, pins, disk, obsolete_files_, current_next_file_number,
                 files_grabbed_for_purge_, del, erase, purge_files_, popped,
                 disable_delete_obsolete_files_, listed, background_purge>>

\* The job takes a file number and creates its output, without the mutex.
JobCreate(j) ==
  /\ job[j].pc = "run" /\ job[j].kind # "move" /\ job[j].output = 0
  /\ current_next_file_number <= MaxFile
  /\ job' = [job EXCEPT ![j].output = current_next_file_number]
  /\ disk' = disk \cup {current_next_file_number}
  /\ current_next_file_number' = current_next_file_number + 1
  /\ UNCHANGED <<pinVars, versions, pins, obsolete_files_, files_grabbed_for_purge_, del,
                 erase, purge_files_, popped, disable_delete_obsolete_files_, listed,
                 background_purge>>

Outputs(j) ==
  CASE job[j].kind = "move" -> {<<m[1], 1>> : m \in job[j].inputs}
    [] job[j].kind = "compact" /\ job[j].output # 0 -> {<<job[j].output, 1>>}
    [] job[j].kind = "flush" -> {<<job[j].output, 0>>}
    [] OTHER -> {}

\* LogAndApply succeeds: AppendVersion makes the new Version current, and
\* InstallSuperVersion begins.  A flush has dropped its base already
\* (WriteLevel0Table); ReleaseCompactionFiles runs in the manifest callback.
JobCommit(j, s) ==
  /\ job[j].pc = "run"
  /\ job[j].kind = "flush" => job[j].output # 0
  /\ Install(s)
  /\ LET vs == UnrefVersions(versions, IF job[j].kind = "flush" THEN {job[j].base} ELSE {})
         v  == [files |-> (vs[Current].files \ job[j].inputs) \cup Outputs(j), refs |-> 2]
     IN /\ versions' = Append(UnrefVersions(vs, {Current}), v)
        /\ obsolete_files_' = obsolete_files_ \cup Obsoleted(versions, versions')
        /\ pins' = [pins EXCEPT ![s] = Current + 1]
  /\ job' = [job EXCEPT ![j].pc = "installed", ![j].inputs = {},
                        ![j].base = IF job[j].kind = "flush" THEN 0 ELSE @]
  /\ UNCHANGED <<disk, current_next_file_number, files_grabbed_for_purge_, del, erase,
                 purge_files_, popped, disable_delete_obsolete_files_, listed,
                 background_purge>>

\* The job fails: it drops its inputs and its base, and sleeps before it
\* gives up its pending output.
JobFail(j) ==
  /\ DBMutexFree
  /\ job[j].pc = "run"
  /\ versions' = UnrefVersions(versions, {job[j].base})
  /\ obsolete_files_' = obsolete_files_ \cup Obsoleted(versions, versions')
  /\ job' = [job EXCEPT ![j].pc = "failed", ![j].inputs = {}, ![j].base = 0]
  /\ UNCHANGED <<pinVars, pins, disk, current_next_file_number, files_grabbed_for_purge_,
                 del, erase, purge_files_, popped, disable_delete_obsolete_files_, listed,
                 background_purge>>

\* The end of the job, with the mutex: ~Compaction, the pending output is
\* released, FindObsoleteFiles (a full scan after a failure, or periodically).
JobFind(j) ==
  /\ DBMutexFree
  /\ job[j].pc \in {"installed", "failed"}
  /\ UNCHANGED disable_delete_obsolete_files_
  /\ versions' = UnrefVersions(versions, {job[j].base})
  /\ job' = [job EXCEPT ![j] = NoJob]
  /\ \E full \in {TRUE, job[j].pc = "failed"} :
       FindObsoleteFiles(j, full, versions',
                         obsolete_files_ \cup Obsoleted(versions, versions'), job')
  /\ UNCHANGED <<pinVars, pins, disk, current_next_file_number, erase, purge_files_,
                 popped, listed, background_purge>>
-----------------------------------------------------------------------------
(* PurgeObsoleteFiles, without the mutex *)

PurgeFiles(p) ==
  /\ del[p] # {}
  /\ IF p \in Threads /\ background_purge
     THEN /\ DBMutexFree                \* SchedulePendingPurge
          /\ purge_files_' = purge_files_ \cup del[p]
          /\ UNCHANGED disk
     ELSE /\ disk' = disk \ del[p]
          /\ UNCHANGED purge_files_
  /\ del' = [del EXCEPT ![p] = {}]
  /\ erase' = [erase EXCEPT ![p] = del[p]]
  /\ UNCHANGED <<pinVars, versions, pins, obsolete_files_, current_next_file_number, job,
                 files_grabbed_for_purge_, popped, disable_delete_obsolete_files_, listed,
                 background_purge>>

EraseGrabbed(p) ==
  /\ DBMutexFree
  /\ erase[p] # {}
  /\ files_grabbed_for_purge_' = files_grabbed_for_purge_ \ erase[p]
  /\ erase' = [erase EXCEPT ![p] = {}]
  /\ UNCHANGED <<pinVars, versions, pins, disk, obsolete_files_, current_next_file_number,
                 job, del, purge_files_, popped, disable_delete_obsolete_files_, listed,
                 background_purge>>

\* BackgroundCallPurge takes a file off the queue and deletes it unlocked.
PopPurgeFile(f) ==
  /\ DBMutexFree
  /\ popped = 0
  /\ purge_files_' = purge_files_ \ {f}
  /\ popped' = f
  /\ UNCHANGED <<pinVars, versions, pins, disk, obsolete_files_, current_next_file_number,
                 job, files_grabbed_for_purge_, del, erase, disable_delete_obsolete_files_,
                 listed, background_purge>>

DeletePopped ==
  /\ popped # 0
  /\ disk' = disk \ {popped}
  /\ popped' = 0
  /\ UNCHANGED <<pinVars, versions, pins, obsolete_files_, current_next_file_number, job,
                 files_grabbed_for_purge_, del, erase, purge_files_,
                 disable_delete_obsolete_files_, listed, background_purge>>
-----------------------------------------------------------------------------
(* Backups: DisableFileDeletions, GetLiveFiles, EnableFileDeletions *)

DisableFileDeletions ==
  /\ DBMutexFree
  /\ disable_delete_obsolete_files_ < MaxDisable
  /\ disable_delete_obsolete_files_' = disable_delete_obsolete_files_ + 1
  /\ UNCHANGED <<pinVars, versions, pins, disk, obsolete_files_, current_next_file_number,
                 job, files_grabbed_for_purge_, del, erase, purge_files_, popped, listed,
                 background_purge>>

GetLiveFiles ==
  /\ DBMutexFree
  /\ disable_delete_obsolete_files_ > 0
  /\ listed' = Numbers(versions[Current].files)
  /\ UNCHANGED <<pinVars, versions, pins, disk, obsolete_files_, current_next_file_number,
                 job, files_grabbed_for_purge_, del, erase, purge_files_, popped,
                 disable_delete_obsolete_files_, background_purge>>

EnableFileDeletions ==
  /\ DBMutexFree
  /\ disable_delete_obsolete_files_ > 0
  /\ del[Backup] = {} /\ erase[Backup] = {}
  /\ disable_delete_obsolete_files_' = disable_delete_obsolete_files_ - 1
  /\ IF disable_delete_obsolete_files_' = 0
     THEN /\ FindObsoleteFiles(Backup, TRUE, versions, obsolete_files_, job)
          /\ listed' = {}
     ELSE UNCHANGED <<obsolete_files_, files_grabbed_for_purge_, del, listed>>
  /\ UNCHANGED <<pinVars, versions, pins, disk, current_next_file_number, job, erase,
                 purge_files_, popped, background_purge>>
-----------------------------------------------------------------------------
(* The steps of SuperVersionPins, with the Versions the SuperVersions pin *)

NotPurging(t) == del[t] = {} /\ erase[t] = {}

\* A read or an iterator begins or ends.
Use(t, s)  == NotPurging(t) /\ Pin(t, s) /\ UNCHANGED fileVars
Stop(t, s) == Unpin(t, s) /\ UNCHANGED fileVars

\* SuperVersion::Cleanup by the last user t drops the Version; an iterator
\* (CleanupSuperVersionHandle) then looks for obsolete files, without a full
\* scan, a plain read (CleanupSuperVersion) does not.
CleanupSuperVersion(t, s) ==
  /\ NotPurging(t)
  /\ CleanUp(s)
  /\ UNCHANGED disable_delete_obsolete_files_
  /\ versions' = UnrefVersions(versions, {pins[s]})
  /\ LET obs == obsolete_files_ \cup Obsoleted(versions, versions')
     IN \/ FindObsoleteFiles(t, FALSE, versions', obs, job)
        \/ obsolete_files_' = obs /\ UNCHANGED <<files_grabbed_for_purge_, del>>
  /\ UNCHANGED <<pins, disk, current_next_file_number, job, erase, purge_files_, popped,
                 listed, background_purge>>

\* The installing thread drops the old SuperVersion.
RetireSuperVersion ==
  /\ Retire
  /\ versions' = UnrefVersions(versions,
                   IF status' # status THEN {pins[retiring]} ELSE {})
  /\ obsolete_files_' = obsolete_files_ \cup Obsoleted(versions, versions')
  /\ UNCHANGED <<pins, disk, current_next_file_number, job, files_grabbed_for_purge_, del,
                 erase, purge_files_, popped, disable_delete_obsolete_files_, listed,
                 background_purge>>

LFNext ==
  \/ \E j \in Jobs :
        \/ \E kind \in {"flush", "compact", "move"} :
             \E inputs \in SUBSET versions[Current].files : JobStart(j, kind, inputs)
        \/ \E s \in SVs : JobCommit(j, s)
        \/ JobCreate(j) \/ JobFail(j) \/ JobFind(j)
  \/ \E p \in Purgers : PurgeFiles(p) \/ EraseGrabbed(p)
  \/ \E f \in purge_files_ : PopPurgeFile(f)
  \/ DeletePopped
  \/ DisableFileDeletions \/ GetLiveFiles \/ EnableFileDeletions
  \/ \E t \in Threads, s \in SVs : Use(t, s) \/ Stop(t, s) \/ CleanupSuperVersion(t, s)
  \/ RetireSuperVersion

LFSpec == LFInit /\ [][LFNext]_vars
-----------------------------------------------------------------------------
\* Every table file that a read, an iterator, the column family or a running
\* compaction can open is on disk, whatever purges run meanwhile: the files of
\* the Version its SuperVersion pins.
ReadersFindTheirFiles ==
  /\ Numbers(versions[Current].files) \subseteq disk
  /\ \A p \in pinned : Numbers(versions[pins[p[2]]].files) \subseteq disk
  /\ \A j \in Jobs : job[j].base # 0 => Numbers(versions[job[j].base].files) \subseteq disk

\* No purge deletes the output of a job that has not installed it yet
\* (pending_outputs_): not even a full scan, which sees the file in the
\* directory and in no Version.
OutputsAreKept ==
  \A j \in Jobs : job[j].pc = "run" /\ job[j].output # 0 => job[j].output \in disk

\* The files that GetLiveFiles returned stay until file deletions are enabled
\* again, although their Version may die and purges that began before
\* DisableFileDeletions still run.
ListedFilesAreKept == listed \subseteq disk

Orphans == {f \in 1 .. MaxFile : \A i \in DOMAIN versions : f \notin Numbers(versions[i].files)}

\* No installed file is forgotten: when no Version contains it, it is in
\* obsolete_files_ or about to be deleted.  (Outputs of failed jobs are found
\* by full scans only.)
NothingForgotten ==
  disk \ (LiveNumbers(versions) \cup Orphans) \subseteq
    Numbers(obsolete_files_) \cup (UNION {del[p] : p \in Purgers}) \cup purge_files_ \cup {popped}

=============================================================================
