------------------------------- MODULE Manifest -------------------------------
(***************************************************************************)
(* How Versions are made durable: VersionSet::LogAndApply and              *)
(* ProcessManifestWrites (db/version_set.cc) append the edits of a group   *)
(* of writers to the MANIFEST without the DB mutex, roll to a new MANIFEST *)
(* and switch CURRENT to it.  The I/O may fail at any point, the process   *)
(* may crash at any point, the DB may resume from the error (ResumeImpl)   *)
(* or be opened again, and files that look dead are deleted meanwhile.     *)
(*                                                                         *)
(* An edit adds one table file and deletes some; it is named by the number *)
(* of the file it adds.  What a MANIFEST holds is the set of the edits     *)
(* that it replays.  After a failure or before a sync several contents are *)
(* possible, and so are several values of CURRENT: both are sets, of which *)
(* a restart finds one member.                                             *)
(*                                                                         *)
(* Left out: the edits that add or delete WALs                             *)
(* (track_and_verify_wals_in_manifest), and a VersionEdit that EncodeTo    *)
(* refuses, which would have to add a table without smallest or largest    *)
(* key.                                                                    *)
(***************************************************************************)
EXTENDS Naturals, Sequences, SequencesExt, FiniteSetsExt

CONSTANTS
  Jobs,       \* flush and compaction jobs
  Main,       \* the thread that opens or resumes the DB: writes an empty edit
  Returned,   \* in manifest_writers_: the writer of a call that has returned
  MaxNumber,  \* bound on file numbers (forced MANIFEST rolls may pass it)
  MaxFaults,  \* bound on failing steps
  MaxCrashes  \* bound on crashes

VARIABLES
  tables,               \* table files in the directory
  manifests,            \* MANIFEST number -> its possible contents
  CURRENT,              \* the numbers that CURRENT may name
  db,                   \* "open", "opening" or "closed"
  edits,                \* the edits that the current Version has applied
  deletes,              \* edit -> the table files it deletes
  next_file_number_, manifest_file_number_,
  descriptor_log_,      \* whether a MANIFEST is open for appending
  io_status_,           \* TRUE: ok
  files_to_quarantine_, obsolete_files_, obsolete_manifests_,
  bg_error_,            \* TRUE: background work is stopped
  manifest_writers_,    \* the queue of LogAndApply
  pmw,                  \* the ProcessManifestWrites in progress
  job,                  \* writers -> state, output, inputs, pending output
  del, delm,            \* writers -> tables, MANIFESTs it is about to delete
  exposed,              \* history: see Exposes
  faults, crashes

diskVars == <<tables, manifests, CURRENT, deletes>>
memVars  == <<db, edits, next_file_number_, manifest_file_number_, descriptor_log_,
              io_status_, files_to_quarantine_, obsolete_files_, obsolete_manifests_,
              bg_error_, manifest_writers_, pmw, job, del, delm, exposed>>
vars == <<diskVars, memVars, faults, crashes>>

Writers == Jobs \cup {Main}
Numbers == 1 .. (MaxNumber + MaxFaults + MaxCrashes)
NoJob == [pc |-> "idle", output |-> 0, inputs |-> {}, pending |-> 0]
NoPMW == [step |-> "none", group |-> <<>>, number |-> 0, roll |-> FALSE, s |-> "ok"]

\* The table files left by a set of edits.
Files(es) == es \ UNION {deletes[e] : e \in es}
\* The edits that the first n writers of group g carry.
EditsOf(g, n) == {job[g[i]].output : i \in 1 .. n} \ {0}

Init ==
  /\ tables = {1} /\ manifests = [m \in {2} |-> {{1}}] /\ CURRENT = {2}
  /\ db = "open" /\ edits = {1} /\ deletes = [n \in Numbers |-> {}]
  /\ next_file_number_ = 3 /\ manifest_file_number_ = 2
  /\ descriptor_log_ = TRUE /\ io_status_ = TRUE
  /\ files_to_quarantine_ = {} /\ obsolete_files_ = {} /\ obsolete_manifests_ = {}
  /\ bg_error_ = FALSE
  /\ manifest_writers_ = <<>> /\ pmw = NoPMW
  /\ job = [w \in Writers |-> NoJob]
  /\ del = [w \in Writers |-> {}] /\ delm = [w \in Writers |-> {}]
  /\ exposed = FALSE /\ faults = 0 /\ crashes = 0
-----------------------------------------------------------------------------
(* Obsolete files *)

\* The smallest pending output; without one, all existing files may go.
MinObsoleteSstNumberToKeep(jobs) ==
  Min({jobs[w].pending : w \in {v \in Writers : jobs[v].pending # 0}} \cup {next_file_number_})

\* FindObsoleteFiles by w with the mutex, given the jobs that the action leaves
\* and the manifest_file_number that the caller lets the purge use.
FindObsoleteFiles(w, full, jobs, manifest_file_number) ==
  LET min_pending_output == MinObsoleteSstNumberToKeep(jobs)
      grabbed == {f \in obsolete_files_ : f < min_pending_output}
  IN /\ obsolete_files_' = obsolete_files_ \ grabbed
     /\ obsolete_manifests_' = {}
     /\ del' = [del EXCEPT ![w] =
          {f \in grabbed \cup (IF full THEN tables ELSE {}) :
              /\ f \notin Files(edits) /\ f < min_pending_output
              /\ f \notin files_to_quarantine_}]
     /\ delm' = [delm EXCEPT ![w] =
          {m \in obsolete_manifests_ \cup (IF full THEN DOMAIN manifests ELSE {}) :
              m < manifest_file_number /\ m \notin files_to_quarantine_}]

NotPurging(w) == del[w] = {} /\ delm[w] = {}

PurgeObsoleteFiles(w) ==
  /\ ~NotPurging(w)
  /\ tables' = tables \ del[w]
  /\ manifests' = [m \in DOMAIN manifests \ delm[w] |-> manifests[m]]
  /\ del' = [del EXCEPT ![w] = {}] /\ delm' = [delm EXCEPT ![w] = {}]
  /\ UNCHANGED <<CURRENT, deletes, db, edits, next_file_number_, manifest_file_number_,
                 descriptor_log_, io_status_, files_to_quarantine_, obsolete_files_,
                 obsolete_manifests_, bg_error_, manifest_writers_, pmw, job, exposed,
                 faults, crashes>>
-----------------------------------------------------------------------------
(* Flush and compaction jobs *)

\* BackgroundCallFlush / BackgroundCallCompaction: the job captures the next
\* file number and marks its inputs as being compacted.
JobStart(j, inputs) ==
  /\ db = "open" /\ ~bg_error_
  /\ job[j].pc = "idle" /\ NotPurging(j)
  /\ inputs \subseteq Files(edits) \ UNION {job[k].inputs : k \in Jobs}
  /\ job' = [job EXCEPT ![j] = [pc |-> "run", output |-> 0, inputs |-> inputs,
                                pending |-> next_file_number_]]
  /\ UNCHANGED <<diskVars, db, edits, next_file_number_, manifest_file_number_,
                 descriptor_log_, io_status_, files_to_quarantine_, obsolete_files_,
                 obsolete_manifests_, bg_error_, manifest_writers_, pmw, del, delm,
                 exposed, faults, crashes>>

\* The job writes and syncs its table file, and calls LogAndApply.
JobLogAndApply(j) ==
  /\ job[j].pc = "run"
  /\ next_file_number_ <= MaxNumber
  /\ job' = [job EXCEPT ![j].pc = "queued", ![j].output = next_file_number_]
  /\ tables' = tables \cup {next_file_number_}
  /\ deletes' = [deletes EXCEPT ![next_file_number_] = job[j].inputs]
  /\ next_file_number_' = next_file_number_ + 1
  /\ manifest_writers_' = Append(manifest_writers_, j)
  /\ UNCHANGED <<manifests, CURRENT, db, edits, manifest_file_number_, descriptor_log_,
                 io_status_, files_to_quarantine_, obsolete_files_, obsolete_manifests_,
                 bg_error_, pmw, del, delm, exposed, faults, crashes>>

\* The end of the job: SetBGError if LogAndApply failed (an error other than
\* of the MANIFEST or CURRENT may be retried without one), the pending output
\* is released, FindObsoleteFiles with a full scan if the job failed.
JobEnd(j) ==
  /\ job[j].pc \in {"ok", "io", "other"}
  /\ bg_error_' \in CASE job[j].pc = "ok" -> {bg_error_}
                      [] job[j].pc = "io" -> {TRUE}
                      [] job[j].pc = "other" -> {bg_error_, TRUE}
  /\ job' = [job EXCEPT ![j] = NoJob]
  /\ \E full \in {TRUE, job[j].pc # "ok"} :
       FindObsoleteFiles(j, full, job', manifest_file_number_)
  /\ UNCHANGED <<diskVars, db, edits, next_file_number_, manifest_file_number_,
                 descriptor_log_, io_status_, files_to_quarantine_, manifest_writers_, pmw,
                 exposed, faults, crashes>>
-----------------------------------------------------------------------------
(* ProcessManifestWrites, by the writer at the head of the queue.  The     *)
(* mutex is released from ProcessManifestWrites to ApplyVersionEdits.      *)

HeadReturned == manifest_writers_ # <<>> /\ Head(manifest_writers_) = Returned

\* The VersionBuilder rejects an edit of the group (LogAndApplyHelper) or the
\* Version (SaveTo): ProcessManifestWrites returns at once, and the queue keeps
\* the address of the ManifestWriter that was its head.  A later ManifestWriter
\* may get that address and take itself for the head: the group then holds its
\* edit twice, which is rejected too.
BuilderRejects(w) ==
  /\ pmw.step = "none" /\ job[w].pc = "queued" /\ manifest_writers_ # <<>>
  /\ \/ /\ ~HeadReturned /\ w = Head(manifest_writers_)
        /\ faults < MaxFaults /\ faults' = faults + 1
     \/ HeadReturned /\ w \in Jobs /\ UNCHANGED faults
  /\ manifest_writers_' = <<Returned>> \o Tail(manifest_writers_)
  /\ job' = [job EXCEPT ![w].pc = "other", ![w].inputs = {}]
  /\ UNCHANGED <<diskVars, db, edits, next_file_number_, manifest_file_number_,
                 descriptor_log_, io_status_, files_to_quarantine_, obsolete_files_,
                 obsolete_manifests_, bg_error_, pmw, del, delm, exposed, crashes>>

\* All queued writers form the group.  A new MANIFEST is started if none is
\* open, or if the open one has grown too large (roll).
ProcessManifestWrites(roll) ==
  /\ pmw.step = "none" /\ manifest_writers_ # <<>> /\ ~HeadReturned
  /\ ~descriptor_log_ => roll
  /\ roll /\ descriptor_log_ => next_file_number_ <= MaxNumber
  /\ pmw' = [step |-> "load", group |-> manifest_writers_, roll |-> roll, s |-> "ok",
             number |-> IF roll THEN next_file_number_ ELSE manifest_file_number_]
  /\ next_file_number_' = next_file_number_ + (IF roll THEN 1 ELSE 0)
  /\ UNCHANGED <<diskVars, db, edits, manifest_file_number_, descriptor_log_, io_status_,
                 files_to_quarantine_, obsolete_files_, obsolete_manifests_, bg_error_,
                 manifest_writers_, job, del, delm, exposed, faults, crashes>>

\* A step of the I/O goes on to the next one, or fails with error s.
Goto(step) == pmw' = [pmw EXCEPT !.step = step] /\ UNCHANGED faults
Fail(s) == /\ faults < MaxFaults /\ faults' = faults + 1
           /\ pmw' = [pmw EXCEPT !.step = "apply", !.s = s]

ioUnchanged == <<tables, deletes, db, edits, next_file_number_, manifest_file_number_,
                 descriptor_log_, io_status_, files_to_quarantine_, obsolete_files_,
                 obsolete_manifests_, bg_error_, manifest_writers_, job, del, delm, exposed,
                 crashes>>

\* LoadTableHandlers opens the new table files; its error is not an IOStatus.
LoadTableHandlers ==
  /\ pmw.step = "load"
  /\ Goto("sync") \/ Fail("other")
  /\ manifests' = IF pmw'.step = "apply" THEN manifests
       ELSE [m \in DOMAIN manifests \cup {pmw.number} |->
              IF m = pmw.number
              THEN {edits \cup EditsOf(pmw.group, n) : n \in 0 .. Len(pmw.group)}
              ELSE manifests[m]]
  /\ UNCHANGED <<CURRENT, ioUnchanged>>

\* Variant: the MANIFEST is not synced.
SyncManifestNot ==
  /\ pmw.step = "sync"
  /\ Goto(IF pmw.roll THEN "rename" ELSE "apply") \/ Fail("io")
  /\ UNCHANGED <<manifests, CURRENT, ioUnchanged>>

\* WriteCurrentStateToManifest, AddRecord of every edit and SyncManifest: until
\* the sync, and if any of them fails, any prefix of the records may be there.
SyncManifest ==
  /\ pmw.step = "sync"
  /\ \/ /\ Goto(IF pmw.roll THEN "rename" ELSE "apply")
        /\ manifests' = [manifests EXCEPT ![pmw.number] =
                           {edits \cup EditsOf(pmw.group, Len(pmw.group))}]
     \/ Fail("io") /\ UNCHANGED manifests
  /\ UNCHANGED <<CURRENT, ioUnchanged>>

\* SetCurrentFile writes a temporary file, renames it to CURRENT and syncs the
\* directory.  It fails before the rename, or after it without knowing whether
\* the new name lasts.
RenameCurrent ==
  /\ pmw.step = "rename"
  /\ \/ Goto("fsync") /\ CURRENT' = CURRENT \cup {pmw.number}
     \/ Fail("current") /\ UNCHANGED CURRENT
  /\ UNCHANGED <<manifests, ioUnchanged>>

FsyncDirectory ==
  /\ pmw.step = "fsync"
  /\ \/ Goto("apply") /\ CURRENT' = {pmw.number}
     \/ Fail("current") /\ UNCHANGED CURRENT
  /\ UNCHANGED <<manifests, ioUnchanged>>

\* Variant: only the MANIFEST is quarantined.
QuarantineManifest == IF pmw.s = "current" THEN {manifest_file_number_} ELSE {}

\* files_to_quarantine_if_commit_fail: the files the edits of the group add, and
\* the old MANIFEST if it is CURRENT that could not be written.
FilesToQuarantine ==
  EditsOf(pmw.group, Len(pmw.group))
    \cup (IF pmw.s = "current" THEN {manifest_file_number_} ELSE {})

\* io_status_ keeps the first failure, and only that one is quarantined; the
\* next LogAndApply without an I/O error clears both.
UpdateQuarantine ==
  /\ io_status_' = (pmw.s \in {"ok", "other"})
  /\ files_to_quarantine_' =
       CASE io_status_'             -> IF io_status_ THEN files_to_quarantine_ ELSE {}
         [] ~io_status_' /\ io_status_  -> files_to_quarantine_ \cup FilesToQuarantine
         [] ~io_status_' /\ ~io_status_ -> files_to_quarantine_

\* What the quarantine does not protect: a commit fails while an earlier failure
\* is not repaired.  If that is no I/O error it clears the quarantine of the
\* first; if it is one, the files of its own jobs are not quarantined.
Exposes ==
  /\ ~io_status_ /\ pmw.s # "ok"
  /\ pmw.s = "other" \/ Range(pmw.group) \cap Jobs # {}

\* Variant: only the first writer of the group is told the result.
WokenFirst == {Head(pmw.group)}
\* The loop that pops the group from the queue wakes all of it.
Woken == Range(pmw.group)

\* With the mutex again: install the edits or give up, and wake the group.  A
\* MANIFEST that could not be written is deleted; one that CURRENT may name is
\* kept.
ApplyVersionEdits ==
  /\ pmw.step = "apply"
  /\ UpdateQuarantine
  /\ LET es == EditsOf(pmw.group, Len(pmw.group)) IN
     IF pmw.s = "ok"
     THEN /\ edits' = edits \cup es
          /\ obsolete_files_' = obsolete_files_ \cup UNION {deletes[e] : e \in es}
          /\ manifest_file_number_' = pmw.number
          /\ descriptor_log_' = TRUE
          /\ obsolete_manifests_' = obsolete_manifests_ \cup
                                      (IF pmw.roll THEN {manifest_file_number_} ELSE {})
          /\ UNCHANGED manifests
     ELSE /\ descriptor_log_' = FALSE
          /\ manifests' = [m \in DOMAIN manifests \
                                  (IF pmw.s = "io" /\ pmw.roll THEN {pmw.number} ELSE {})
                             |-> manifests[m]]
          /\ UNCHANGED <<edits, obsolete_files_, manifest_file_number_, obsolete_manifests_>>
  /\ job' = [w \in Writers |-> IF w \in Woken
               THEN [job[w] EXCEPT !.pc = IF pmw.s = "current" THEN "io" ELSE pmw.s,
                                   !.inputs = {}]
               ELSE job[w]]
  /\ manifest_writers_' = SubSeq(manifest_writers_, Len(pmw.group) + 1, Len(manifest_writers_))
  /\ pmw' = NoPMW /\ exposed' = (exposed \/ Exposes)
  /\ UNCHANGED <<tables, CURRENT, deletes, db, next_file_number_, bg_error_, del, delm,
                 faults, crashes>>
-----------------------------------------------------------------------------
(* Resuming from an error, crashing, opening *)

\* ResumeImpl, once no background work is left: if the MANIFEST is in doubt an
\* empty edit makes a new one.
Resume ==
  /\ db = "open" /\ bg_error_
  /\ \A w \in Writers : job[w].pc = "idle" /\ NotPurging(w)
  /\ IF io_status_
     THEN job' = [job EXCEPT ![Main].pc = "ok"] /\ UNCHANGED manifest_writers_
     ELSE /\ job' = [job EXCEPT ![Main].pc = "queued"]
          /\ manifest_writers_' = Append(manifest_writers_, Main)
  /\ UNCHANGED <<diskVars, db, edits, next_file_number_, manifest_file_number_,
                 descriptor_log_, io_status_, files_to_quarantine_, obsolete_files_,
                 obsolete_manifests_, bg_error_, pmw, del, delm, exposed, faults, crashes>>

\* ClearBGError if that worked, then a full scan, which keeps every MANIFEST
\* (job_context.manifest_file_number = 1).
ResumeEnd ==
  /\ db = "open"
  /\ job[Main].pc \in {"ok", "io", "other"}
  /\ bg_error_' = (job[Main].pc # "ok")
  /\ job' = [job EXCEPT ![Main] = NoJob]
  /\ FindObsoleteFiles(Main, TRUE, job', 1)
  /\ UNCHANGED <<diskVars, db, edits, next_file_number_, manifest_file_number_,
                 descriptor_log_, io_status_, files_to_quarantine_, manifest_writers_, pmw,
                 exposed, faults, crashes>>

\* The process dies: what it had in memory is gone.
Crash ==
  /\ db # "closed" /\ crashes < MaxCrashes
  /\ crashes' = crashes + 1
  /\ db' = "closed"
  /\ job' = [w \in Writers |-> NoJob]
  /\ del' = [w \in Writers |-> {}] /\ delm' = [w \in Writers |-> {}]
  /\ manifest_writers_' = <<>> /\ pmw' = NoPMW
  /\ files_to_quarantine_' = {} /\ obsolete_files_' = {} /\ obsolete_manifests_' = {}
  /\ descriptor_log_' = FALSE /\ io_status_' = TRUE /\ bg_error_' = FALSE
  /\ UNCHANGED <<diskVars, edits, next_file_number_, manifest_file_number_, exposed, faults>>

\* DB::Open: Recover reads the MANIFEST that CURRENT names, whatever it holds,
\* and LogAndApplyForRecovery starts a new one.
Open ==
  /\ db = "closed"
  /\ \E m \in CURRENT \cap DOMAIN manifests : \E es \in manifests[m] :
       /\ Files(es) \subseteq tables
       /\ CURRENT' = {m} /\ manifests' = [manifests EXCEPT ![m] = {es}]
       /\ edits' = es
       /\ manifest_file_number_' = m
  /\ db' = "opening"
  /\ job' = [job EXCEPT ![Main].pc = "queued"]
  /\ manifest_writers_' = <<Main>> /\ exposed' = FALSE
  /\ UNCHANGED <<tables, deletes, next_file_number_, descriptor_log_, io_status_,
                 files_to_quarantine_, obsolete_files_, obsolete_manifests_, bg_error_, pmw,
                 del, delm, faults, crashes>>

\* If that succeeds, DeleteObsoleteFiles scans the directory; if not, Open
\* returns the error and the DB is closed again.
OpenEnd ==
  /\ db = "opening"
  /\ job[Main].pc \in {"ok", "io", "other"}
  /\ job' = [job EXCEPT ![Main] = NoJob]
  /\ IF job[Main].pc = "ok"
     THEN /\ db' = "open"
          /\ FindObsoleteFiles(Main, TRUE, job', manifest_file_number_)
          /\ UNCHANGED <<files_to_quarantine_, io_status_>>
     ELSE /\ db' = "closed"
          /\ files_to_quarantine_' = {} /\ io_status_' = TRUE
          /\ UNCHANGED <<obsolete_files_, obsolete_manifests_, del, delm>>
  /\ UNCHANGED <<diskVars, edits, next_file_number_, manifest_file_number_,
                 descriptor_log_, bg_error_, manifest_writers_, pmw, exposed, faults, crashes>>

Commit == \/ \E roll \in BOOLEAN : ProcessManifestWrites(roll)
          \/ LoadTableHandlers \/ SyncManifest \/ RenameCurrent \/ FsyncDirectory
          \/ ApplyVersionEdits

Next ==
  \/ \E j \in Jobs : \/ \E inputs \in SUBSET Files(edits) : JobStart(j, inputs)
                     \/ JobLogAndApply(j) \/ JobEnd(j)
  \/ \E w \in Writers : PurgeObsoleteFiles(w) \/ BuilderRejects(w)
  \/ Commit
  \/ Resume \/ ResumeEnd \/ Crash \/ Open \/ OpenEnd

Spec == Init /\ [][Next]_vars /\ WF_vars(Commit)
-----------------------------------------------------------------------------
\* Whenever the process stops, the DB can be opened again: the MANIFEST that
\* CURRENT may name is in the directory, and so is every table file that it may
\* name.  This is what keeping the limbo MANIFEST, quarantining files and the
\* order "sync the MANIFEST, then switch CURRENT" are for.  It holds until a
\* commit fails while an earlier failure is not repaired (Exposes); from then
\* on, until the DB is opened again, a table that CURRENT's MANIFEST may name
\* can be deleted.
AlwaysRecoverable ==
  exposed \/ \A m \in CURRENT : /\ m \in DOMAIN manifests
                                 /\ \A es \in manifests[m] : Files(es) \subseteq tables

\* What LogAndApply reported as done survives: every state that a restart may
\* recover contains all edits of the Version installed when the process died.
InstalledSurvives == \A m \in CURRENT \cap DOMAIN manifests : \A es \in manifests[m] : edits \subseteq es

\* A writer in the queue of LogAndApply gets its answer, unless the edits of
\* its group or of an earlier one are rejected before anything is written: that
\* error is returned to one writer, and all others wait for ever.
WritersAreAnswered ==
  \A w \in Writers : job[w].pc = "queued" ~> (job[w].pc # "queued" \/ HeadReturned)
=============================================================================
