-------------------------- MODULE LiveFilesProofs ---------------------------
(* Proofs about LiveFiles, for any number of threads, SuperVersions, jobs    *)
(* and files, and for backups, purges in the background and jobs all at the  *)
(* same time.                                                                *)
EXTENDS LiveFiles, FiniteSetTheorems, WellFoundedInduction, TLAPS

\* Most leaves are first-order; those that need arithmetic cite SMT.
USE ZenonT(30), SMTT(30)

-----------------------------------------------------------------------------
(* The inductive invariant: the reference counts are exact, and what is      *)
(* chosen for deletion can never again be needed.                            *)

FileMetaData == Nat \X {0, 1}

Versions == [files : SUBSET FileMetaData, refs : Int]

JobRecords == [pc : {"idle", "run", "installed", "failed"},
               kind : {"", "flush", "compact", "move"}, base : Nat,
               inputs : SUBSET FileMetaData, output : Nat, pending : Nat]

\* Every variable has its type.
TypeOK ==
  /\ versions \in Seq(Versions) /\ versions # <<>>
  /\ pins \in [SVs -> Nat]
  /\ disk \subseteq Nat
  /\ obsolete_files_ \subseteq FileMetaData
  /\ current_next_file_number \in 1 .. MaxFile + 1
  /\ job \in [Jobs -> JobRecords]
  /\ files_grabbed_for_purge_ \subseteq Nat
  /\ del \in [Purgers -> SUBSET Nat]
  /\ erase \in [Purgers -> SUBSET Nat]
  /\ purge_files_ \subseteq Nat
  /\ popped \in Nat
  /\ disable_delete_obsolete_files_ \in Nat
  /\ listed \subseteq Nat
  /\ background_purge \in BOOLEAN

\* What is pinned, current or being replaced is a live SuperVersion.
PinInv ==
  /\ status \in [SVs -> {"unborn", "live", "cleaned"}]
  /\ super_version_ \in SVs /\ status[super_version_] = "live"
  /\ retiring # None => /\ retiring \in SVs /\ retiring # super_version_
                        /\ status[retiring] = "live"
  /\ pinned \subseteq Threads \X SVs
  /\ \A p \in pinned : status[p[2]] = "live"

\* The SuperVersions and the jobs that hold the Version with index i.
SVsOf(st, pn, i) == {s \in SVs : st[s] = "live" /\ pn[s] = i}
JobsOf(jb, i) == {j \in Jobs : jb[j].base = i}

Counts(vs, st, pn, jb) ==
  \A i \in 1 .. Len(vs) :
    vs[i].refs = (IF i = Len(vs) THEN 1 ELSE 0)
                   + Cardinality(SVsOf(st, pn, i)) + Cardinality(JobsOf(jb, i))

\* The reference counts of the Versions are exact.
RefInv ==
  /\ Counts(versions, status, pins, job)
  /\ \A s \in SVs : status[s] = "live" => pins[s] \in 1 .. Current
  /\ \A j \in Jobs : job[j].base \in 0 .. Current

\* A job works on files of the current Version, and its output is not below
\* what it has captured.
JobOK(jb, dl, files, next) ==
  /\ jb.pc = "idle" => jb = NoJob
  /\ jb.pc # "idle" => dl = {} /\ jb.kind # "" /\ jb.pending \in 1 .. next
  /\ jb.pc = "run" => jb.base # 0
  /\ jb.pc # "run" => jb.inputs = {}
  /\ jb.inputs \subseteq files
  /\ jb.output # 0 => jb.output \in jb.pending .. next - 1

\* No two jobs work on the same file.
JobInv ==
  /\ \A j \in Jobs : JobOK(job[j], del[j], versions[Current].files, current_next_file_number)
  /\ \A j, k \in Jobs : j # k => job[j].inputs \cap job[k].inputs = {}

\* The files that some purge has chosen.
DoomedOf(dl, queue, top) == (UNION {dl[p] : p \in Purgers}) \cup queue \cup ({top} \ {0})
Doomed == DoomedOf(del, purge_files_, popped)

\* Every number in use was handed out by NewFileNumber.
Known == 1 .. current_next_file_number - 1
Installed(vs) == UNION {Numbers(vs[i].files) : i \in DOMAIN vs}
NumberInv ==
  disk \cup Doomed \cup Numbers(obsolete_files_) \cup Installed(versions) \subseteq Known

\* No file is chosen that a live Version contains, a backup has listed or a
\* running job may create.
DoomedInv ==
  /\ LiveNumbers(versions) \subseteq disk
  /\ Doomed \cap (LiveNumbers(versions) \cup listed) = {}
  /\ \A f \in Doomed : \A j \in Jobs : job[j].pending # 0 => f < job[j].pending
  /\ listed # {} => disable_delete_obsolete_files_ > 0

\* NothingForgotten, for the numbers that were handed out.
Remembered ==
  disk \cap Installed(versions) \subseteq
    LiveNumbers(versions) \cup Numbers(obsolete_files_) \cup Doomed

FilesInv == NumberInv /\ DoomedInv /\ OutputsAreKept /\ ListedFilesAreKept /\ Remembered

LFInv == TypeOK /\ PinInv /\ RefInv /\ JobInv /\ FilesInv
-----------------------------------------------------------------------------
(* Facts about the operators.                                                *)

\* Every non-empty set of natural numbers has a least element.
LEMMA LeastOf ==
  ASSUME NEW T, T \subseteq Nat, T # {}
  PROVE  Min(T) \in T /\ \A y \in T : Min(T) <= y
<1>1. IsWellFoundedOn(OpToRel(<, Nat), Nat)
  BY NatLessThanWellFounded
<1>2. PICK x \in T : \A y \in T : ~ (<<y, x>> \in OpToRel(<, Nat))
  BY <1>1, WFMin
<1>3. \A y \in T : ~ (y < x)
  BY <1>2 DEF OpToRel
<1>4. \E z \in T : \A y \in T : z <= y
  BY <1>3, SMTT(30)
<1>. QED
  BY <1>4 DEF Min

\* The parts of a Version.
LEMMA VersionParts ==
  ASSUME NEW vs \in Seq(Versions), NEW i \in 1 .. Len(vs)
  PROVE  vs[i] \in Versions /\ vs[i].files \subseteq FileMetaData /\ vs[i].refs \in Int
<1>1. vs[i] \in Versions
  BY SMTT(30)
<1>. QED
  BY <1>1 DEF Versions

\* Version::Unref changes nothing but the counts of the Versions named.
LEMMA Unreferenced ==
  ASSUME NEW vs \in Seq(Versions), NEW I
  PROVE  /\ UnrefVersions(vs, I) \in Seq(Versions)
         /\ Len(UnrefVersions(vs, I)) = Len(vs)
         /\ \A i \in 1 .. Len(vs) :
              /\ UnrefVersions(vs, I)[i].files = vs[i].files
              /\ UnrefVersions(vs, I)[i].refs = IF i \in I THEN vs[i].refs - 1 ELSE vs[i].refs
<1>. DEFINE ws == UnrefVersions(vs, I)
<1>1. DOMAIN vs = 1 .. Len(vs) /\ Len(vs) \in Nat /\ \A i \in 1 .. Len(vs) : vs[i] \in Versions
  BY SMTT(30)
<1>2. ws \in [1 .. Len(vs) -> Versions]
  BY <1>1, SMTT(30) DEF UnrefVersions, Versions
<1>3. ws \in Seq(Versions) /\ Len(ws) = Len(vs)
  BY <1>1, <1>2, SMTT(30)
<1>. QED
  BY <1>1, <1>3 DEF UnrefVersions, Versions

\* No reference dropped, nothing changed.
LEMMA UnrefNone ==
  ASSUME NEW vs \in Seq(Versions)
  PROVE  UnrefVersions(vs, {}) = vs
<1>1. UnrefVersions(vs, {}) = [i \in DOMAIN vs |-> vs[i]]
  BY DEF UnrefVersions
<1>2. vs = [i \in DOMAIN vs |-> vs[i]]
  BY SMTT(30)
<1>. QED
  BY <1>1, <1>2

\* The FileMetaData of the live Versions, one by one.
LEMMA MetasOf ==
  ASSUME NEW vs \in Seq(Versions), NEW m
  PROVE  m \in Metas(vs) <=> \E i \in 1 .. Len(vs) : vs[i].refs > 0 /\ m \in vs[i].files
<1>1. DOMAIN vs = 1 .. Len(vs)
  BY SMTT(30)
<1>. QED
  BY <1>1 DEF Metas

\* The numbers that Versions contain, one by one.
LEMMA InstalledIn ==
  ASSUME NEW vs \in Seq(Versions), NEW f
  PROVE  f \in Installed(vs) <=> \E i \in 1 .. Len(vs) : f \in Numbers(vs[i].files)
<1>1. DOMAIN vs = 1 .. Len(vs)
  BY SMTT(30)
<1>. QED
  BY <1>1 DEF Installed

\* The files to be deleted, one by one.
LEMMA DoomedBy ==
  ASSUME NEW dl, NEW queue, NEW top, NEW f
  PROVE  f \in DoomedOf(dl, queue, top)
           <=> (\E p \in Purgers : f \in dl[p]) \/ f \in queue \/ (f = top /\ f # 0)
  BY DEF DoomedOf

\* A Version that loses a reference loses its FileMetaData at most, and those
\* that no live Version has any more become obsolete.
LEMMA Dying ==
  ASSUME NEW vs \in Seq(Versions), NEW I
  PROVE  /\ LiveNumbers(UnrefVersions(vs, I)) \subseteq LiveNumbers(vs)
         /\ LiveNumbers(vs) \subseteq LiveNumbers(UnrefVersions(vs, I))
                                       \cup Numbers(Obsoleted(vs, UnrefVersions(vs, I)))
         /\ Numbers(Obsoleted(vs, UnrefVersions(vs, I))) \subseteq LiveNumbers(vs)
         /\ Obsoleted(vs, UnrefVersions(vs, I)) \subseteq FileMetaData
         /\ Installed(UnrefVersions(vs, I)) = Installed(vs)
<1>. DEFINE ws == UnrefVersions(vs, I)
<1>0. ws \in Seq(Versions) /\ Len(ws) = Len(vs) /\ Len(vs) \in Nat
  BY Unreferenced, SMTT(30)
<1>1. ASSUME NEW m \in Metas(ws) PROVE m \in Metas(vs)
  <2>1. PICK i \in 1 .. Len(vs) : ws[i].refs > 0 /\ m \in ws[i].files
    BY <1>0, MetasOf
  <2>2. vs[i].refs \in Int /\ vs[i].refs > 0 /\ m \in vs[i].files
    BY <2>1, Unreferenced, VersionParts, SMTT(30)
  <2>. QED BY <2>2, MetasOf
<1>2. ASSUME NEW m \in Metas(vs) PROVE m \in FileMetaData
  <2>1. PICK i \in 1 .. Len(vs) : m \in vs[i].files
    BY MetasOf
  <2>. QED BY <2>1, VersionParts
<1>3. Installed(ws) = Installed(vs)
  <2>1. \A i \in 1 .. Len(vs) : ws[i].files = vs[i].files
    BY <1>0, Unreferenced, SMTT(30)
  <2>. HIDE DEF ws
  <2>2. \A f : f \in Installed(ws) <=> \E i \in 1 .. Len(vs) : f \in Numbers(vs[i].files)
    BY <1>0, <2>1, InstalledIn
  <2>3. \A f : f \in Installed(vs) <=> \E i \in 1 .. Len(vs) : f \in Numbers(vs[i].files)
    BY InstalledIn
  <2>. QED BY <2>2, <2>3
<1>. QED
  BY <1>1, <1>2, <1>3 DEF LiveNumbers, Numbers, Obsoleted

-----------------------------------------------------------------------------
(* The reference counts, operation by operation.                             *)

\* The holders of a Version are finitely many.
LEMMA Holders ==
  ASSUME NEW st, NEW pn, NEW jb, NEW i
  PROVE  /\ IsFiniteSet(SVsOf(st, pn, i)) /\ Cardinality(SVsOf(st, pn, i)) \in Nat
         /\ IsFiniteSet(JobsOf(jb, i)) /\ Cardinality(JobsOf(jb, i)) \in Nat
<1>1. SVsOf(st, pn, i) \in SUBSET SVs /\ JobsOf(jb, i) \in SUBSET Jobs
  BY DEF SVsOf, JobsOf
<1>. QED
  BY <1>1, ThreadsAssumption, FS_Subset, FS_CardinalityType

\* SuperVersion::Cleanup drops one reference.
LEMMA DropSV ==
  ASSUME NEW vs \in Seq(Versions), NEW pn, NEW jb, NEW s \in SVs,
         NEW st \in [SVs -> {"unborn", "live", "cleaned"}],
         st[s] = "live", Counts(vs, st, pn, jb)
  PROVE  Counts(UnrefVersions(vs, {pn[s]}), [st EXCEPT ![s] = "cleaned"], pn, jb)
<1>. DEFINE st2 == [st EXCEPT ![s] = "cleaned"]
<1>1. ASSUME NEW i \in 1 .. Len(vs)
      PROVE  Cardinality(SVsOf(st2, pn, i)) =
               IF i = pn[s] THEN Cardinality(SVsOf(st, pn, i)) - 1
                            ELSE Cardinality(SVsOf(st, pn, i))
  <2>1. SVsOf(st2, pn, i) = SVsOf(st, pn, i) \ {s}
    BY DEF SVsOf
  <2>2. s \in SVsOf(st, pn, i) <=> i = pn[s]
    BY DEF SVsOf
  <2>3. IsFiniteSet(SVsOf(st, pn, i))
    BY Holders
  <2>4. s \in SVsOf(st, pn, i) => Cardinality(SVsOf(st, pn, i) \ {s}) = Cardinality(SVsOf(st, pn, i)) - 1
    BY <2>3, FS_RemoveElement
  <2>5. s \notin SVsOf(st, pn, i) => SVsOf(st, pn, i) \ {s} = SVsOf(st, pn, i)
    BY Zenon
  <2>. QED BY <2>1, <2>2, <2>4, <2>5
<1>. HIDE DEF st2
<1>2. Len(UnrefVersions(vs, {pn[s]})) = Len(vs)
  BY Unreferenced
<1>3. ASSUME NEW i \in 1 .. Len(vs)
      PROVE  UnrefVersions(vs, {pn[s]})[i].refs =
               (IF i = Len(vs) THEN 1 ELSE 0)
                 + Cardinality(SVsOf(st2, pn, i)) + Cardinality(JobsOf(jb, i))
  <2>1. UnrefVersions(vs, {pn[s]})[i].refs =
          IF i \in {pn[s]} THEN vs[i].refs - 1 ELSE vs[i].refs
    BY Unreferenced, SMTT(30)
  <2>2. vs[i].refs = (IF i = Len(vs) THEN 1 ELSE 0)
                       + Cardinality(SVsOf(st, pn, i)) + Cardinality(JobsOf(jb, i))
    BY DEF Counts
  <2>. QED BY <2>1, <2>2, <1>1, Holders, SMTT(30)
<1>. QED
  BY <1>2, <1>3 DEF Counts, st2

\* A job drops its reference, if it has one.
LEMMA DropJob ==
  ASSUME NEW vs \in Seq(Versions), NEW st, NEW pn, NEW jb, NEW jb2, NEW j \in Jobs,
         jb2[j].base = 0, \A k \in Jobs \ {j} : jb2[k].base = jb[k].base,
         Counts(vs, st, pn, jb)
  PROVE  Counts(UnrefVersions(vs, {jb[j].base}), st, pn, jb2)
<1>1. ASSUME NEW i \in 1 .. Len(vs)
      PROVE  Cardinality(JobsOf(jb2, i)) =
               IF i = jb[j].base THEN Cardinality(JobsOf(jb, i)) - 1
                                 ELSE Cardinality(JobsOf(jb, i))
  <2>1. JobsOf(jb2, i) = JobsOf(jb, i) \ {j}
    BY SMTT(30) DEF JobsOf
  <2>2. j \in JobsOf(jb, i) <=> i = jb[j].base
    BY DEF JobsOf
  <2>3. IsFiniteSet(JobsOf(jb, i))
    BY Holders
  <2>4. j \in JobsOf(jb, i) => Cardinality(JobsOf(jb, i) \ {j}) = Cardinality(JobsOf(jb, i)) - 1
    BY <2>3, FS_RemoveElement
  <2>5. j \notin JobsOf(jb, i) => JobsOf(jb, i) \ {j} = JobsOf(jb, i)
    BY Zenon
  <2>. QED BY <2>1, <2>2, <2>4, <2>5
<1>2. Len(UnrefVersions(vs, {jb[j].base})) = Len(vs)
  BY Unreferenced
<1>3. ASSUME NEW i \in 1 .. Len(vs)
      PROVE  UnrefVersions(vs, {jb[j].base})[i].refs =
               (IF i = Len(vs) THEN 1 ELSE 0)
                 + Cardinality(SVsOf(st, pn, i)) + Cardinality(JobsOf(jb2, i))
  <2>1. UnrefVersions(vs, {jb[j].base})[i].refs =
          IF i \in {jb[j].base} THEN vs[i].refs - 1 ELSE vs[i].refs
    BY Unreferenced, SMTT(30)
  <2>2. vs[i].refs = (IF i = Len(vs) THEN 1 ELSE 0)
                       + Cardinality(SVsOf(st, pn, i)) + Cardinality(JobsOf(jb, i))
    BY DEF Counts
  <2>. QED BY <2>1, <2>2, <1>1, Holders, SMTT(30)
<1>. QED
  BY <1>2, <1>3 DEF Counts

\* A job takes a reference to the current Version.
LEMMA AddJob ==
  ASSUME NEW vs \in Seq(Versions), vs # <<>>, NEW st, NEW pn, NEW jb, NEW jb2, NEW j \in Jobs,
         jb[j].base = 0, jb2[j].base = Len(vs),
         \A k \in Jobs \ {j} : jb2[k].base = jb[k].base,
         Counts(vs, st, pn, jb)
  PROVE  Counts([vs EXCEPT ![Len(vs)].refs = @ + 1], st, pn, jb2)
<1>. DEFINE ws == [vs EXCEPT ![Len(vs)].refs = @ + 1]
<1>0. /\ Len(vs) \in Nat \ {0} /\ Len(ws) = Len(vs)
      /\ \A i \in 1 .. Len(vs) : ws[i].refs = IF i = Len(vs) THEN vs[i].refs + 1 ELSE vs[i].refs
  BY VersionParts, SMTT(30) DEF Versions
<1>1. ASSUME NEW i \in 1 .. Len(vs)
      PROVE  Cardinality(JobsOf(jb2, i)) =
               IF i = Len(vs) THEN Cardinality(JobsOf(jb, i)) + 1
                              ELSE Cardinality(JobsOf(jb, i))
  <2>1. JobsOf(jb2, i) = IF i = Len(vs) THEN JobsOf(jb, i) \cup {j} ELSE JobsOf(jb, i)
    BY <1>0, SMTT(30) DEF JobsOf
  <2>2. j \notin JobsOf(jb, i)
    BY SMTT(30) DEF JobsOf
  <2>3. IsFiniteSet(JobsOf(jb, i)) /\ Cardinality(JobsOf(jb, i)) \in Nat
    BY Holders
  <2>4. Cardinality(JobsOf(jb, i) \cup {j}) = Cardinality(JobsOf(jb, i)) + 1
    BY <2>2, <2>3, FS_AddElement
  <2>. QED BY <2>1, <2>4
<1>. QED
  BY <1>0, <1>1, Holders, VersionParts, SMTT(30) DEF Counts

\* AppendVersion: the column family moves its reference to a new Version, and
\* a new SuperVersion takes the second one.
LEMMA AddVersion ==
  ASSUME NEW vs \in Seq(Versions), vs # <<>>, NEW jb, NEW s \in SVs,
         NEW st \in [SVs -> {"unborn", "live", "cleaned"}], NEW pn \in [SVs -> Nat],
         NEW fs \in SUBSET FileMetaData, st[s] = "unborn",
         \A u \in SVs : st[u] = "live" => pn[u] \in 1 .. Len(vs),
         \A j \in Jobs : jb[j].base \in 0 .. Len(vs),
         Counts(vs, st, pn, jb)
  PROVE  Counts(Append(UnrefVersions(vs, {Len(vs)}), [files |-> fs, refs |-> 2]),
                [st EXCEPT ![s] = "live"], [pn EXCEPT ![s] = Len(vs) + 1], jb)
<1>. DEFINE n  == Len(vs)
            us == UnrefVersions(vs, {n})
            ws == Append(us, [files |-> fs, refs |-> 2])
            st2 == [st EXCEPT ![s] = "live"]
            pn2 == [pn EXCEPT ![s] = n + 1]
<1>0. /\ us \in Seq(Versions) /\ Len(us) = n /\ n \in Nat \ {0}
      /\ \A i \in 1 .. n : us[i].refs = IF i = n THEN vs[i].refs - 1 ELSE vs[i].refs
  BY Unreferenced, SMTT(30)
<1>. HIDE DEF us, n
<1>1. /\ Len(ws) = n + 1 /\ ws[n + 1].refs = 2
      /\ \A i \in 1 .. n : ws[i] = us[i]
  <2>1. [files |-> fs, refs |-> 2] \in Versions
    BY SMTT(30) DEF Versions
  <2>. QED BY <2>1, <1>0, SMTT(30)
<1>2. ASSUME NEW i \in 1 .. n
      PROVE  SVsOf(st2, pn2, i) = SVsOf(st, pn, i)
  BY <1>0, SMTT(30) DEF SVsOf
<1>3. SVsOf(st2, pn2, n + 1) = {s} /\ JobsOf(jb, n + 1) = {}
  BY <1>0, SMTT(30) DEF SVsOf, JobsOf, n
<1>4. Cardinality(SVsOf(st2, pn2, n + 1)) = 1 /\ Cardinality(JobsOf(jb, n + 1)) = 0
  BY <1>3, FS_Singleton, FS_EmptySet
<1>. HIDE DEF st2, pn2, ws
<1>5. ASSUME NEW i \in 1 .. n + 1
      PROVE  ws[i].refs = (IF i = n + 1 THEN 1 ELSE 0)
                            + Cardinality(SVsOf(st2, pn2, i)) + Cardinality(JobsOf(jb, i))
  <2>1. CASE i = n + 1
    BY <2>1, <1>1, <1>4, SMTT(30)
  <2>2. CASE i \in 1 .. n
    <3>1. vs[i].refs = (IF i = n THEN 1 ELSE 0)
                         + Cardinality(SVsOf(st, pn, i)) + Cardinality(JobsOf(jb, i))
      BY <2>2 DEF Counts, n
    <3>2. ws[i].refs = us[i].refs /\ us[i].refs = IF i = n THEN vs[i].refs - 1 ELSE vs[i].refs
      BY <2>2, <1>0, <1>1
    <3>3. SVsOf(st2, pn2, i) = SVsOf(st, pn, i) /\ i # n + 1
      BY <2>2, <1>0, <1>2, SMTT(30)
    <3>. QED BY <3>1, <3>2, <3>3, Holders, SMTT(30)
  <2>. QED BY <2>1, <2>2, <1>0, SMTT(30)
<1>. QED
  BY <1>1, <1>5 DEF Counts, n, us, ws, st2, pn2

\* A Version that is current, pinned or the base of a job is live.
LEMMA HeldIsLive ==
  ASSUME TypeOK, RefInv
  PROVE  /\ Current \in Nat \ {0} /\ versions[Current].refs > 0
         /\ \A s \in SVs : status[s] = "live" => versions[pins[s]].refs > 0
         /\ \A j \in Jobs : job[j].base # 0 => versions[job[j].base].refs > 0
<1>0. Len(versions) \in Nat \ {0} /\ Current = Len(versions)
  <2>1. versions \in Seq(Versions) /\ versions # <<>>
    BY DEF TypeOK
  <2>. QED BY <2>1, SMTT(30) DEF Current
<1>1. versions[Current].refs > 0
  BY <1>0, Holders, SMTT(30) DEF RefInv, Counts, Current
<1>2. ASSUME NEW s \in SVs, status[s] = "live" PROVE versions[pins[s]].refs > 0
  <2>1. pins[s] \in 1 .. Len(versions) /\ s \in SVsOf(status, pins, pins[s])
    BY <1>2 DEF RefInv, SVsOf, Current
  <2>2. Cardinality(SVsOf(status, pins, pins[s])) # 0
    BY <2>1, Holders, FS_EmptySet
  <2>. QED BY <1>0, <2>1, <2>2, Holders, SMTT(30) DEF RefInv, Counts
<1>3. ASSUME NEW j \in Jobs, job[j].base # 0 PROVE versions[job[j].base].refs > 0
  <2>1. job[j].base \in 1 .. Len(versions) /\ j \in JobsOf(job, job[j].base)
    BY <1>0, <1>3, SMTT(30) DEF RefInv, JobsOf
  <2>2. Cardinality(JobsOf(job, job[j].base)) # 0
    BY <2>1, Holders, FS_EmptySet
  <2>. QED BY <1>0, <2>1, <2>2, Holders, SMTT(30) DEF RefInv, Counts
<1>. QED
  BY <1>0, <1>1, <1>2, <1>3 DEF RefInv
-----------------------------------------------------------------------------
(* Looking for obsolete files.                                               *)

\* The smallest captured file number is one that nobody has captured more of.
LEMMA MinPending ==
  ASSUME NEW jobs, \A j \in Jobs : jobs[j].pending \in Nat
  PROVE  \A j \in Jobs : jobs[j].pending # 0
                           => MinObsoleteSstNumberToKeep(jobs) <= jobs[j].pending
<1>. DEFINE T == {jobs[j].pending : j \in {k \in Jobs : jobs[k].pending # 0}} \cup {MaxFile + 1}
<1>1. T \subseteq Nat /\ T # {}
  BY ThreadsAssumption, SMTT(30)
<1>2. \A y \in T : Min(T) <= y
  BY <1>1, LeastOf
<1>3. \A j \in Jobs : jobs[j].pending # 0 => jobs[j].pending \in T
  OBVIOUS
<1>. HIDE DEF T
<1>4. \A j \in Jobs : jobs[j].pending # 0 => Min(T) <= jobs[j].pending
  BY <1>2, <1>3
<1>. QED
  BY <1>4 DEF T, MinObsoleteSstNumberToKeep

\* What FindObsoleteFiles chooses, C, is in no live Version and below what any
\* job has captured; of the obsolete files it forgets none that is dead.
LEMMA Found ==
  ASSUME TypeOK, NEW p \in Purgers, del[p] = {}, NEW full, NEW vs, NEW jobs,
         NEW obs \in SUBSET FileMetaData, \A j \in Jobs : jobs[j].pending \in Nat,
         FindObsoleteFiles(p, full, vs, obs, jobs), UNCHANGED <<purge_files_, popped>>
  PROVE  /\ obsolete_files_' \subseteq obs /\ files_grabbed_for_purge_' \subseteq Nat
         /\ del' \in [Purgers -> SUBSET Nat] /\ \A q \in Purgers \ {p} : del'[q] = del[q]
         /\ Doomed' = Doomed \cup del'[p]
         /\ del'[p] # {} => ~ (disable_delete_obsolete_files_' > 0)
         /\ del'[p] \subseteq Numbers(obs) \cup disk
         /\ del'[p] \cap LiveNumbers(vs) = {}
         /\ \A f \in del'[p] : \A j \in Jobs : jobs[j].pending # 0 => f < jobs[j].pending
         /\ Numbers(obs) \subseteq Numbers(obsolete_files_') \cup del'[p] \cup LiveNumbers(vs)
<1>1. CASE disable_delete_obsolete_files_' > 0
  <2>1. /\ obsolete_files_' = obs /\ del' = del
        /\ files_grabbed_for_purge_' = files_grabbed_for_purge_
    BY <1>1 DEF FindObsoleteFiles
  <2>2. Doomed' = Doomed
    BY <2>1 DEF Doomed
  <2>. QED BY <1>1, <2>1, <2>2 DEF TypeOK
<1>2. CASE ~ (disable_delete_obsolete_files_' > 0)
  <2>. DEFINE min == MinObsoleteSstNumberToKeep(jobs)
              sst == {m \in obs : m[1] < min}
              grabbed == files_grabbed_for_purge_ \cup Numbers(sst)
              scan == {f \in disk : full /\ ShouldPurge(f, grabbed)}
              C == {f \in Numbers(sst) \cup scan : f \notin LiveNumbers(vs) /\ f < min}
  <2>1. /\ obsolete_files_' = obs \ sst /\ files_grabbed_for_purge_' = grabbed
        /\ del' = [del EXCEPT ![p] = C]
    BY <1>2 DEF FindObsoleteFiles, Find
  <2>2. del \in [Purgers -> SUBSET Nat] /\ disk \subseteq Nat /\ files_grabbed_for_purge_ \subseteq Nat
    BY DEF TypeOK
  <2>3. Numbers(sst) \subseteq Numbers(obs) /\ Numbers(sst) \subseteq Nat
    BY DEF Numbers, FileMetaData
  <2>4. \A f \in Numbers(sst) : f < min
    BY DEF Numbers
  <2>5. Numbers(obs) \subseteq Numbers(obs \ sst) \cup Numbers(sst)
    BY DEF Numbers
  <2>6. C \in SUBSET Nat /\ C \subseteq Numbers(obs) \cup disk /\ C \cap LiveNumbers(vs) = {}
    BY <2>2, <2>3
  <2>7. Numbers(obs) \subseteq Numbers(obs \ sst) \cup C \cup LiveNumbers(vs)
    BY <2>4, <2>5
  <2>8. \A f \in C : f < min
    OBVIOUS
  <2>9. min \in Nat
    <3>. DEFINE T == {jobs[j].pending : j \in {k \in Jobs : jobs[k].pending # 0}} \cup {MaxFile + 1}
    <3>1. T \subseteq Nat /\ T # {}
      BY ThreadsAssumption, SMTT(30)
    <3>2. Min(T) \in T
      BY <3>1, LeastOf
    <3>. QED BY <3>1, <3>2 DEF MinObsoleteSstNumberToKeep
  <2>. HIDE DEF C, sst, min
  <2>10. \A f \in C : \A j \in Jobs : jobs[j].pending # 0 => f < jobs[j].pending
    <3>1. \A j \in Jobs : jobs[j].pending # 0 => min <= jobs[j].pending
      BY MinPending DEF min
    <3>. QED BY <2>6, <2>8, <2>9, <3>1, SMTT(30)
  <2>11. del'[p] = C /\ \A q \in Purgers \ {p} : del'[q] = del[q]
    BY <2>1, <2>2
  <2>12. Doomed' = Doomed \cup C
    <3>1. \A f : f \in Doomed'
                   <=> (\E q \in Purgers : f \in del'[q]) \/ f \in purge_files_ \/ (f = popped /\ f # 0)
      BY DoomedBy, SMTT(30) DEF Doomed
    <3>2. \A f : f \in Doomed
                   <=> (\E q \in Purgers : f \in del[q]) \/ f \in purge_files_ \/ (f = popped /\ f # 0)
      BY DoomedBy, SMTT(30) DEF Doomed
    <3>3. \A f : (\E q \in Purgers : f \in del'[q]) <=> f \in C \/ \E q \in Purgers : f \in del[q]
      BY <2>11
    <3>. QED BY <3>1, <3>2, <3>3
  <2>13. obs \ sst \subseteq obs /\ grabbed \subseteq Nat /\ [del EXCEPT ![p] = C] \in [Purgers -> SUBSET Nat]
    BY <2>2, <2>3, <2>6
  <2>. QED BY <1>2, <2>1, <2>6, <2>7, <2>10, <2>11, <2>12, <2>13
<1>. QED
  BY <1>1, <1>2

\* A reference is dropped, files become obsolete and some of them are chosen, C:
\* what files are needed, and whether they are there, does not change.
LEMMA GarbageStep ==
  ASSUME TypeOK, FilesInv, NEW I, versions' = UnrefVersions(versions, I), NEW C,
         disk' = disk, current_next_file_number' = current_next_file_number,
         listed' \subseteq listed, listed' # {} => disable_delete_obsolete_files_' > 0,
         \A j \in Jobs : /\ job'[j].pending # 0 => job'[j].pending = job[j].pending
                         /\ job'[j].pc = "run" => job[j].pc = "run" /\ job'[j].output = job[j].output,
         Doomed' = Doomed \cup C, C # {} => ~ (disable_delete_obsolete_files_' > 0),
         C \cap LiveNumbers(versions') = {},
         \A f \in C : \A j \in Jobs : job'[j].pending # 0 => f < job'[j].pending,
         NEW obs, obs = obsolete_files_ \cup Obsoleted(versions, versions'),
         C \subseteq Numbers(obs) \cup disk, obsolete_files_' \subseteq obs,
         Numbers(obs) \subseteq Numbers(obsolete_files_') \cup C \cup LiveNumbers(versions')
  PROVE  FilesInv'
<1>. DEFINE L == LiveNumbers(versions)
            M == LiveNumbers(versions')
            N == Numbers(Obsoleted(versions, versions'))
<1>1. M \subseteq L /\ L \subseteq M \cup N /\ N \subseteq L /\ Installed(versions') = Installed(versions)
  BY Dying DEF TypeOK
<1>2. Numbers(obs) = Numbers(obsolete_files_) \cup N /\ Numbers(obsolete_files_') \subseteq Numbers(obs)
  BY DEF Numbers
<1>3. /\ disk \cup Doomed \cup Numbers(obsolete_files_) \cup Installed(versions) \subseteq Known
      /\ Known' = Known
  BY DEF FilesInv, NumberInv, Known
<1>4. /\ L \subseteq disk /\ Doomed \cap (L \cup listed) = {} /\ listed \subseteq disk
      /\ \A f \in Doomed : \A j \in Jobs : job[j].pending # 0 => f < job[j].pending
      /\ disk \cap Installed(versions) \subseteq L \cup Numbers(obsolete_files_) \cup Doomed
  BY DEF FilesInv, DoomedInv, ListedFilesAreKept, Remembered
<1>5. C # {} => listed' = {}
  OBVIOUS
<1>. HIDE DEF L, M, N
<1>6. NumberInv'
  <2>1. disk \cup Doomed' \cup Numbers(obsolete_files_') \cup Installed(versions) \subseteq Known
    BY <1>1, <1>2, <1>3, <1>4
  <2>. QED BY <2>1, <1>1, <1>3 DEF NumberInv
<1>7. DoomedInv'
  <2>1. M \subseteq disk /\ Doomed' \cap (M \cup listed') = {}
    BY <1>1, <1>4, <1>5 DEF M
  <2>2. ASSUME NEW f \in Doomed', NEW j \in Jobs, job'[j].pending # 0 PROVE f < job'[j].pending
    BY <2>2, <1>4
  <2>. QED BY <2>1, <2>2 DEF DoomedInv, M
<1>8. OutputsAreKept'
  BY DEF FilesInv, OutputsAreKept
<1>9. ListedFilesAreKept'
  BY <1>4 DEF ListedFilesAreKept
<1>10. Remembered'
  <2>1. disk \cap Installed(versions) \subseteq M \cup Numbers(obsolete_files_') \cup Doomed'
    BY <1>1, <1>2, <1>4 DEF M
  <2>. QED BY <2>1, <1>1 DEF Remembered, M
<1>. QED
  BY <1>6, <1>7, <1>8, <1>9, <1>10 DEF FilesInv

\* The same, where nobody looks for obsolete files.
LEMMA ObsoleteStep ==
  ASSUME TypeOK, FilesInv, NEW I, versions' = UnrefVersions(versions, I),
         UNCHANGED <<disk, current_next_file_number, listed, disable_delete_obsolete_files_,
                     del, purge_files_, popped>>,
         \A j \in Jobs : /\ job'[j].pending # 0 => job'[j].pending = job[j].pending
                         /\ job'[j].pc = "run" => job[j].pc = "run" /\ job'[j].output = job[j].output,
         obsolete_files_' = obsolete_files_ \cup Obsoleted(versions, versions')
  PROVE  FilesInv'
<1>1. PICK C : C = {}
  BY Zenon
<1>2. Doomed' = Doomed \cup C
  BY <1>1 DEF Doomed
<1>3. listed' # {} => disable_delete_obsolete_files_' > 0
  BY DEF FilesInv, DoomedInv
<1>4. PICK obs : obs = obsolete_files_'
  OBVIOUS
<1>5. /\ C \cap LiveNumbers(versions') = {} /\ C \subseteq Numbers(obs) \cup disk
      /\ Numbers(obs) \subseteq Numbers(obsolete_files_') \cup C \cup LiveNumbers(versions')
      /\ obsolete_files_' \subseteq obs /\ obs = obsolete_files_ \cup Obsoleted(versions, versions')
      /\ listed' \subseteq listed /\ C # {} => ~ (disable_delete_obsolete_files_' > 0)
      /\ \A f \in C : \A j \in Jobs : job'[j].pending # 0 => f < job'[j].pending
  BY <1>1, <1>4
<1>. QED
  BY <1>2, <1>3, <1>5, GarbageStep

-----------------------------------------------------------------------------
(* The steps, one lemma per action.                                          *)

\* The parts of a job.
LEMMA JobParts ==
  ASSUME TypeOK, NEW j \in Jobs
  PROVE  /\ job[j].pc \in {"idle", "run", "installed", "failed"}
         /\ job[j].kind \in {"", "flush", "compact", "move"}
         /\ job[j].base \in Nat /\ job[j].output \in Nat /\ job[j].pending \in Nat
         /\ job[j].inputs \subseteq FileMetaData
  BY DEF TypeOK, JobRecords

\* The file number that NewFileNumber returns next.
LEMMA NextNumber ==
  ASSUME TypeOK
  PROVE  /\ current_next_file_number \in Nat \ {0}
         /\ current_next_file_number <= MaxFile + 1 /\ MaxFile \in Nat
<1>1. current_next_file_number \in 1 .. MaxFile + 1
  BY DEF TypeOK
<1>. QED
  BY <1>1, ThreadsAssumption, SMTT(30)

\* What a step that leaves Versions, SuperVersions and jobs alone preserves.
LEMMA SameBook ==
  ASSUME PinInv, RefInv, JobInv,
         UNCHANGED <<versions, pins, job, pinVars, current_next_file_number>>,
         \A j \in Jobs : del'[j] = del[j] \/ del'[j] = {}
  PROVE  PinInv' /\ RefInv' /\ JobInv'
<1>1. PinInv'
  BY DEF PinInv, pinVars
<1>2. RefInv'
  BY DEF RefInv, Current, pinVars
<1>3. JobInv'
  BY DEF JobInv, JobOK, Current
<1>. QED
  BY <1>1, <1>2, <1>3

\* A read or an iterator begins or ends.
LEMMA UseStep ==
  ASSUME LFInv, NEW t \in Threads, NEW s \in SVs, Use(t, s) \/ Stop(t, s)
  PROVE  LFInv'
<1>1. UNCHANGED fileVars /\ UNCHANGED <<status, super_version_, retiring>>
  BY DEF Use, Stop, Pin, Unpin
<1>2. PinInv'
  BY <1>1, ThreadsAssumption, SMTT(30) DEF LFInv, PinInv, Use, Stop, Pin, Unpin
<1>3. TypeOK'
  BY <1>1 DEF LFInv, TypeOK, fileVars
<1>4. RefInv'
  BY <1>1 DEF LFInv, RefInv, Current, fileVars
<1>5. JobInv'
  BY <1>1 DEF LFInv, JobInv, Current, fileVars
<1>6. FilesInv'
  BY <1>1 DEF LFInv, FilesInv, NumberInv, DoomedInv, OutputsAreKept, ListedFilesAreKept,
              Remembered, Known, Doomed, fileVars
<1>. QED
  BY <1>2, <1>3, <1>4, <1>5, <1>6 DEF LFInv

\* PurgeObsoleteFiles returns its files.
LEMMA EraseStep ==
  ASSUME LFInv, NEW p \in Purgers, EraseGrabbed(p)
  PROVE  LFInv'
<1>1. TypeOK'
  BY DEF LFInv, TypeOK, EraseGrabbed
<1>2. PinInv' /\ RefInv' /\ JobInv'
  BY SameBook DEF LFInv, EraseGrabbed
<1>3. FilesInv'
  BY DEF LFInv, FilesInv, NumberInv, DoomedInv, OutputsAreKept, ListedFilesAreKept,
         Remembered, Known, Doomed, EraseGrabbed
<1>. QED
  BY <1>1, <1>2, <1>3 DEF LFInv

\* A file leaves the queue of the background purge: it stays doomed.
LEMMA PopStep ==
  ASSUME LFInv, NEW f \in purge_files_, PopPurgeFile(f)
  PROVE  LFInv'
<1>1. TypeOK'
  BY DEF LFInv, TypeOK, PopPurgeFile
<1>2. PinInv' /\ RefInv' /\ JobInv'
  BY SameBook DEF LFInv, PopPurgeFile
<1>3. Doomed' = Doomed
  <2>1. f \in Doomed
    BY DoomedBy DEF Doomed
  <2>2. f # 0
    <3>1. f \in Known
      BY <2>1 DEF LFInv, FilesInv, NumberInv
    <3>. QED BY <3>1, NextNumber, SMTT(30) DEF LFInv, Known
  <2>3. del' = del /\ purge_files_' = purge_files_ \ {f} /\ popped = 0 /\ popped' = f
    BY DEF PopPurgeFile
  <2>4. \A g : g \in Doomed <=> (\E q \in Purgers : g \in del[q]) \/ g \in purge_files_
    BY <2>3, DoomedBy DEF Doomed
  <2>5. \A g : g \in Doomed' <=> (\E q \in Purgers : g \in del[q]) \/ g \in purge_files_ \ {f} \/ g = f
    BY <2>2, <2>3, DoomedBy, SMTT(30) DEF Doomed
  <2>. QED BY <2>4, <2>5
<1>4. FilesInv'
  BY <1>3 DEF LFInv, FilesInv, NumberInv, DoomedInv, OutputsAreKept, ListedFilesAreKept,
              Remembered, Known, PopPurgeFile
<1>. QED
  BY <1>1, <1>2, <1>4 DEF LFInv

\* Doomed files F are deleted: nobody needs them.
LEMMA DeleteStep ==
  ASSUME TypeOK, JobInv, FilesInv, NEW F, F \subseteq Doomed, disk' = disk \ F,
         Doomed' \cup F = Doomed,
         UNCHANGED <<versions, obsolete_files_, current_next_file_number, job, listed,
                     disable_delete_obsolete_files_>>
  PROVE  FilesInv'
<1>1. NumberInv'
  BY DEF FilesInv, NumberInv, Known
<1>2. DoomedInv'
  <2>1. LiveNumbers(versions) \subseteq disk' /\ Doomed' \cap (LiveNumbers(versions) \cup listed) = {}
    BY DEF FilesInv, DoomedInv
  <2>2. \A f \in Doomed' : \A j \in Jobs : job[j].pending # 0 => f < job[j].pending
    BY DEF FilesInv, DoomedInv
  <2>. QED BY <2>1, <2>2 DEF FilesInv, DoomedInv
<1>3. OutputsAreKept'
  <2>. SUFFICES ASSUME NEW j \in Jobs, job[j].pc = "run", job[j].output # 0
                PROVE  job[j].output \in disk \ F
    BY DEF OutputsAreKept
  <2>1. job[j].output \in disk
    BY DEF FilesInv, OutputsAreKept
  <2>2. /\ job[j].pending \in Nat \ {0} /\ job[j].output \in Nat
        /\ job[j].output >= job[j].pending
    <3>1. /\ job[j].pending \in 1 .. current_next_file_number
          /\ job[j].output \in job[j].pending .. current_next_file_number - 1
      BY DEF JobInv, JobOK
    <3>2. current_next_file_number \in Nat /\ job[j].pending \in Nat /\ job[j].output \in Nat
      BY JobParts, NextNumber
    <3>. QED BY <3>1, <3>2, SMTT(30)
  <2>3. \A f \in F : f < job[j].pending
    BY <2>2 DEF FilesInv, DoomedInv
  <2>. QED BY <2>1, <2>2, <2>3, SMTT(30)
<1>4. ListedFilesAreKept'
  BY DEF FilesInv, DoomedInv, ListedFilesAreKept
<1>5. Remembered'
  BY DEF FilesInv, Remembered
<1>. QED
  BY <1>1, <1>2, <1>3, <1>4, <1>5 DEF FilesInv

\* The background purge deletes the file it has taken.
LEMMA DeletePoppedStep ==
  ASSUME LFInv, DeletePopped
  PROVE  LFInv'
<1>1. TypeOK'
  BY DEF LFInv, TypeOK, DeletePopped
<1>2. PinInv' /\ RefInv' /\ JobInv'
  BY SameBook DEF LFInv, DeletePopped
<1>3. {popped} \subseteq Doomed /\ Doomed' \cup {popped} = Doomed
  <2>1. del' = del /\ purge_files_' = purge_files_ /\ popped # 0 /\ popped' = 0
    BY DEF DeletePopped
  <2>2. \A g : g \in Doomed <=> (\E q \in Purgers : g \in del[q]) \/ g \in purge_files_ \/ g = popped
    BY <2>1, DoomedBy DEF Doomed
  <2>3. \A g : g \in Doomed' <=> (\E q \in Purgers : g \in del[q]) \/ g \in purge_files_
    BY <2>1, DoomedBy DEF Doomed
  <2>. QED BY <2>2, <2>3
<1>4. FilesInv'
  BY <1>3, DeleteStep DEF LFInv, DeletePopped
<1>. QED
  BY <1>1, <1>2, <1>4 DEF LFInv

\* PurgeObsoleteFiles deletes its files or leaves them to the background.
LEMMA PurgeStep ==
  ASSUME LFInv, NEW p \in Purgers, PurgeFiles(p)
  PROVE  LFInv'
<1>1. TypeOK'
  BY DEF LFInv, TypeOK, PurgeFiles
<1>2. PinInv' /\ RefInv' /\ JobInv'
  <2>1. \A j \in Jobs : del'[j] = del[j] \/ del'[j] = {}
    BY DEF LFInv, TypeOK, PurgeFiles, Purgers
  <2>. QED BY <2>1, SameBook DEF LFInv, PurgeFiles
<1>3. /\ del'[p] = {} /\ \A q \in Purgers : q # p => del'[q] = del[q]
      /\ popped' = popped
  BY DEF LFInv, TypeOK, PurgeFiles
<1>4. \A g : g \in Doomed
               <=> (\E q \in Purgers : g \in del[q]) \/ g \in purge_files_ \/ (g = popped /\ g # 0)
  BY DoomedBy, SMTT(30) DEF Doomed
<1>5. \A g : g \in Doomed'
               <=> (\E q \in Purgers : g \in del'[q]) \/ g \in purge_files_' \/ (g = popped /\ g # 0)
  BY <1>3, DoomedBy, SMTT(30) DEF Doomed
<1>6. \A g : (\E q \in Purgers : g \in del[q]) <=> g \in del[p] \/ \E q \in Purgers : g \in del'[q]
  BY <1>3
<1>7. UNCHANGED <<versions, obsolete_files_, current_next_file_number, job, listed,
                  disable_delete_obsolete_files_>>
  BY DEF PurgeFiles
<1>8. FilesInv'
  <2>1. CASE purge_files_' = purge_files_ \cup del[p] /\ disk' = disk
    <3>1. PICK F : F = {}
      BY Zenon
    <3>2. F \subseteq Doomed /\ Doomed' \cup F = Doomed /\ disk' = disk \ F
      BY <3>1, <2>1, <1>4, <1>5, <1>6
    <3>. QED BY <1>7, <3>2, DeleteStep DEF LFInv
  <2>2. CASE purge_files_' = purge_files_ /\ disk' = disk \ del[p]
    <3>1. del[p] \subseteq Doomed /\ Doomed' \cup del[p] = Doomed
      BY <2>2, <1>4, <1>5, <1>6
    <3>. QED BY <1>7, <2>2, <3>1, DeleteStep DEF LFInv
  <2>. QED BY <2>1, <2>2 DEF PurgeFiles
<1>. QED
  BY <1>1, <1>2, <1>8 DEF LFInv

\* DisableFileDeletions counts.
LEMMA DisableStep ==
  ASSUME LFInv, DisableFileDeletions
  PROVE  LFInv'
<1>1. disable_delete_obsolete_files_ \in Nat /\ disable_delete_obsolete_files_' \in Nat
  <2>1. disable_delete_obsolete_files_ \in Nat
    BY DEF LFInv, TypeOK
  <2>. QED BY <2>1, SMTT(30) DEF DisableFileDeletions
<1>2. TypeOK'
  BY <1>1 DEF LFInv, TypeOK, DisableFileDeletions
<1>3. PinInv' /\ RefInv' /\ JobInv'
  BY SameBook DEF LFInv, DisableFileDeletions
<1>4. FilesInv'
  BY <1>1, SMTT(30) DEF LFInv, FilesInv, NumberInv, DoomedInv, OutputsAreKept, ListedFilesAreKept,
              Remembered, Known, Doomed, DisableFileDeletions
<1>. QED
  BY <1>2, <1>3, <1>4 DEF LFInv

\* The files of the current Version are there, and live.
LEMMA CurrentIsLive ==
  ASSUME TypeOK, RefInv
  PROVE  Numbers(versions[Current].files) \subseteq LiveNumbers(versions)
<1>1. Current \in 1 .. Len(versions) /\ versions[Current].refs > 0
  BY HeldIsLive, SMTT(30) DEF Current
<1>2. versions \in Seq(Versions)
  BY DEF TypeOK
<1>3. \A m \in versions[Current].files : m \in Metas(versions)
  BY <1>1, <1>2, MetasOf
<1>. QED
  BY <1>3 DEF LiveNumbers, Numbers

\* A backup lists the files of the current Version.
LEMMA GetLiveFilesStep ==
  ASSUME LFInv, GetLiveFiles
  PROVE  LFInv'
<1>1. listed' \subseteq LiveNumbers(versions) /\ disable_delete_obsolete_files_ > 0
  BY CurrentIsLive DEF LFInv, GetLiveFiles
<1>2. LiveNumbers(versions) \subseteq disk /\ disk \subseteq Nat
  BY DEF LFInv, FilesInv, DoomedInv, TypeOK
<1>3. TypeOK'
  BY <1>1, <1>2 DEF LFInv, TypeOK, GetLiveFiles
<1>4. PinInv' /\ RefInv' /\ JobInv'
  BY SameBook DEF LFInv, GetLiveFiles
<1>5. FilesInv'
  BY <1>1 DEF LFInv, FilesInv, NumberInv, DoomedInv, OutputsAreKept, ListedFilesAreKept,
              Remembered, Known, Doomed, GetLiveFiles
<1>. QED
  BY <1>3, <1>4, <1>5 DEF LFInv

\* The last EnableFileDeletions looks for obsolete files itself.
LEMMA EnableStep ==
  ASSUME LFInv, EnableFileDeletions
  PROVE  LFInv'
<1>0. UNCHANGED <<pinVars, versions, pins, disk, current_next_file_number, job, erase,
                  purge_files_, popped, background_purge>>
  BY DEF EnableFileDeletions
<1>1. CASE disable_delete_obsolete_files_' # 0
  <2>1. UNCHANGED <<obsolete_files_, files_grabbed_for_purge_, del, listed>>
    BY <1>1 DEF EnableFileDeletions
  <2>2. disable_delete_obsolete_files_' \in Nat /\ disable_delete_obsolete_files_' > 0
    <3>1. disable_delete_obsolete_files_ \in Nat
      BY DEF LFInv, TypeOK
    <3>. QED BY <1>1, <3>1, SMTT(30) DEF EnableFileDeletions
  <2>3. TypeOK'
    BY <1>0, <2>1, <2>2 DEF LFInv, TypeOK
  <2>4. PinInv' /\ RefInv' /\ JobInv'
    BY <1>0, <2>1, SameBook DEF LFInv
  <2>5. FilesInv'
    BY <1>0, <2>1, <2>2 DEF LFInv, FilesInv, NumberInv, DoomedInv, OutputsAreKept,
       ListedFilesAreKept, Remembered, Known, Doomed
  <2>. QED BY <2>3, <2>4, <2>5 DEF LFInv
<1>2. CASE disable_delete_obsolete_files_' = 0
  <2>1. /\ FindObsoleteFiles(Backup, TRUE, versions, obsolete_files_, job)
        /\ del[Backup] = {} /\ listed' = {}
    BY <1>2 DEF EnableFileDeletions
  <2>2. /\ Backup \in Purgers /\ obsolete_files_ \in SUBSET FileMetaData
        /\ \A j \in Jobs : job[j].pending \in Nat
    BY JobParts DEF LFInv, TypeOK, Purgers
  <2>. DEFINE C == del'[Backup]
  <2>3. /\ obsolete_files_' \subseteq obsolete_files_ /\ files_grabbed_for_purge_' \subseteq Nat
        /\ del' \in [Purgers -> SUBSET Nat] /\ \A q \in Purgers \ {Backup} : del'[q] = del[q]
        /\ Doomed' = Doomed \cup C /\ C \subseteq Numbers(obsolete_files_) \cup disk
        /\ C \cap LiveNumbers(versions) = {}
        /\ \A f \in C : \A j \in Jobs : job[j].pending # 0 => f < job[j].pending
        /\ Numbers(obsolete_files_) \subseteq Numbers(obsolete_files_') \cup C \cup LiveNumbers(versions)
    BY <1>0, <2>1, <2>2, Found DEF LFInv
  <2>4. TypeOK'
    BY <1>0, <1>2, <2>1, <2>3 DEF LFInv, TypeOK
  <2>5. PinInv' /\ RefInv' /\ JobInv'
    <3>1. \A j \in Jobs : del'[j] = del[j]
      BY <2>3, ThreadsAssumption DEF Purgers
    <3>. QED BY <1>0, <3>1, SameBook DEF LFInv
  <2>6. versions \in Seq(Versions) /\ UnrefVersions(versions, {}) = versions
    BY UnrefNone DEF LFInv, TypeOK
  <2>7. Obsoleted(versions, versions') = {}
    BY <1>0 DEF Obsoleted
  <2>. HIDE DEF C
  <2>8. FilesInv'
    <3>1. PICK obs : obs = obsolete_files_
      OBVIOUS
    <3>2. obs = obsolete_files_ \cup Obsoleted(versions, versions')
      BY <2>7, <3>1
    <3>3. versions' = UnrefVersions(versions, {})
      BY <1>0, <2>6
    <3>4. job' = job /\ versions' = versions /\ disk' = disk
      BY <1>0
    <3>5. /\ C \cap LiveNumbers(versions') = {} /\ C \subseteq Numbers(obs) \cup disk
          /\ \A f \in C : \A j \in Jobs : job'[j].pending # 0 => f < job'[j].pending
          /\ obsolete_files_' \subseteq obs
          /\ Numbers(obs) \subseteq Numbers(obsolete_files_') \cup C \cup LiveNumbers(versions')
      BY <2>3, <3>1, <3>4
    <3>6. ~ (disable_delete_obsolete_files_' > 0) /\ listed' \subseteq listed
      BY <1>2, <2>1, SMTT(30)
    <3>. QED BY <1>0, <2>1, <2>3, <3>2, <3>3, <3>4, <3>5, <3>6, GarbageStep DEF LFInv
  <2>. QED BY <2>4, <2>5, <2>8 DEF LFInv
<1>. QED
  BY <1>1, <1>2

\* The Versions after one or several of them have lost a reference.
LEMMA UnrefCurrent ==
  ASSUME TypeOK, NEW I, versions' = UnrefVersions(versions, I)
  PROVE  /\ versions' \in Seq(Versions) /\ versions' # <<>>
         /\ Current' = Current /\ Len(versions') = Len(versions)
         /\ versions'[Current'].files = versions[Current].files
         /\ Obsoleted(versions, versions') \subseteq FileMetaData
<1>1. versions \in Seq(Versions) /\ versions # <<>>
  BY DEF TypeOK
<1>2. Len(versions) \in 1 .. Len(versions)
  BY <1>1, SMTT(30)
<1>3. /\ versions' \in Seq(Versions) /\ Len(versions') = Len(versions)
      /\ \A i \in 1 .. Len(versions) : versions'[i].files = versions[i].files
  BY <1>1, Unreferenced, SMTT(30)
<1>4. Obsoleted(versions, versions') \subseteq FileMetaData
  BY <1>1, Dying
<1>5. versions' # <<>>
  BY <1>1, <1>3, SMTT(30)
<1>. QED
  BY <1>2, <1>3, <1>4, <1>5 DEF Current

\* What a SuperVersion's end leaves of the invariant.
LEMMA CleanedBook ==
  ASSUME TypeOK, PinInv, RefInv, JobInv, NEW s \in SVs, status[s] = "live", s # super_version_,
         Unpinned(s), retiring' = None, status' = [status EXCEPT ![s] = "cleaned"],
         UNCHANGED <<super_version_, pinned, pins, job, current_next_file_number>>,
         versions' = UnrefVersions(versions, {pins[s]}),
         \A j \in Jobs : del'[j] = del[j]
  PROVE  PinInv' /\ RefInv' /\ JobInv'
<1>1. PinInv'
  <2>1. status' \in [SVs -> {"unborn", "live", "cleaned"}] /\ \A u \in SVs \ {s} : status'[u] = status[u]
    BY DEF PinInv
  <2>2. \A p \in pinned : p[2] # s /\ p[2] \in SVs
    BY SMTT(30) DEF PinInv, Unpinned
  <2>. QED BY <2>1, <2>2 DEF PinInv
<1>2. RefInv'
  <2>1. Counts(versions', status', pins, job)
    BY DropSV DEF TypeOK, PinInv, RefInv
  <2>2. \A u \in SVs : status'[u] = "live" => status[u] = "live"
    BY DEF PinInv
  <2>. QED BY <2>1, <2>2, UnrefCurrent DEF RefInv
<1>3. JobInv'
  BY UnrefCurrent DEF JobInv
<1>. QED
  BY <1>1, <1>2, <1>3

\* The last user of a SuperVersion cleans it up.
LEMMA CleanupStep ==
  ASSUME LFInv, NEW t \in Threads, NEW s \in SVs, CleanupSuperVersion(t, s)
  PROVE  LFInv'
<1>. DEFINE obs == obsolete_files_ \cup Obsoleted(versions, versions')
            C == del'[t] \ del[t]
<1>1. /\ UNCHANGED <<pins, disk, current_next_file_number, job, erase, purge_files_, popped,
                     listed, background_purge, disable_delete_obsolete_files_>>
      /\ versions' = UnrefVersions(versions, {pins[s]})
      /\ CleanUp(s) /\ del[t] = {}
      /\ \/ FindObsoleteFiles(t, FALSE, versions', obs, job)
         \/ obsolete_files_' = obs /\ UNCHANGED <<files_grabbed_for_purge_, del>>
  BY DEF CleanupSuperVersion, NotPurging
<1>2. versions' \in Seq(Versions) /\ versions' # <<>> /\ obs \in SUBSET FileMetaData
  BY <1>1, UnrefCurrent DEF LFInv, TypeOK
<1>3. t \in Purgers /\ \A j \in Jobs : job[j].pending \in Nat
  BY JobParts DEF LFInv, Purgers
<1>. HIDE DEF obs
<1>4. /\ obsolete_files_' \subseteq obs /\ files_grabbed_for_purge_' \subseteq Nat
      /\ del' \in [Purgers -> SUBSET Nat] /\ \A q \in Purgers \ {t} : del'[q] = del[q]
      /\ Doomed' = Doomed \cup C
      /\ C # {} => ~ (disable_delete_obsolete_files_' > 0)
      /\ C \subseteq Numbers(obs) \cup disk /\ C \cap LiveNumbers(versions') = {}
      /\ \A f \in C : \A j \in Jobs : job[j].pending # 0 => f < job[j].pending
      /\ Numbers(obs) \subseteq Numbers(obsolete_files_') \cup C \cup LiveNumbers(versions')
  <2>1. CASE FindObsoleteFiles(t, FALSE, versions', obs, job)
    <3>1. C = del'[t]
      BY <1>1
    <3>. HIDE DEF C
    <3>2. TypeOK /\ del[t] = {} /\ UNCHANGED <<purge_files_, popped>>
      BY <1>1 DEF LFInv
    <3>3. /\ obsolete_files_' \subseteq obs /\ files_grabbed_for_purge_' \subseteq Nat
          /\ del' \in [Purgers -> SUBSET Nat] /\ \A q \in Purgers \ {t} : del'[q] = del[q]
          /\ Doomed' = Doomed \cup del'[t]
          /\ del'[t] # {} => ~ (disable_delete_obsolete_files_' > 0)
          /\ del'[t] \subseteq Numbers(obs) \cup disk
          /\ del'[t] \cap LiveNumbers(versions') = {}
          /\ \A f \in del'[t] : \A j \in Jobs : job[j].pending # 0 => f < job[j].pending
          /\ Numbers(obs) \subseteq Numbers(obsolete_files_') \cup del'[t] \cup LiveNumbers(versions')
      BY <1>2, <1>3, <2>1, <3>2, Found
    <3>. QED BY <3>1, <3>3
  <2>2. CASE obsolete_files_' = obs /\ UNCHANGED <<files_grabbed_for_purge_, del>>
    <3>1. C = {} /\ Doomed' = Doomed
      BY <1>1, <2>2 DEF Doomed
    <3>. HIDE DEF C
    <3>. QED BY <2>2, <3>1 DEF LFInv, TypeOK
  <2>. QED BY <1>1, <2>1, <2>2
<1>. HIDE DEF C
<1>5. TypeOK'
  BY <1>1, <1>2, <1>4 DEF LFInv, TypeOK
<1>6. PinInv' /\ RefInv' /\ JobInv'
  <2>1. \A j \in Jobs : del'[j] = del[j]
    BY <1>4, ThreadsAssumption DEF Purgers
  <2>. QED BY <1>1, <2>1, CleanedBook DEF LFInv, CleanUp, DBMutexFree
<1>7. FilesInv'
  <2>1. job' = job /\ disk' = disk /\ listed' \subseteq listed
    BY <1>1
  <2>2. listed' # {} => disable_delete_obsolete_files_' > 0
    BY <1>1 DEF LFInv, FilesInv, DoomedInv
  <2>3. obs = obsolete_files_ \cup Obsoleted(versions, versions')
    BY DEF obs
  <2>4. \A f \in C : \A j \in Jobs : job'[j].pending # 0 => f < job'[j].pending
    BY <1>4, <2>1
  <2>. QED BY <1>1, <1>4, <2>1, <2>2, <2>3, <2>4, GarbageStep DEF LFInv
<1>. QED
  BY <1>5, <1>6, <1>7 DEF LFInv

\* The installing thread drops the SuperVersion it has replaced.
LEMMA RetireStep ==
  ASSUME LFInv, RetireSuperVersion
  PROVE  LFInv'
<1>1. /\ UNCHANGED <<pins, disk, current_next_file_number, job, files_grabbed_for_purge_, del,
                     erase, purge_files_, popped, disable_delete_obsolete_files_, listed,
                     background_purge>>
      /\ Retire
      /\ versions' = UnrefVersions(versions, IF status' # status THEN {pins[retiring]} ELSE {})
      /\ obsolete_files_' = obsolete_files_ \cup Obsoleted(versions, versions')
  BY DEF RetireSuperVersion
<1>2. /\ versions' \in Seq(Versions) /\ versions' # <<>>
      /\ Obsoleted(versions, versions') \subseteq FileMetaData
  BY <1>1, UnrefCurrent DEF LFInv
<1>3. TypeOK'
  BY <1>1, <1>2 DEF LFInv, TypeOK
<1>4. PinInv' /\ RefInv' /\ JobInv'
  <2>1. CASE status' = status
    <3>1. versions' = versions
      BY <1>1, <2>1, UnrefNone DEF LFInv, TypeOK
    <3>2. PinInv'
      BY <1>1, <2>1 DEF LFInv, PinInv, Retire
    <3>3. RefInv' /\ JobInv'
      BY <1>1, <2>1, <3>1 DEF LFInv, RefInv, JobInv, Current
    <3>. QED BY <3>2, <3>3
  <2>2. CASE status' # status
    <3>1. /\ retiring \in SVs /\ status[retiring] = "live" /\ retiring # super_version_
          /\ Unpinned(retiring) /\ retiring' = None /\ status' = [status EXCEPT ![retiring] = "cleaned"]
          /\ UNCHANGED <<super_version_, pinned>>
      BY <1>1, <2>2 DEF Retire, LFInv, PinInv
    <3>2. versions' = UnrefVersions(versions, {pins[retiring]})
      BY <1>1, <2>2
    <3>3. \A j \in Jobs : del'[j] = del[j]
      BY <1>1
    <3>4. UNCHANGED <<super_version_, pinned, pins, job, current_next_file_number>>
      BY <1>1, <3>1
    <3>. QED BY <3>1, <3>2, <3>3, <3>4, CleanedBook DEF LFInv
  <2>. QED BY <2>1, <2>2
<1>5. FilesInv'
  BY <1>1, ObsoleteStep DEF LFInv
<1>. QED
  BY <1>3, <1>4, <1>5 DEF LFInv

\* A job that has failed drops its inputs and its Version.
LEMMA JobFailStep ==
  ASSUME LFInv, NEW j \in Jobs, JobFail(j)
  PROVE  LFInv'
<1>1. /\ UNCHANGED <<pinVars, pins, disk, current_next_file_number, files_grabbed_for_purge_,
                     del, erase, purge_files_, popped, disable_delete_obsolete_files_, listed,
                     background_purge>>
      /\ versions' = UnrefVersions(versions, {job[j].base})
      /\ obsolete_files_' = obsolete_files_ \cup Obsoleted(versions, versions')
      /\ job[j].pc = "run"
      /\ job' = [job EXCEPT ![j].pc = "failed", ![j].inputs = {}, ![j].base = 0]
  BY DEF JobFail
<1>2. /\ versions' \in Seq(Versions) /\ versions' # <<>> /\ Current' = Current
      /\ versions'[Current'].files = versions[Current].files
      /\ Obsoleted(versions, versions') \subseteq FileMetaData
  BY <1>1, UnrefCurrent DEF LFInv
<1>3. /\ job' \in [Jobs -> JobRecords]
      /\ job'[j].pc = "failed" /\ job'[j].inputs = {} /\ job'[j].base = 0
      /\ job'[j].output = job[j].output /\ job'[j].pending = job[j].pending
      /\ job'[j].kind = job[j].kind
      /\ \A k \in Jobs \ {j} : job'[k] = job[k]
  <2>1. job \in [Jobs -> JobRecords]
    BY DEF LFInv, TypeOK
  <2>. QED BY <1>1, <2>1 DEF JobRecords
<1>4. TypeOK'
  BY <1>1, <1>2, <1>3 DEF LFInv, TypeOK
<1>5. PinInv'
  BY <1>1 DEF LFInv, PinInv, pinVars
<1>6. RefInv'
  <2>1. Counts(versions', status, pins, job')
    BY <1>1, <1>3, DropJob DEF LFInv, TypeOK, RefInv
  <2>2. \A k \in Jobs : job'[k].base \in 0 .. Current
    <3>1. Current \in Nat /\ \A k \in Jobs : job[k].base \in 0 .. Current
      BY HeldIsLive DEF LFInv, RefInv
    <3>2. \A k \in Jobs : job'[k].base = 0 \/ job'[k].base = job[k].base
      BY <1>3
    <3>. QED BY <3>1, <3>2, SMTT(30)
  <2>. QED BY <1>1, <1>2, <2>1, <2>2 DEF LFInv, RefInv, pinVars
<1>7. JobInv'
  <2>1. JobOK(job'[j], del[j], versions[Current].files, current_next_file_number)
    BY <1>1, <1>3 DEF LFInv, JobInv, JobOK
  <2>2. \A k \in Jobs \ {j} : JobOK(job'[k], del[k], versions[Current].files, current_next_file_number)
    BY <1>3 DEF LFInv, JobInv
  <2>3. \A k, l \in Jobs : k # l => job'[k].inputs \cap job'[l].inputs = {}
    BY <1>3 DEF LFInv, JobInv
  <2>. QED BY <1>1, <1>2, <2>1, <2>2, <2>3 DEF JobInv
<1>8. FilesInv'
  <2>1. \A k \in Jobs : /\ job'[k].pending # 0 => job'[k].pending = job[k].pending
                        /\ job'[k].pc = "run" => job[k].pc = "run" /\ job'[k].output = job[k].output
    BY <1>3
  <2>. QED BY <1>1, <2>1, ObsoleteStep DEF LFInv
<1>. QED
  BY <1>4, <1>5, <1>6, <1>7, <1>8 DEF LFInv

\* The end of a job, with FindObsoleteFiles.
LEMMA JobFindStep ==
  ASSUME LFInv, NEW j \in Jobs, JobFind(j)
  PROVE  LFInv'
<1>. DEFINE obs == obsolete_files_ \cup Obsoleted(versions, versions')
            C == del'[j]
<1>1. /\ UNCHANGED <<pinVars, pins, disk, current_next_file_number, erase, purge_files_,
                     popped, listed, background_purge, disable_delete_obsolete_files_>>
      /\ versions' = UnrefVersions(versions, {job[j].base})
      /\ job[j].pc \in {"installed", "failed"} /\ job' = [job EXCEPT ![j] = NoJob]
  BY DEF JobFind
<1>2. PICK full : FindObsoleteFiles(j, full, versions', obs, job')
  BY DEF JobFind
<1>3. /\ versions' \in Seq(Versions) /\ versions' # <<>> /\ Current' = Current
      /\ versions'[Current'].files = versions[Current].files
      /\ obs \in SUBSET FileMetaData
  BY <1>1, UnrefCurrent DEF LFInv, TypeOK
<1>4. /\ job' \in [Jobs -> JobRecords] /\ job'[j] = NoJob
      /\ job'[j].pc = "idle" /\ job'[j].base = 0 /\ job'[j].inputs = {}
      /\ job'[j].output = 0 /\ job'[j].pending = 0
      /\ \A k \in Jobs \ {j} : job'[k] = job[k]
  <2>1. job \in [Jobs -> JobRecords]
    BY DEF LFInv, TypeOK
  <2>2. NoJob \in JobRecords
    BY DEF JobRecords, NoJob
  <2>3. /\ NoJob.pc = "idle" /\ NoJob.base = 0 /\ NoJob.inputs = {}
        /\ NoJob.output = 0 /\ NoJob.pending = 0
    BY DEF NoJob
  <2>. QED BY <1>1, <2>1, <2>2, <2>3
<1>5. j \in Purgers /\ del[j] = {} /\ \A k \in Jobs : job'[k].pending \in Nat
  <2>1. del[j] = {}
    BY <1>1 DEF LFInv, JobInv, JobOK
  <2>. QED BY <1>4, <2>1 DEF Purgers, JobRecords
<1>. HIDE DEF obs
<1>6. /\ obsolete_files_' \subseteq obs /\ files_grabbed_for_purge_' \subseteq Nat
      /\ del' \in [Purgers -> SUBSET Nat] /\ \A q \in Purgers \ {j} : del'[q] = del[q]
      /\ Doomed' = Doomed \cup C
      /\ C # {} => ~ (disable_delete_obsolete_files_' > 0)
      /\ C \subseteq Numbers(obs) \cup disk /\ C \cap LiveNumbers(versions') = {}
      /\ \A f \in C : \A k \in Jobs : job'[k].pending # 0 => f < job'[k].pending
      /\ Numbers(obs) \subseteq Numbers(obsolete_files_') \cup C \cup LiveNumbers(versions')
  <2>1. TypeOK /\ UNCHANGED <<purge_files_, popped>>
    BY <1>1 DEF LFInv
  <2>. QED BY <1>2, <1>3, <1>5, <2>1, Found, SMTT(30)
<1>. HIDE DEF C
<1>7. TypeOK'
  BY <1>1, <1>3, <1>4, <1>6 DEF LFInv, TypeOK
<1>8. PinInv'
  BY <1>1 DEF LFInv, PinInv, pinVars
<1>9. RefInv'
  <2>1. job'[j].base = 0 /\ \A k \in Jobs \ {j} : job'[k].base = job[k].base
    BY <1>4
  <2>2. Counts(versions', status, pins, job')
    BY <1>1, <2>1, DropJob DEF LFInv, TypeOK, RefInv
  <2>3. \A k \in Jobs : job'[k].base \in 0 .. Current
    <3>1. Current \in Nat /\ \A k \in Jobs : job[k].base \in 0 .. Current
      BY HeldIsLive DEF LFInv, RefInv
    <3>2. \A k \in Jobs : job'[k].base = 0 \/ job'[k].base = job[k].base
      BY <2>1
    <3>. QED BY <3>1, <3>2, SMTT(30)
  <2>. QED BY <1>1, <1>3, <2>2, <2>3 DEF LFInv, RefInv, pinVars
<1>10. JobInv'
  <2>1. JobOK(job'[j], del'[j], versions[Current].files, current_next_file_number)
    BY <1>4 DEF JobOK
  <2>2. \A k \in Jobs \ {j} : JobOK(job'[k], del'[k], versions[Current].files, current_next_file_number)
    BY <1>4, <1>6 DEF LFInv, JobInv, Purgers
  <2>3. \A k, l \in Jobs : k # l => job'[k].inputs \cap job'[l].inputs = {}
    BY <1>4 DEF LFInv, JobInv
  <2>. QED BY <1>1, <1>3, <2>1, <2>2, <2>3 DEF JobInv
<1>11. FilesInv'
  <2>1. \A k \in Jobs : /\ job'[k].pending # 0 => job'[k].pending = job[k].pending
                        /\ job'[k].pc = "run" => job[k].pc = "run" /\ job'[k].output = job[k].output
    BY <1>4
  <2>2. listed' # {} => disable_delete_obsolete_files_' > 0
    BY <1>1 DEF LFInv, FilesInv, DoomedInv
  <2>3. obs = obsolete_files_ \cup Obsoleted(versions, versions')
    BY DEF obs
  <2>. QED BY <1>1, <1>6, <2>1, <2>2, <2>3, GarbageStep DEF LFInv
<1>. QED
  BY <1>7, <1>8, <1>9, <1>10, <1>11 DEF LFInv

\* Version::Ref of a Version that is live anyhow.
LEMMA Referenced ==
  ASSUME NEW vs \in Seq(Versions), vs # <<>>, vs[Len(vs)].refs > 0,
         NEW ws, ws = [vs EXCEPT ![Len(vs)].refs = @ + 1]
  PROVE  /\ ws \in Seq(Versions) /\ ws # <<>> /\ Len(ws) = Len(vs)
         /\ ws[Len(ws)].files = vs[Len(vs)].files
         /\ LiveNumbers(ws) = LiveNumbers(vs) /\ Installed(ws) = Installed(vs)
<1>0. /\ Len(vs) \in Nat \ {0} /\ DOMAIN vs = 1 .. Len(vs)
      /\ vs[Len(vs)] \in Versions /\ vs[Len(vs)].refs \in Int
  BY VersionParts, SMTT(30)
<1>1. /\ ws \in [1 .. Len(vs) -> Versions]
      /\ \A i \in 1 .. Len(vs) : /\ ws[i].files = vs[i].files
                                 /\ ws[i].refs = IF i = Len(vs) THEN vs[i].refs + 1 ELSE vs[i].refs
  <2>. DEFINE r == [vs[Len(vs)] EXCEPT !.refs = @ + 1]
  <2>1. r \in Versions /\ r.files = vs[Len(vs)].files /\ r.refs = vs[Len(vs)].refs + 1
    BY <1>0, SMTT(30) DEF Versions
  <2>2. ws = [vs EXCEPT ![Len(vs)] = r]
    OBVIOUS
  <2>. HIDE DEF r
  <2>. QED BY <1>0, <2>1, <2>2, SMTT(30)
<1>2. ws \in Seq(Versions) /\ Len(ws) = Len(vs) /\ ws # <<>>
  BY <1>0, <1>1, SMTT(30)
<1>3. \A i \in 1 .. Len(vs) : ws[i].refs > 0 <=> vs[i].refs > 0
  BY <1>0, <1>1, SMTT(30)
<1>4. Metas(ws) = Metas(vs)
  <2>1. \A m : m \in Metas(ws) <=> \E i \in 1 .. Len(vs) : vs[i].refs > 0 /\ m \in vs[i].files
    BY <1>1, <1>2, <1>3, MetasOf
  <2>2. \A m : m \in Metas(vs) <=> \E i \in 1 .. Len(vs) : vs[i].refs > 0 /\ m \in vs[i].files
    BY MetasOf
  <2>. QED BY <2>1, <2>2
<1>5. Installed(ws) = Installed(vs)
  <2>1. \A f : f \in Installed(ws) <=> \E i \in 1 .. Len(vs) : f \in Numbers(vs[i].files)
    BY <1>1, <1>2, InstalledIn
  <2>2. \A f : f \in Installed(vs) <=> \E i \in 1 .. Len(vs) : f \in Numbers(vs[i].files)
    BY InstalledIn
  <2>. QED BY <2>1, <2>2
<1>. QED
  BY <1>0, <1>1, <1>2, <1>4, <1>5, SMTT(30) DEF LiveNumbers

\* A job begins.
LEMMA JobStartStep ==
  ASSUME LFInv, NEW j \in Jobs, NEW kind \in {"flush", "compact", "move"},
         NEW inputs \in SUBSET versions[Current].files, JobStart(j, kind, inputs)
  PROVE  LFInv'
<1>. DEFINE new == [pc |-> "run", kind |-> kind, base |-> Current, inputs |-> inputs,
                    output |-> 0, pending |-> current_next_file_number]
<1>1. /\ UNCHANGED <<pinVars, pins, disk, obsolete_files_, current_next_file_number,
                     files_grabbed_for_purge_, del, erase, purge_files_, popped,
                     disable_delete_obsolete_files_, listed, background_purge>>
      /\ versions' = [versions EXCEPT ![Current].refs = @ + 1]
      /\ job[j].pc = "idle" /\ del[j] = {} /\ job' = [job EXCEPT ![j] = new]
      /\ inputs \cap BeingCompacted = {}
  BY DEF JobStart
<1>2. /\ versions \in Seq(Versions) /\ versions # <<>> /\ Current = Len(versions)
      /\ Current \in Nat \ {0} /\ versions[Current].refs > 0
  BY HeldIsLive DEF LFInv, TypeOK, Current
<1>3. /\ versions' \in Seq(Versions) /\ versions' # <<>> /\ Current' = Current
      /\ versions'[Current'].files = versions[Current].files
      /\ LiveNumbers(versions') = LiveNumbers(versions)
      /\ Installed(versions') = Installed(versions)
  BY <1>1, <1>2, Referenced DEF Current
<1>4. job[j].base = 0
  <2>1. job[j] = NoJob
    BY <1>1 DEF LFInv, JobInv, JobOK
  <2>2. NoJob.base = 0
    BY DEF NoJob
  <2>. QED BY <2>1, <2>2
<1>5. new \in JobRecords
  <2>1. inputs \subseteq FileMetaData
    BY <1>2, VersionParts, SMTT(30)
  <2>. QED BY <1>2, <2>1, NextNumber DEF LFInv, JobRecords
<1>6. /\ new.pc = "run" /\ new.kind # "" /\ new.base = Current /\ new.inputs = inputs
      /\ new.output = 0 /\ new.pending = current_next_file_number
  BY Zenon
<1>. HIDE DEF new
<1>7. job' \in [Jobs -> JobRecords] /\ job'[j] = new /\ \A k \in Jobs \ {j} : job'[k] = job[k]
  BY <1>1, <1>5 DEF LFInv, TypeOK
<1>8. TypeOK'
  BY <1>1, <1>3, <1>7 DEF LFInv, TypeOK
<1>9. PinInv'
  BY <1>1 DEF LFInv, PinInv, pinVars
<1>10. RefInv'
  <2>1. job'[j].base = Len(versions) /\ \A k \in Jobs \ {j} : job'[k].base = job[k].base
    BY <1>2, <1>6, <1>7
  <2>2. Counts(versions', status, pins, job')
    BY <1>1, <1>2, <1>4, <2>1, AddJob DEF LFInv, RefInv
  <2>3. \A k \in Jobs : job'[k].base \in 0 .. Current
    BY <1>2, <2>1, SMTT(30) DEF LFInv, RefInv
  <2>. QED BY <1>1, <1>3, <2>2, <2>3 DEF LFInv, RefInv, pinVars
<1>11. JobInv'
  <2>1. JobOK(job'[j], del[j], versions[Current].files, current_next_file_number)
    <3>1. current_next_file_number \in 1 .. current_next_file_number
      BY NextNumber, SMTT(30) DEF LFInv
    <3>. QED BY <1>1, <1>2, <1>6, <1>7, <3>1 DEF JobOK
  <2>2. \A k \in Jobs \ {j} : JobOK(job'[k], del[k], versions[Current].files, current_next_file_number)
    BY <1>7 DEF LFInv, JobInv
  <2>3. \A k \in Jobs : inputs \cap job[k].inputs = {}
    BY <1>1, SMTT(30) DEF BeingCompacted
  <2>4. \A k, l \in Jobs : k # l => job'[k].inputs \cap job'[l].inputs = {}
    BY <1>6, <1>7, <2>3 DEF LFInv, JobInv
  <2>. QED BY <1>1, <1>3, <2>1, <2>2, <2>4 DEF JobInv
<1>12. FilesInv'
  <2>1. Doomed' = Doomed /\ Known' = Known
    BY <1>1 DEF Doomed, Known
  <2>2. NumberInv' /\ ListedFilesAreKept' /\ Remembered'
    BY <1>1, <1>3, <2>1 DEF LFInv, FilesInv, NumberInv, ListedFilesAreKept, Remembered
  <2>3. OutputsAreKept'
    BY <1>1, <1>6, <1>7 DEF LFInv, FilesInv, OutputsAreKept
  <2>4. \A f \in Doomed : f < current_next_file_number
    BY NextNumber, SMTT(30) DEF LFInv, FilesInv, NumberInv, Known
  <2>5. DoomedInv'
    BY <1>1, <1>3, <1>6, <1>7, <2>1, <2>4 DEF LFInv, FilesInv, DoomedInv
  <2>. QED BY <2>2, <2>3, <2>5 DEF FilesInv
<1>. QED
  BY <1>8, <1>9, <1>10, <1>11, <1>12 DEF LFInv

\* A job creates its output.
LEMMA JobCreateStep ==
  ASSUME LFInv, NEW j \in Jobs, JobCreate(j)
  PROVE  LFInv'
<1>. DEFINE n == current_next_file_number
<1>1. /\ UNCHANGED <<pinVars, versions, pins, obsolete_files_, files_grabbed_for_purge_, del,
                     erase, purge_files_, popped, disable_delete_obsolete_files_, listed,
                     background_purge>>
      /\ job[j].pc = "run" /\ n <= MaxFile
      /\ job' = [job EXCEPT ![j].output = n] /\ disk' = disk \cup {n}
      /\ current_next_file_number' = n + 1
  BY DEF JobCreate
<1>2. n \in Nat \ {0} /\ n + 1 \in 1 .. MaxFile + 1
  BY <1>1, NextNumber, SMTT(30) DEF LFInv
<1>3. /\ job' \in [Jobs -> JobRecords] /\ \A k \in Jobs \ {j} : job'[k] = job[k]
      /\ job'[j].pc = "run" /\ job'[j].kind = job[j].kind /\ job'[j].base = job[j].base
      /\ job'[j].inputs = job[j].inputs /\ job'[j].output = n /\ job'[j].pending = job[j].pending
  <2>1. job \in [Jobs -> JobRecords]
    BY DEF LFInv, TypeOK
  <2>. QED BY <1>1, <1>2, <2>1 DEF JobRecords
<1>4. TypeOK'
  BY <1>1, <1>2, <1>3 DEF LFInv, TypeOK
<1>5. PinInv'
  BY <1>1 DEF LFInv, PinInv, pinVars
<1>6. RefInv'
  <2>1. \A k \in Jobs : job'[k].base = job[k].base
    BY <1>3
  <2>2. \A i : JobsOf(job', i) = JobsOf(job, i)
    BY <2>1 DEF JobsOf
  <2>3. Counts(versions, status, pins, job')
    BY <2>2 DEF LFInv, RefInv, Counts
  <2>. QED BY <1>1, <2>1, <2>3 DEF LFInv, RefInv, Current, pinVars
<1>7. JobInv'
  <2>1. \A k \in Jobs \ {j} : JobOK(job'[k], del[k], versions[Current].files, n + 1)
    <3>. SUFFICES ASSUME NEW k \in Jobs \ {j}
                  PROVE  JobOK(job[k], del[k], versions[Current].files, n + 1)
      BY <1>3
    <3>1. JobOK(job[k], del[k], versions[Current].files, n)
      BY DEF LFInv, JobInv
    <3>2. job[k].pending \in Nat /\ job[k].output \in Nat
      BY JobParts DEF LFInv
    <3>3. 1 .. n \subseteq 1 .. n + 1 /\ job[k].pending .. n - 1 \subseteq job[k].pending .. (n + 1) - 1
      BY <1>2, <3>2, SMTT(30)
    <3>. QED BY <3>1, <3>3 DEF JobOK
  <2>2. JobOK(job'[j], del[j], versions[Current].files, n + 1)
    <3>1. JobOK(job[j], del[j], versions[Current].files, n)
      BY DEF LFInv, JobInv
    <3>2. job[j].pending \in Nat
      BY JobParts DEF LFInv
    <3>3. 1 .. n \subseteq 1 .. n + 1 /\ job[j].pending .. n - 1 \subseteq job[j].pending .. (n + 1) - 1
      BY <1>2, <3>2, SMTT(30)
    <3>4. n \in job[j].pending .. (n + 1) - 1
      <4>1. job[j].pending \in 1 .. n
        BY <1>1, <3>1 DEF JobOK
      <4>. QED BY <1>2, <3>2, <4>1, SMTT(30)
    <3>. QED BY <1>1, <1>3, <3>1, <3>3, <3>4 DEF JobOK
  <2>3. \A k, l \in Jobs : k # l => job'[k].inputs \cap job'[l].inputs = {}
    BY <1>3, SMTT(30) DEF LFInv, JobInv
  <2>. QED BY <1>1, <2>1, <2>2, <2>3 DEF JobInv, Current
<1>8. FilesInv'
  <2>1. Doomed' = Doomed /\ Known \subseteq Known' /\ n \in Known' /\ n \notin Known
    BY <1>1, <1>2, SMTT(30) DEF Doomed, Known
  <2>2. NumberInv' /\ ListedFilesAreKept' /\ Remembered'
    BY <1>1, <2>1 DEF LFInv, FilesInv, NumberInv, ListedFilesAreKept, Remembered
  <2>3. OutputsAreKept'
    BY <1>1, <1>3, SMTT(30) DEF LFInv, FilesInv, OutputsAreKept
  <2>4. DoomedInv'
    BY <1>1, <1>3, <2>1 DEF LFInv, FilesInv, DoomedInv
  <2>. QED BY <2>2, <2>3, <2>4 DEF FilesInv
<1>. QED
  BY <1>4, <1>5, <1>6, <1>7, <1>8 DEF LFInv

\* AppendVersion: the live files are those that were, and those of the new
\* Version.
LEMMA Appended ==
  ASSUME NEW us \in Seq(Versions), NEW v \in Versions, v.refs > 0
  PROVE  /\ Append(us, v) \in Seq(Versions) /\ Append(us, v) # <<>>
         /\ Len(Append(us, v)) = Len(us) + 1 /\ Append(us, v)[Len(us) + 1] = v
         /\ LiveNumbers(Append(us, v)) = LiveNumbers(us) \cup Numbers(v.files)
         /\ Installed(Append(us, v)) = Installed(us) \cup Numbers(v.files)
<1>. DEFINE ws == Append(us, v)
<1>1. /\ ws \in Seq(Versions) /\ ws # <<>> /\ Len(us) \in Nat
      /\ Len(ws) = Len(us) + 1 /\ ws[Len(us) + 1] = v
      /\ \A i \in 1 .. Len(us) : ws[i] = us[i]
  <2>1. Len(us) \in Nat /\ ws \in Seq(Versions)
    BY SMTT(30)
  <2>2. Len(ws) = Len(us) + 1 /\ ws[Len(us) + 1] = v
    BY <2>1, SMTT(30)
  <2>3. \A i \in 1 .. Len(us) : ws[i] = us[i]
    BY <2>1, SMTT(30)
  <2>4. ws # <<>>
    BY <2>1, <2>2, SMTT(30)
  <2>. HIDE DEF ws
  <2>. QED BY <2>1, <2>2, <2>3, <2>4
<1>. HIDE DEF ws
<1>2. \A i : i \in 1 .. Len(ws) <=> i \in 1 .. Len(us) \/ i = Len(us) + 1
  BY <1>1, SMTT(30)
<1>3. Metas(ws) = Metas(us) \cup v.files
  <2>1. \A m : m \in Metas(ws) <=> \E i \in 1 .. Len(ws) : ws[i].refs > 0 /\ m \in ws[i].files
    BY <1>1, MetasOf
  <2>2. \A m : m \in Metas(us) <=> \E i \in 1 .. Len(us) : us[i].refs > 0 /\ m \in us[i].files
    BY MetasOf
  <2>3. \A m : (\E i \in 1 .. Len(ws) : ws[i].refs > 0 /\ m \in ws[i].files)
                 <=> (\E i \in 1 .. Len(us) : us[i].refs > 0 /\ m \in us[i].files) \/ m \in v.files
    BY <1>1, <1>2
  <2>. QED BY <2>1, <2>2, <2>3
<1>4. Installed(ws) = Installed(us) \cup Numbers(v.files)
  <2>1. \A f : f \in Installed(ws) <=> \E i \in 1 .. Len(ws) : f \in Numbers(ws[i].files)
    BY <1>1, InstalledIn
  <2>2. \A f : f \in Installed(us) <=> \E i \in 1 .. Len(us) : f \in Numbers(us[i].files)
    BY InstalledIn
  <2>3. \A f : (\E i \in 1 .. Len(ws) : f \in Numbers(ws[i].files))
                 <=> (\E i \in 1 .. Len(us) : f \in Numbers(us[i].files)) \/ f \in Numbers(v.files)
    BY <1>1, <1>2
  <2>. QED BY <2>1, <2>2, <2>3
<1>5. LiveNumbers(ws) = LiveNumbers(us) \cup Numbers(v.files)
  BY <1>3 DEF LiveNumbers, Numbers
<1>. QED
  BY <1>1, <1>4, <1>5 DEF ws

\* What a job installs: files of the current Version and its own output.
LEMMA OutputsOf ==
  ASSUME LFInv, NEW j \in Jobs, job[j].pc = "run", job[j].kind = "flush" => job[j].output # 0
  PROVE  /\ Outputs(j) \subseteq FileMetaData
         /\ Numbers(Outputs(j)) \subseteq Numbers(job[j].inputs) \cup ({job[j].output} \ {0})
<1>1. /\ job[j].kind \in {"flush", "compact", "move"} /\ job[j].output \in Nat
      /\ job[j].inputs \subseteq FileMetaData
  BY JobParts DEF LFInv, JobInv, JobOK
<1>2. CASE job[j].kind = "move"
  <2>1. Outputs(j) = {<<m[1], 1>> : m \in job[j].inputs}
    BY <1>2 DEF Outputs
  <2>2. \A m \in job[j].inputs : m[1] \in Nat
    BY <1>1 DEF FileMetaData
  <2>3. Outputs(j) \subseteq FileMetaData
    BY <2>1, <2>2, SMTT(30) DEF FileMetaData
  <2>4. Numbers(Outputs(j)) \subseteq Numbers(job[j].inputs)
    BY <2>1, SMTT(30) DEF Numbers
  <2>. QED BY <2>3, <2>4
<1>3. CASE job[j].kind = "flush"
  <2>1. Outputs(j) = {<<job[j].output, 0>>} /\ job[j].output # 0
    BY <1>3 DEF Outputs
  <2>. QED BY <1>1, <2>1, SMTT(30) DEF Numbers, FileMetaData
<1>4. CASE job[j].kind = "compact" /\ job[j].output # 0
  <2>1. Outputs(j) = {<<job[j].output, 1>>}
    BY <1>4 DEF Outputs
  <2>. QED BY <1>1, <1>4, <2>1, SMTT(30) DEF Numbers, FileMetaData
<1>5. CASE job[j].kind = "compact" /\ job[j].output = 0
  <2>1. Outputs(j) = {}
    BY <1>5 DEF Outputs
  <2>. QED BY <2>1 DEF Numbers
<1>. QED
  BY <1>1, <1>2, <1>3, <1>4, <1>5

\* A job installs its result and, with it, a SuperVersion.
LEMMA JobCommitStep ==
  ASSUME LFInv, NEW j \in Jobs, NEW s \in SVs, JobCommit(j, s)
  PROVE  LFInv'
<1>. DEFINE b  == IF job[j].kind = "flush" THEN {job[j].base} ELSE {}
            vs == UnrefVersions(versions, b)
            us == UnrefVersions(vs, {Current})
            fs == (vs[Current].files \ job[j].inputs) \cup Outputs(j)
            v  == [files |-> fs, refs |-> 2]
            F  == versions[Current].files
            n  == current_next_file_number
<1>1. /\ UNCHANGED <<disk, current_next_file_number, files_grabbed_for_purge_, del, erase,
                     purge_files_, popped, disable_delete_obsolete_files_, listed,
                     background_purge>>
      /\ job[j].pc = "run" /\ (job[j].kind = "flush" => job[j].output # 0)
      /\ Install(s)
      /\ obsolete_files_' = obsolete_files_ \cup Obsoleted(versions, versions')
      /\ pins' = [pins EXCEPT ![s] = Current + 1]
      /\ job' = [job EXCEPT ![j].pc = "installed", ![j].inputs = {},
                            ![j].base = IF job[j].kind = "flush" THEN 0 ELSE @]
  BY DEF JobCommit
<1>2. versions' = Append(us, v)
  BY DEF JobCommit
<1>3. /\ versions \in Seq(Versions) /\ versions # <<>> /\ Current = Len(versions)
      /\ Current \in Nat \ {0} /\ versions[Current].refs > 0
  BY HeldIsLive DEF LFInv, TypeOK, Current
<1>4. /\ vs \in Seq(Versions) /\ Len(vs) = Len(versions) /\ vs[Current].files = F
      /\ us \in Seq(Versions) /\ Len(us) = Len(versions) /\ vs # <<>>
  <2>1. vs \in Seq(Versions) /\ Len(vs) = Len(versions) /\ vs[Current].files = F
    BY <1>3, Unreferenced, SMTT(30)
  <2>. HIDE DEF vs
  <2>2. us \in Seq(Versions) /\ Len(us) = Len(vs)
    BY <2>1, Unreferenced
  <2>. QED BY <1>3, <2>1, <2>2
<1>5. /\ LiveNumbers(us) \subseteq LiveNumbers(versions)
      /\ Installed(us) = Installed(versions)
  <2>1. LiveNumbers(vs) \subseteq LiveNumbers(versions) /\ Installed(vs) = Installed(versions)
    BY <1>3, Dying
  <2>. HIDE DEF vs
  <2>2. LiveNumbers(us) \subseteq LiveNumbers(vs) /\ Installed(us) = Installed(vs)
    BY <1>4, Dying
  <2>. QED BY <2>1, <2>2
<1>6. /\ Outputs(j) \subseteq FileMetaData /\ F \subseteq FileMetaData
      /\ Numbers(Outputs(j)) \subseteq Numbers(job[j].inputs) \cup ({job[j].output} \ {0})
  BY <1>1, <1>3, OutputsOf, VersionParts, SMTT(30)
<1>7. v \in Versions /\ v.refs > 0 /\ v.files = fs /\ fs = (F \ job[j].inputs) \cup Outputs(j)
      /\ fs \in SUBSET FileMetaData
  <2>. HIDE DEF vs, F
  <2>1. fs = (F \ job[j].inputs) \cup Outputs(j)
    BY <1>4
  <2>2. fs \in SUBSET FileMetaData
    BY <1>6, <2>1
  <2>. HIDE DEF fs
  <2>3. v \in Versions /\ v.refs > 0 /\ v.files = fs
    BY <2>2, SMTT(30) DEF Versions
  <2>. QED BY <2>1, <2>2, <2>3
<1>8. /\ versions' \in Seq(Versions) /\ versions' # <<>>
      /\ Len(versions') = Len(versions) + 1 /\ versions'[Len(versions')] = v
      /\ LiveNumbers(versions') = LiveNumbers(us) \cup Numbers(fs)
      /\ Installed(versions') = Installed(versions) \cup Numbers(fs)
  <2>. HIDE DEF vs, us, v, fs, F
  <2>1. us \in Seq(Versions) /\ v \in Versions /\ v.refs > 0
    BY <1>4, <1>7
  <2>2. /\ versions' \in Seq(Versions) /\ versions' # <<>>
        /\ Len(versions') = Len(us) + 1 /\ versions'[Len(us) + 1] = v
        /\ LiveNumbers(versions') = LiveNumbers(us) \cup Numbers(v.files)
        /\ Installed(versions') = Installed(us) \cup Numbers(v.files)
    BY <1>2, <2>1, Appended
  <2>. QED BY <1>4, <1>5, <1>7, <2>2
<1>9. /\ job' \in [Jobs -> JobRecords] /\ \A k \in Jobs \ {j} : job'[k] = job[k]
      /\ job'[j].pc = "installed" /\ job'[j].kind = job[j].kind
      /\ job'[j].base = (IF job[j].kind = "flush" THEN 0 ELSE job[j].base)
      /\ job'[j].inputs = {} /\ job'[j].output = job[j].output /\ job'[j].pending = job[j].pending
  <2>1. job \in [Jobs -> JobRecords]
    BY DEF LFInv, TypeOK
  <2>. QED BY <1>1, <2>1 DEF JobRecords
<1>10. /\ status[s] = "unborn" /\ status' = [status EXCEPT ![s] = "live"]
       /\ super_version_' = s /\ retiring' = super_version_ /\ pinned' = pinned
  BY <1>1 DEF Install
<1>. HIDE DEF fs, F
<1>11. TypeOK'
  <2>1. pins' \in [SVs -> Nat]
    BY <1>1, <1>3, SMTT(30) DEF LFInv, TypeOK
  <2>2. Obsoleted(versions, versions') \subseteq FileMetaData
    <3>1. \A m \in Metas(versions) : m \in FileMetaData
      <4>. SUFFICES ASSUME NEW m \in Metas(versions) PROVE m \in FileMetaData
        OBVIOUS
      <4>1. PICK i \in 1 .. Len(versions) : m \in versions[i].files
        BY <1>3, MetasOf
      <4>. QED BY <1>3, <4>1, VersionParts
    <3>. QED BY <3>1 DEF Obsoleted
  <2>. QED BY <1>1, <1>8, <1>9, <2>1, <2>2 DEF LFInv, TypeOK
<1>12. PinInv'
  BY <1>10 DEF LFInv, PinInv
<1>13. RefInv'
  <2>1. /\ \A u \in SVs : status[u] = "live" => pins[u] \in 1 .. Len(versions)
        /\ \A k \in Jobs : job[k].base \in 0 .. Len(versions)
        /\ Counts(versions, status, pins, job)
    BY <1>3 DEF LFInv, RefInv
  <2>2. Counts(vs, status, pins, job')
    <3>1. CASE job[j].kind = "flush"
      <4>1. job'[j].base = 0 /\ \A k \in Jobs \ {j} : job'[k].base = job[k].base
        BY <1>9, <3>1
      <4>2. vs = UnrefVersions(versions, {job[j].base})
        BY <3>1
      <4>. HIDE DEF vs
      <4>. QED BY <1>3, <2>1, <4>1, <4>2, DropJob
    <3>2. CASE job[j].kind # "flush"
      <4>1. \A k \in Jobs : job'[k].base = job[k].base
        BY <1>9, <3>2
      <4>2. \A i : JobsOf(job', i) = JobsOf(job, i)
        BY <4>1 DEF JobsOf
      <4>3. vs = versions
        BY <1>3, <3>2, UnrefNone
      <4>. HIDE DEF vs
      <4>. QED BY <2>1, <4>2, <4>3 DEF Counts
    <3>. QED BY <3>1, <3>2
  <2>3. \A k \in Jobs : job'[k].base \in 0 .. Len(versions)
    <3>1. \A k \in Jobs : job'[k].base = 0 \/ job'[k].base = job[k].base
      BY <1>9
    <3>. QED BY <1>3, <2>1, <3>1, SMTT(30)
  <2>4. Counts(versions', status', pins', job')
    <3>1. us = UnrefVersions(vs, {Len(vs)}) /\ Current + 1 = Len(vs) + 1
      BY <1>3, <1>4
    <3>2. status \in [SVs -> {"unborn", "live", "cleaned"}] /\ pins \in [SVs -> Nat]
      BY DEF LFInv, PinInv, TypeOK
    <3>. HIDE DEF vs, us
    <3>. QED BY <1>1, <1>2, <1>4, <1>7, <1>10, <2>1, <2>2, <2>3, <3>1, <3>2, AddVersion
  <2>5. \A u \in SVs : status'[u] = "live" => pins'[u] \in 1 .. Len(versions) + 1
    <3>1. \A u \in SVs \ {s} : status'[u] = status[u] /\ pins'[u] = pins[u]
      BY <1>1, <1>10 DEF LFInv, PinInv, TypeOK
    <3>2. pins'[s] = Len(versions) + 1
      BY <1>1, <1>3 DEF LFInv, TypeOK
    <3>. QED BY <1>3, <2>1, <3>1, <3>2, SMTT(30)
  <2>6. \A k \in Jobs : job'[k].base \in 0 .. Len(versions) + 1
    BY <1>3, <2>3, SMTT(30)
  <2>. QED BY <1>8, <2>4, <2>5, <2>6 DEF RefInv, Current
<1>14. JobInv'
  <2>1. \A k \in Jobs : JobOK(job[k], del[k], F, n)
    BY DEF LFInv, JobInv, F
  <2>2. \A k, l \in Jobs : k # l => job[k].inputs \cap job[l].inputs = {}
    BY DEF LFInv, JobInv
  <2>3. JobOK(job'[j], del[j], fs, n)
    BY <1>1, <1>9, <2>1 DEF JobOK
  <2>4. \A k \in Jobs \ {j} : JobOK(job'[k], del[k], fs, n)
    <3>. SUFFICES ASSUME NEW k \in Jobs \ {j} PROVE JobOK(job[k], del[k], fs, n)
      BY <1>9
    <3>1. job[k].inputs \subseteq F /\ job[k].inputs \cap job[j].inputs = {}
      BY <2>1, <2>2 DEF JobOK
    <3>2. job[k].inputs \subseteq fs
      BY <1>7, <3>1
    <3>. QED BY <2>1, <3>2 DEF JobOK
  <2>5. \A k, l \in Jobs : k # l => job'[k].inputs \cap job'[l].inputs = {}
    BY <1>9, <2>2
  <2>6. versions'[Current'].files = fs
    BY <1>7, <1>8 DEF Current
  <2>. QED BY <1>1, <2>3, <2>4, <2>5, <2>6 DEF JobInv
<1>15. FilesInv'
  <2>. DEFINE L == LiveNumbers(versions)
              N == Numbers(Obsoleted(versions, versions'))
              o == job[j].output
  <2>. HIDE DEF v, us, vs, n
  <2>1. L \subseteq LiveNumbers(versions') \cup N /\ N \subseteq L
    BY DEF Obsoleted, LiveNumbers, Numbers
  <2>2. Numbers(obsolete_files_') = Numbers(obsolete_files_) \cup N
    BY <1>1 DEF Numbers
  <2>3. Numbers(fs) \subseteq L \cup ({o} \ {0})
    <3>1. Numbers(F) \subseteq L /\ job[j].inputs \subseteq F
      BY CurrentIsLive DEF LFInv, JobInv, JobOK, F
    <3>2. Numbers(fs) \subseteq Numbers(F) \cup Numbers(Outputs(j)) /\ Numbers(job[j].inputs) \subseteq Numbers(F)
      BY <1>7, <3>1 DEF Numbers
    <3>. QED BY <1>6, <3>1, <3>2
  <2>4. o # 0 => o \in disk /\ o \notin Doomed
    <3>. SUFFICES ASSUME o # 0 PROVE o \in disk /\ o \notin Doomed
      OBVIOUS
    <3>1. o \in disk
      BY <1>1 DEF LFInv, FilesInv, OutputsAreKept
    <3>2. job[j].pending \in 1 .. n /\ o \in job[j].pending .. n - 1
      BY <1>1 DEF LFInv, JobInv, JobOK, n
    <3>3. job[j].pending \in Nat /\ n \in Nat
      BY JobParts, NextNumber DEF LFInv, n
    <3>4. job[j].pending # 0 /\ o >= job[j].pending /\ o \in Nat
      BY <3>2, <3>3, SMTT(30)
    <3>5. \A f \in Doomed : f < job[j].pending
      BY <3>4 DEF LFInv, FilesInv, DoomedInv
    <3>. QED BY <3>1, <3>3, <3>4, <3>5, SMTT(30)
  <2>5. /\ LiveNumbers(versions') \subseteq L \cup ({o} \ {0})
        /\ Numbers(fs) \subseteq LiveNumbers(versions')
    BY <1>5, <1>8, <2>3
  <2>6. Doomed' = Doomed /\ Known' = Known
    BY <1>1 DEF Doomed, Known
  <2>7. /\ L \subseteq disk /\ Doomed \cap (L \cup listed) = {}
        /\ disk \cup Doomed \cup Numbers(obsolete_files_) \cup Installed(versions) \subseteq Known
        /\ disk \cap Installed(versions) \subseteq L \cup Numbers(obsolete_files_) \cup Doomed
    BY DEF LFInv, FilesInv, DoomedInv, NumberInv, Remembered
  <2>. HIDE DEF L, N, o
  <2>8. NumberInv'
    <3>1. disk \cup Doomed \cup (Numbers(obsolete_files_) \cup N)
            \cup (Installed(versions) \cup Numbers(fs)) \subseteq Known
      BY <2>1, <2>3, <2>4, <2>7
    <3>. QED BY <1>1, <1>8, <2>2, <2>6, <3>1 DEF NumberInv
  <2>9. DoomedInv'
    <3>1. /\ LiveNumbers(versions') \subseteq disk
          /\ Doomed \cap (LiveNumbers(versions') \cup listed) = {}
      BY <2>4, <2>5, <2>7
    <3>2. \A f \in Doomed : \A k \in Jobs : job'[k].pending # 0 => f < job'[k].pending
      BY <1>9 DEF LFInv, FilesInv, DoomedInv
    <3>3. listed' # {} => disable_delete_obsolete_files_' > 0
      BY <1>1 DEF LFInv, FilesInv, DoomedInv
    <3>. QED BY <1>1, <2>6, <3>1, <3>2, <3>3 DEF DoomedInv
  <2>10. OutputsAreKept' /\ ListedFilesAreKept'
    BY <1>1, <1>9 DEF LFInv, FilesInv, OutputsAreKept, ListedFilesAreKept
  <2>11. Remembered'
    <3>1. disk \cap (Installed(versions) \cup Numbers(fs))
            \subseteq LiveNumbers(versions') \cup (Numbers(obsolete_files_) \cup N) \cup Doomed
      BY <2>1, <2>5, <2>7
    <3>. QED BY <1>1, <1>8, <2>2, <2>6, <3>1 DEF Remembered
  <2>. QED BY <2>8, <2>9, <2>10, <2>11 DEF FilesInv
<1>. QED
  BY <1>11, <1>12, <1>13, <1>14, <1>15 DEF LFInv

-----------------------------------------------------------------------------
(* The theorems.                                                             *)

\* The initial state: one Version with one file.
LEMMA InitInv == LFInit => LFInv
<1>. SUFFICES ASSUME LFInit PROVE LFInv
  OBVIOUS
<1>. DEFINE v == [files |-> {<<1, 0>>}, refs |-> 2]
<1>1. /\ versions = <<v>> /\ v \in Versions /\ v.files = {<<1, 0>>} /\ v.refs = 2
  BY SMTT(30) DEF LFInit, Versions, FileMetaData
<1>. HIDE DEF v
<1>2. versions \in Seq(Versions) /\ versions # <<>> /\ Len(versions) = 1 /\ versions[1] = v
  BY <1>1, SMTT(30)
<1>3. NoJob \in JobRecords
  BY DEF JobRecords, NoJob
<1>4. NoJob.pc = "idle" /\ NoJob.base = 0 /\ NoJob.inputs = {} /\ NoJob.output = 0 /\ NoJob.pending = 0
  BY DEF NoJob
<1>5. job \in [Jobs -> JobRecords] /\ \A j \in Jobs : job[j] = NoJob
  BY <1>3 DEF LFInit
<1>6. TypeOK
  BY <1>2, <1>5, ThreadsAssumption, SMTT(30) DEF LFInit, TypeOK, FileMetaData
<1>7. PinInv
  BY ThreadsAssumption DEF LFInit, PinInit, PinInv
<1>8. RefInv
  <2>1. SVsOf(status, pins, 1) = {FirstSV} /\ JobsOf(job, 1) = {}
    BY <1>4, <1>5, ThreadsAssumption, SMTT(30) DEF LFInit, PinInit, SVsOf, JobsOf
  <2>2. Cardinality(SVsOf(status, pins, 1)) = 1 /\ Cardinality(JobsOf(job, 1)) = 0
    BY <2>1, FS_Singleton, FS_EmptySet
  <2>3. Counts(versions, status, pins, job)
    BY <1>1, <1>2, <2>2, SMTT(30) DEF Counts
  <2>. QED BY <1>2, <1>4, <1>5, <2>3, SMTT(30) DEF LFInit, PinInit, RefInv, Current
<1>9. JobInv
  BY <1>4, <1>5 DEF JobInv, JobOK
<1>10. FilesInv
  <2>1. Installed(versions) = {1}
    <3>1. \A f : f \in Installed(versions) <=> \E i \in 1 .. 1 : f \in Numbers(versions[i].files)
      BY <1>2, InstalledIn
    <3>2. Numbers({<<1, 0>>}) = {1}
      BY SMTT(30) DEF Numbers
    <3>. QED BY <1>1, <1>2, <3>1, <3>2, SMTT(30)
  <2>2. LiveNumbers(versions) = {1}
    <3>1. \A m : m \in Metas(versions) <=> \E i \in 1 .. 1 : versions[i].refs > 0 /\ m \in versions[i].files
      BY <1>2, MetasOf
    <3>2. Metas(versions) = {<<1, 0>>}
      BY <1>1, <1>2, <3>1, SMTT(30)
    <3>. QED BY <3>2, SMTT(30) DEF LiveNumbers, Numbers
  <2>3. Doomed = {}
    <3>1. \A f : f \in Doomed <=> (\E p \in Purgers : f \in del[p]) \/ f \in purge_files_ \/ (f = popped /\ f # 0)
      BY DoomedBy, SMTT(30) DEF Doomed
    <3>. QED BY <3>1 DEF LFInit
  <2>4. Numbers(obsolete_files_) = {} /\ Known = {1} /\ disk = {1} /\ listed = {}
    BY SMTT(30) DEF LFInit, Numbers, Known
  <2>5. OutputsAreKept
    BY <1>4, <1>5 DEF OutputsAreKept
  <2>. QED BY <2>1, <2>2, <2>3, <2>4, <2>5
           DEF FilesInv, NumberInv, DoomedInv, ListedFilesAreKept, Remembered
<1>. QED
  BY <1>6, <1>7, <1>8, <1>9, <1>10 DEF LFInv

\* Every step preserves the invariant.
LEMMA NextInv == LFInv /\ [LFNext]_vars => LFInv'
<1>. SUFFICES ASSUME LFInv, [LFNext]_vars PROVE LFInv'
  OBVIOUS
<1>1. CASE UNCHANGED vars
  <2>1. TypeOK'
    BY <1>1 DEF LFInv, TypeOK, vars, fileVars
  <2>2. PinInv' /\ RefInv' /\ JobInv'
    BY <1>1, SameBook DEF LFInv, vars, fileVars
  <2>3. FilesInv'
    BY <1>1 DEF LFInv, FilesInv, NumberInv, DoomedInv, OutputsAreKept, ListedFilesAreKept,
                Remembered, Known, Doomed, vars, fileVars
  <2>. QED BY <2>1, <2>2, <2>3 DEF LFInv
<1>2. CASE LFNext
  BY <1>2, JobStartStep, JobCommitStep, JobCreateStep, JobFailStep, JobFindStep, PurgeStep,
     EraseStep, PopStep, DeletePoppedStep, DisableStep, GetLiveFilesStep, EnableStep, UseStep,
     CleanupStep, RetireStep DEF LFNext
<1>. QED
  BY <1>1, <1>2

\* The inductive invariant holds in every reachable state.
THEOREM Inductive == LFSpec => []LFInv
  BY InitInv, NextInv, PTL DEF LFSpec

\* Readers, iterators, compactions and the column family itself find every
\* table file of their Version in the directory, whatever is purged meanwhile.
THEOREM FilesAreFound == LFSpec => []ReadersFindTheirFiles
<1>1. LFInv => ReadersFindTheirFiles
  <2>. SUFFICES ASSUME LFInv PROVE ReadersFindTheirFiles
    OBVIOUS
  <2>1. versions \in Seq(Versions) /\ LiveNumbers(versions) \subseteq disk /\ Current = Len(versions)
    BY DEF LFInv, TypeOK, FilesInv, DoomedInv, Current
  <2>2. ASSUME NEW i \in 1 .. Len(versions), versions[i].refs > 0
        PROVE  Numbers(versions[i].files) \subseteq disk
    <3>1. \A m \in versions[i].files : m \in Metas(versions)
      BY <2>1, <2>2, MetasOf
    <3>. QED BY <2>1, <3>1 DEF LiveNumbers, Numbers
  <2>3. /\ Current \in 1 .. Len(versions)
        /\ \A s \in SVs : status[s] = "live" => pins[s] \in 1 .. Len(versions)
        /\ \A j \in Jobs : job[j].base # 0 => job[j].base \in 1 .. Len(versions)
    <3>1. Len(versions) \in Nat \ {0}
      BY <2>1, HeldIsLive DEF LFInv
    <3>2. /\ \A s \in SVs : status[s] = "live" => pins[s] \in 1 .. Len(versions)
          /\ \A j \in Jobs : job[j].base \in 0 .. Len(versions)
      BY <2>1 DEF LFInv, RefInv
    <3>. QED BY <2>1, <3>1, <3>2, SMTT(30)
  <2>4. Numbers(versions[Current].files) \subseteq disk
    BY <2>2, <2>3, HeldIsLive DEF LFInv
  <2>5. ASSUME NEW p \in pinned PROVE Numbers(versions[pins[p[2]]].files) \subseteq disk
    <3>1. p[2] \in SVs /\ status[p[2]] = "live"
      BY DEF LFInv, PinInv
    <3>. QED BY <2>2, <2>3, <3>1, HeldIsLive DEF LFInv
  <2>6. ASSUME NEW j \in Jobs, job[j].base # 0 PROVE Numbers(versions[job[j].base].files) \subseteq disk
    BY <2>2, <2>3, <2>6, HeldIsLive DEF LFInv
  <2>. QED BY <2>4, <2>5, <2>6 DEF ReadersFindTheirFiles
<1>. QED
  BY <1>1, Inductive, PTL

\* No purge deletes the output of a running job.
THEOREM RunningOutputsAreKept == LFSpec => []OutputsAreKept
<1>1. LFInv => OutputsAreKept
  BY DEF LFInv, FilesInv
<1>. QED
  BY <1>1, Inductive, PTL

\* No purge deletes a file that a backup has listed.
THEOREM BackupsKeepTheirFiles == LFSpec => []ListedFilesAreKept
<1>1. LFInv => ListedFilesAreKept
  BY DEF LFInv, FilesInv
<1>. QED
  BY <1>1, Inductive, PTL

\* No file of a dead Version is forgotten.
THEOREM NoFileIsForgotten == LFSpec => []NothingForgotten
<1>1. LFInv => NothingForgotten
  <2>. SUFFICES ASSUME LFInv, NEW f \in disk, f \notin LiveNumbers(versions), f \notin Orphans
                PROVE  f \in Numbers(obsolete_files_) \cup (UNION {del[p] : p \in Purgers})
                               \cup purge_files_ \cup {popped}
    BY DEF NothingForgotten
  <2>1. f \in 1 .. MaxFile
    <3>1. f \in Known
      BY DEF LFInv, FilesInv, NumberInv
    <3>. QED BY <3>1, NextNumber, SMTT(30) DEF LFInv, Known
  <2>2. PICK i \in DOMAIN versions : f \in Numbers(versions[i].files)
    BY <2>1 DEF Orphans
  <2>3. f \in Installed(versions)
    BY <2>2 DEF Installed
  <2>4. f \in Numbers(obsolete_files_) \/ f \in Doomed
    BY <2>3 DEF LFInv, FilesInv, Remembered
  <2>5. f \in Doomed => (\E p \in Purgers : f \in del[p]) \/ f \in purge_files_ \/ f = popped
    BY DoomedBy DEF Doomed
  <2>. QED BY <2>4, <2>5
<1>. QED
  BY <1>1, Inductive, PTL

=============================================================================
