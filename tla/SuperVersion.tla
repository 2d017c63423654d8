---------------------------- MODULE SuperVersion ----------------------------
(***************************************************************************)
(* The SuperVersion of a column family (db/column_family.cc): a reference  *)
(* counted bundle of memtables and Version that every read pins.  Readers  *)
(* cache it in thread-local storage (util/thread_local.cc) and take it out *)
(* with an atomic exchange; a flush or a compaction that installs a new    *)
(* SuperVersion, holding the DB mutex, exchanges every thread's cached     *)
(* pointer for kSVObsolete.                                                *)
(*                                                                         *)
(* Every atomic operation of the code (exchange, compare-and-swap,         *)
(* fetch_add, fetch_sub) is one action.  `phase' # "idle" means that the   *)
(* installing thread holds the DB mutex.  What a SuperVersion pins is      *)
(* added by module LiveFiles.                                              *)
(***************************************************************************)
EXTENDS Naturals, FiniteSets

CONSTANTS
  Threads,     \* reader threads
  SVs,         \* addresses of SuperVersion objects, each used once
  FirstSV,     \* the SuperVersion installed when the DB was opened
  kSVInUse, kSVObsolete, None

ASSUME SVAssumption ==
  /\ FirstSV \in SVs
  /\ {kSVInUse, kSVObsolete, None} \cap SVs = {}
  /\ kSVInUse # kSVObsolete

ASSUME ThreadAssumption == IsFiniteSet(Threads)

VARIABLES
  local_sv_,             \* Threads -> the thread-local pointer
  pc,                    \* Threads -> where the thread is
  hold,                  \* Threads -> the SuperVersion a read works on
  iter,                  \* Threads -> the SuperVersion of its open iterator
  refs,                  \* SVs -> SuperVersion::refs
  status,                \* SVs -> "unborn", "live", or "cleaned" (after Cleanup)
  super_version_,        \* ColumnFamilyData::super_version_
  super_version_number_,
  version_number,        \* SVs -> SuperVersion::version_number
  phase, old, todo, ptrs, \* the thread in InstallSuperVersion: its position,
                         \* old_superversion, the threads not scraped yet and
                         \* the scraped pointers not yet Unref'd, with their
                         \* threads
  seen                   \* history: super_version_number_ when a read began

readerVars  == <<local_sv_, pc, hold, iter, seen>>
installVars == <<super_version_, super_version_number_, version_number,
                 phase, old, todo, ptrs>>
svVars      == <<readerVars, refs, status, installVars>>

Init ==
  /\ local_sv_ = [t \in Threads |-> kSVObsolete]
  /\ pc = [t \in Threads |-> "idle"]
  /\ hold = [t \in Threads |-> None]
  /\ iter = [t \in Threads |-> None]
  /\ refs = [s \in SVs |-> IF s = FirstSV THEN 1 ELSE 0]
  /\ status = [s \in SVs |-> IF s = FirstSV THEN "live" ELSE "unborn"]
  /\ super_version_ = FirstSV
  /\ super_version_number_ = 1
  /\ version_number = [s \in SVs |-> IF s = FirstSV THEN 1 ELSE 0]
  /\ phase = "idle" /\ old = None /\ todo = {} /\ ptrs = {}
  /\ seen = [t \in Threads |-> 0]

Goto(t, from, to) == pc[t] = from /\ pc' = [pc EXCEPT ![t] = to]
Ref(s)   == refs' = [refs EXCEPT ![s] = @ + 1]
Unref(s) == refs' = [refs EXCEPT ![s] = @ - 1]
WasLastRef(s) == refs[s] = 1
DBMutexFree == phase = "idle"
-----------------------------------------------------------------------------
(* Readers *)

\* GetThreadLocalSuperVersion takes the cached pointer out, leaving kSVInUse.
Swap(t) ==
  /\ local_sv_' = [local_sv_ EXCEPT ![t] = kSVInUse]
  /\ \/ /\ local_sv_[t] = kSVObsolete
        /\ Goto(t, "idle", "lock")
        /\ UNCHANGED hold
     \/ /\ local_sv_[t] # kSVObsolete
        /\ Goto(t, "idle", "read")
        /\ hold' = [hold EXCEPT ![t] = local_sv_[t]]
  /\ seen' = [seen EXCEPT ![t] = super_version_number_]
  /\ UNCHANGED <<iter, refs, status, installVars>>

\* Nothing was cached: reference super_version_ under the DB mutex.
LockAndRef(t) ==
  /\ DBMutexFree
  /\ Goto(t, "lock", "read")
  /\ hold' = [hold EXCEPT ![t] = super_version_]
  /\ Ref(super_version_)
  /\ UNCHANGED <<local_sv_, iter, seen, status, installVars>>

\* Variant: the iterator shares the reference of the thread's cache.
RefForIteratorShared(t) ==
  /\ iter[t] = None
  /\ Goto(t, "read", "iterate")
  /\ iter' = [iter EXCEPT ![t] = hold[t]]
  /\ UNCHANGED <<local_sv_, hold, seen, refs, status, installVars>>

\* GetReferencedSuperVersion gives an iterator a reference of its own.
RefForIterator(t) ==
  /\ iter[t] = None
  /\ Goto(t, "read", "iterate")
  /\ iter' = [iter EXCEPT ![t] = hold[t]]
  /\ Ref(hold[t])
  /\ UNCHANGED <<local_sv_, hold, seen, status, installVars>>

\* Variant: a plain store in place of the compare-and-swap.
ReturnToCacheBlindly(t) ==
  /\ pc[t] \in {"read", "iterate"}
  /\ pc' = [pc EXCEPT ![t] = "idle"]
  /\ local_sv_' = [local_sv_ EXCEPT ![t] = hold[t]]
  /\ hold' = [hold EXCEPT ![t] = None]
  /\ UNCHANGED <<iter, seen, refs, status, installVars>>

\* ReturnThreadLocalSuperVersion: put the pointer back unless a scrape
\* replaced kSVInUse meanwhile.
ReturnToCache(t) ==
  /\ local_sv_[t] = kSVInUse
  /\ pc[t] \in {"read", "iterate"}
  /\ pc' = [pc EXCEPT ![t] = "idle"]
  /\ local_sv_' = [local_sv_ EXCEPT ![t] = hold[t]]
  /\ hold' = [hold EXCEPT ![t] = None]
  /\ UNCHANGED <<iter, seen, refs, status, installVars>>

ReturnStale(t) ==
  /\ local_sv_[t] # kSVInUse
  /\ \/ Goto(t, "read", "release")
     \/ Goto(t, "iterate", "drop")
  /\ UNCHANGED <<local_sv_, hold, iter, seen, refs, status, installVars>>

\* Variant: the reader never checks for the last reference.
ReleaseUnchecked(t) ==
  /\ Goto(t, "release", "idle")
  /\ Unref(hold[t])
  /\ hold' = [hold EXCEPT ![t] = None]
  /\ UNCHANGED <<local_sv_, iter, seen, status, installVars>>

\* CleanupSuperVersion: drop the reference; the last one out cleans up.
Release(t) ==
  /\ pc[t] = "release"
  /\ Unref(hold[t])
  /\ IF WasLastRef(hold[t])
     THEN /\ Goto(t, "release", "cleanup")
          /\ UNCHANGED hold
     ELSE /\ Goto(t, "release", "idle")
          /\ hold' = [hold EXCEPT ![t] = None]
  /\ UNCHANGED <<local_sv_, iter, seen, status, installVars>>

\* GetReferencedSuperVersion drops the thread's reference without a check
\* for the last one: the iterator still has its own.
DropThreadRef(t) ==
  /\ Goto(t, "drop", "idle")
  /\ Unref(hold[t])
  /\ hold' = [hold EXCEPT ![t] = None]
  /\ UNCHANGED <<local_sv_, iter, seen, status, installVars>>

\* CleanupSuperVersionHandle, when the iterator is deleted.
CloseIterator(t) ==
  /\ iter[t] # None
  /\ Unref(iter[t])
  /\ iter' = [iter EXCEPT ![t] = None]
  /\ IF WasLastRef(iter[t])
     THEN /\ Goto(t, "idle", "cleanup")
          /\ hold' = [hold EXCEPT ![t] = iter[t]]
     ELSE /\ Goto(t, "idle", "idle")
          /\ UNCHANGED hold
  /\ UNCHANGED <<local_sv_, seen, status, installVars>>

\* SuperVersion::Cleanup, under the DB mutex; the object is then deleted.
Cleanup(t) ==
  /\ DBMutexFree
  /\ Goto(t, "cleanup", "idle")
  /\ status' = [status EXCEPT ![hold[t]] = "cleaned"]
  /\ hold' = [hold EXCEPT ![t] = None]
  /\ UNCHANGED <<local_sv_, iter, seen, refs, installVars>>

\* OnThreadExit holds the mutex of the thread-local storage, as Scrape does,
\* and drops the cached reference through SuperVersionUnrefHandle.
ThreadExit(t) ==
  /\ phase # "scrape"
  /\ iter[t] = None
  /\ Goto(t, "idle", "exited")
  /\ local_sv_' = [local_sv_ EXCEPT ![t] = kSVObsolete]
  /\ IF local_sv_[t] # kSVObsolete THEN Unref(local_sv_[t]) ELSE UNCHANGED refs
  /\ UNCHANGED <<hold, iter, seen, status, installVars>>
-----------------------------------------------------------------------------
(* ColumnFamilyData::InstallSuperVersion, with the DB mutex held *)

\* Variant: the caches of the threads are not scraped.
InstallUnscraped(s) ==
  /\ DBMutexFree
  /\ status[s] = "unborn"
  /\ status' = [status EXCEPT ![s] = "live"]
  /\ refs' = [refs EXCEPT ![s] = 1]
  /\ old' = super_version_
  /\ super_version_' = s
  /\ phase' = "scrape"
  /\ UNCHANGED <<readerVars, super_version_number_, version_number, todo, ptrs>>

InstallBegin(s) ==
  /\ DBMutexFree
  /\ status[s] = "unborn"
  /\ status' = [status EXCEPT ![s] = "live"]
  /\ refs' = [refs EXCEPT ![s] = 1]
  /\ old' = super_version_
  /\ super_version_' = s
  /\ phase' = "scrape"
  /\ todo' = {t \in Threads : pc[t] # "exited"}
  /\ UNCHANGED <<readerVars, super_version_number_, version_number, ptrs>>

\* Scrape exchanges one thread's pointer.
ScrapeOne(t) ==
  /\ phase = "scrape"
  /\ t \in todo
  /\ todo' = todo \ {t}
  /\ local_sv_' = [local_sv_ EXCEPT ![t] = kSVObsolete]
  /\ ptrs' = IF local_sv_[t] \in {kSVInUse, kSVObsolete} THEN ptrs
                                  ELSE ptrs \cup {<<t, local_sv_[t]>>}
  /\ UNCHANGED <<pc, hold, iter, seen, refs, status, super_version_,
                 super_version_number_, version_number, phase, old>>

EndScrape ==
  /\ phase = "scrape"
  /\ todo = {}
  /\ phase' = "unref"
  /\ UNCHANGED <<readerVars, refs, status, super_version_,
                 super_version_number_, version_number, old, todo, ptrs>>

\* ResetThreadLocalSuperVersions drops the reference of one scraped pointer,
\* without a check for the last one.
UnrefScraped(p) ==
  /\ phase = "unref"
  /\ Unref(p[2])
  /\ ptrs' = ptrs \ {p}
  /\ UNCHANGED <<readerVars, status, super_version_, super_version_number_,
                 version_number, phase, old, todo>>

\* Variant: the old SuperVersion is cleaned up whoever still uses it.
UnrefOldAndClean ==
  /\ phase = "unref"
  /\ ptrs = {}
  /\ Unref(old)
  /\ status' = [status EXCEPT ![old] = "cleaned"]
  /\ phase' = "number"
  /\ UNCHANGED <<readerVars, super_version_, super_version_number_,
                 version_number, old, todo, ptrs>>

UnrefOld ==
  /\ phase = "unref"
  /\ ptrs = {}
  /\ Unref(old)
  /\ status' = IF WasLastRef(old) THEN [status EXCEPT ![old] = "cleaned"]
                                  ELSE status
  /\ phase' = "number"
  /\ UNCHANGED <<readerVars, super_version_, super_version_number_,
                 version_number, old, todo, ptrs>>

NumberSuperVersion ==
  /\ phase = "number"
  /\ super_version_number_' = super_version_number_ + 1
  /\ version_number' =
       [version_number EXCEPT ![super_version_] = super_version_number_ + 1]
  /\ phase' = "idle"
  /\ old' = None
  /\ UNCHANGED <<readerVars, refs, status, super_version_, todo, ptrs>>
-----------------------------------------------------------------------------
ReaderStep(t) ==
  \/ LockAndRef(t) \/ ReturnToCache(t) \/ ReturnStale(t) \/ Release(t)
  \/ DropThreadRef(t) \/ CloseIterator(t) \/ Cleanup(t)

InstallStep ==
  \/ \E t \in Threads : ScrapeOne(t)
  \/ \E p \in ptrs : UnrefScraped(p)
  \/ EndScrape \/ UnrefOld \/ NumberSuperVersion

Next ==
  \/ \E t \in Threads :
        ReaderStep(t) \/ Swap(t) \/ RefForIterator(t) \/ ThreadExit(t)
  \/ \E s \in SVs : InstallBegin(s)
  \/ InstallStep

\* A thread that holds a SuperVersion or the DB mutex goes on, and the
\* application deletes its iterators, between other reads of the thread;
\* nothing obliges a thread to start a read, to exit or to install.
Fairness == /\ \A t \in Threads : /\ WF_svVars(ReaderStep(t))
                                  /\ SF_svVars(CloseIterator(t))
            /\ WF_svVars(InstallStep)

Spec == Init /\ [][Next]_svVars /\ Fairness
-----------------------------------------------------------------------------
Pointers == SVs \cup {kSVInUse, kSVObsolete}
Steps    == {"idle", "lock", "read", "iterate", "release", "drop", "cleanup",
             "exited"}

\* The types of the variables; among the pointers that a scrape collects to
\* Unref (thread_local.cc:416) is never a kSVInUse or kSVObsolete marker, and no
\* reference count falls below zero.
TypeOK ==
  /\ local_sv_ \in [Threads -> Pointers]
  /\ pc \in [Threads -> Steps]
  /\ hold \in [Threads -> SVs \cup {None}]
  /\ iter \in [Threads -> SVs \cup {None}]
  /\ refs \in [SVs -> Nat]
  /\ status \in [SVs -> {"unborn", "live", "cleaned"}]
  /\ super_version_ \in SVs
  /\ super_version_number_ \in Nat
  /\ version_number \in [SVs -> Nat]
  /\ phase \in {"idle", "scrape", "unref", "number"}
  /\ old \in SVs \cup {None}
  /\ todo \subseteq Threads
  /\ ptrs \subseteq Threads \X SVs
  /\ seen \in [Threads -> Nat]

\* No SuperVersion is cleaned up (and deleted) while a read, an iterator, a
\* thread's cache, the column family or the installing thread can still reach
\* it.  The reference counting of column_family.cc:1281-1415 is there for this.
NoUseAfterFree ==
  /\ status[super_version_] = "live"
  /\ \A t \in Threads :
        /\ pc[t] \in {"read", "iterate", "release", "drop"} => status[hold[t]] = "live"
        /\ iter[t] # None => status[iter[t]] = "live"
        /\ local_sv_[t] \in SVs => status[local_sv_[t]] = "live"
  /\ phase \in {"scrape", "unref"} => status[old] = "live"

\* The three places that drop a reference without cleaning up after the last
\* one never drop the last one: the asserts of SuperVersionUnrefHandle and
\* ResetThreadLocalSuperVersions, and the plain Unref of
\* GetReferencedSuperVersion.
CacheNeverLast ==
  /\ \A t \in Threads : /\ local_sv_[t] \in SVs => refs[local_sv_[t]] > 1
                        /\ pc[t] = "drop" => refs[hold[t]] > 1
  /\ \A p \in ptrs : refs[p[2]] > 1

\* A read never works on a SuperVersion older than the newest one whose
\* installation had finished when the read began, although it takes no lock
\* when its cache is filled: the assert of ArenaWrappedDBIter::Refresh
\* (arena_wrapped_db_iter.cc:97), which rests on InstallSuperVersion scraping
\* every cache before it increments super_version_number_.
ReadsAreFresh ==
  \A t \in Threads :
    pc[t] \in {"read", "iterate"} => version_number[hold[t]] >= seen[t]

\* A SuperVersion without references is cleaned up, or some thread is about to
\* clean it up: no path forgets it, and no two threads clean up the same one.
NoLeak ==
  \A s \in SVs :
    status[s] = "live" /\ refs[s] = 0 =>
      Cardinality({t \in Threads : pc[t] = "cleanup" /\ hold[t] = s}) = 1

\* Once replaced, a SuperVersion is eventually cleaned up: no cache keeps it.
RetiredIsCleaned ==
  \A s \in SVs :
    (status[s] = "live" /\ super_version_ # s) ~> status[s] = "cleaned"

\* The read or the iterator of t uses s.
Uses(t, s) == \/ pc[t] \in {"read", "iterate", "release", "drop"} /\ hold[t] = s
              \/ iter[t] = s

Retiring == IF phase \in {"scrape", "unref"} THEN old ELSE None
Pinned   == {p \in Threads \X SVs : Uses(p[1], p[2])}

Pins == INSTANCE SuperVersionPins WITH retiring <- Retiring, pinned <- Pinned

\* Refinement: with its lock-free caches and counters, the code does what
\* SuperVersionPins promises, for the purge of obsolete files to rely on.
ImplementsPins == Pins!PinSpec
=============================================================================
