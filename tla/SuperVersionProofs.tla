------------------------ MODULE SuperVersionProofs ------------------------
(***************************************************************************)
(* The reference counting of SuperVersions is right for every number of    *)
(* reader threads and SuperVersions: IInv is inductive, and the safety     *)
(* properties of module SuperVersion follow.  The lemmas about the actions *)
(* take the facts about the cardinality of finite sets as assumptions;     *)
(* CardFactsHold discharges them.                                          *)
(***************************************************************************)
EXTENDS SuperVersion, FiniteSetTheorems, TLAPS

\* Most leaves are first-order; those that need arithmetic cite SMT.
USE ZenonT(30), SMTT(30)

Working == {"read", "iterate", "release", "drop"}

\* The threads that own a reference to s: in the cache, for a read, for an
\* iterator, and those whose scraped pointer still counts.
CacheOf(s)   == {t \in Threads : local_sv_[t] = s}
ReadsOf(s)   == {t \in Threads : pc[t] \in Working /\ hold[t] = s}
ItersOf(s)   == {t \in Threads : iter[t] = s}
ScrapedOf(s) == {t \in Threads : <<t, s>> \in ptrs}

One(b) == IF b THEN 1 ELSE 0

OwnedByCF(s)      == super_version_ = s
OwnedByInstall(s) == phase \in {"scrape", "unref"} /\ old = s

\* refs counts the owners.
Owners(s) == One(OwnedByCF(s)) + One(OwnedByInstall(s))
             + Cardinality(CacheOf(s)) + Cardinality(ReadsOf(s))
             + Cardinality(ItersOf(s)) + Cardinality(ScrapedOf(s))

RefsCount == \A s \in SVs : refs[s] = Owners(s)

ThreadInv ==
  \A t \in Threads :
    /\ hold[t] = None <=> pc[t] \in {"idle", "lock", "exited"}
    /\ pc[t] \in {"lock", "read", "iterate"} => local_sv_[t] \in {kSVInUse, kSVObsolete}
    /\ pc[t] \in {"release", "drop", "exited"} => local_sv_[t] = kSVObsolete
    /\ pc[t] \in {"idle", "cleanup"} => local_sv_[t] # kSVInUse
    /\ pc[t] \in {"iterate", "drop"} => iter[t] = hold[t]
    /\ pc[t] = "exited" => iter[t] = None

InstallInv ==
  /\ phase = "idle" => old = None
  /\ phase # "idle" => old \in SVs /\ old # super_version_
  /\ phase # "scrape" => todo = {}
  /\ phase \in {"idle", "number"} => ptrs = {}
  /\ \A p \in ptrs : p[2] = old /\ p[1] \notin todo
  /\ \A t \in todo : pc[t] # "exited"

\* s is what a thread may have in its cache, or put back into it.
Current(t, s) ==
  \/ phase = "idle" /\ s = super_version_
  \/ phase = "scrape" /\ t \in todo /\ s = old

CacheInv ==
  \A t \in Threads :
    /\ local_sv_[t] \in SVs => Current(t, local_sv_[t])
    /\ local_sv_[t] = kSVInUse /\ pc[t] \in {"read", "iterate"} => Current(t, hold[t])

StatusInv ==
  /\ \A s \in SVs : refs[s] # 0 => status[s] = "live"
  /\ \A s \in SVs : status[s] = "live" /\ refs[s] = 0 =>
        \E t \in Threads : pc[t] = "cleanup" /\ hold[t] = s
  /\ \A t \in Threads : pc[t] = "cleanup" => refs[hold[t]] = 0 /\ status[hold[t]] = "live"
  /\ \A t, u \in Threads :
        pc[t] = "cleanup" /\ pc[u] = "cleanup" /\ hold[t] = hold[u] => t = u

NumberInv ==
  /\ phase = "idle" => version_number[super_version_] = super_version_number_
  /\ phase # "idle" => version_number[old] = super_version_number_
  /\ \A t \in Threads : seen[t] <= super_version_number_
  /\ ReadsAreFresh

\* All of it but the count.
Shape == TypeOK /\ ThreadInv /\ InstallInv /\ CacheInv /\ NumberInv /\ StatusInv

IInv == Shape /\ RefsCount

\* What the count says of the owners of s, one or two at a time.
Owned ==
  \A s \in SVs :
    /\ refs[s] >= One(OwnedByCF(s)) + One(OwnedByInstall(s))
    /\ \A t \in Threads :
         /\ local_sv_[t] = s => refs[s] >= 1 + One(OwnedByCF(s)) + One(OwnedByInstall(s))
         /\ pc[t] \in Working /\ hold[t] = s => refs[s] >= 1
         /\ iter[t] = s => refs[s] >= 1
         /\ pc[t] \in Working /\ hold[t] = s /\ iter[t] = s => refs[s] >= 2
         /\ <<t, s>> \in ptrs => refs[s] >= 1 + One(OwnedByInstall(s))

\* What the proofs use of the cardinality of sets of threads.
CardFacts ==
  \A S \in SUBSET Threads :
    /\ Cardinality(S) \in Nat
    /\ Cardinality(S) = 0 <=> S = {}
    /\ \A t \in Threads : /\ t \notin S => Cardinality(S \cup {t}) = Cardinality(S) + 1
                          /\ t \in S => Cardinality(S \ {t}) = Cardinality(S) - 1
-----------------------------------------------------------------------------
\* The terms of Owners(s) are numbers.
LEMMA Sizes ==
  ASSUME CardFacts, NEW s
  PROVE  /\ CacheOf(s) \in SUBSET Threads /\ ReadsOf(s) \in SUBSET Threads
         /\ ItersOf(s) \in SUBSET Threads /\ ScrapedOf(s) \in SUBSET Threads
         /\ Cardinality(CacheOf(s)) \in Nat /\ Cardinality(ReadsOf(s)) \in Nat
         /\ Cardinality(ItersOf(s)) \in Nat /\ Cardinality(ScrapedOf(s)) \in Nat
         /\ One(OwnedByCF(s)) \in {0, 1} /\ One(OwnedByInstall(s)) \in {0, 1}
<1>1. /\ CacheOf(s) \in SUBSET Threads /\ ReadsOf(s) \in SUBSET Threads
      /\ ItersOf(s) \in SUBSET Threads /\ ScrapedOf(s) \in SUBSET Threads
  BY DEF CacheOf, ReadsOf, ItersOf, ScrapedOf
<1> QED
  BY <1>1 DEF CardFacts, One

\* Every owner of a SuperVersion is counted by its refs.
LEMMA OwnedLemma ==
  ASSUME TypeOK, RefsCount, CardFacts
  PROVE  Owned
<1> SUFFICES ASSUME NEW s \in SVs PROVE Owned!(s)
  BY DEF Owned
<1>1. /\ CacheOf(s) \in SUBSET Threads /\ ReadsOf(s) \in SUBSET Threads
      /\ ItersOf(s) \in SUBSET Threads /\ ScrapedOf(s) \in SUBSET Threads
  BY Sizes
<1>3. \A t \in Threads :
        /\ local_sv_[t] = s => Cardinality(CacheOf(s)) # 0
        /\ pc[t] \in Working /\ hold[t] = s => Cardinality(ReadsOf(s)) # 0
        /\ iter[t] = s => Cardinality(ItersOf(s)) # 0
        /\ <<t, s>> \in ptrs => Cardinality(ScrapedOf(s)) # 0
  BY <1>1 DEF CardFacts, CacheOf, ReadsOf, ItersOf, ScrapedOf
<1> QED
  BY Sizes, <1>3, SMTT(30) DEF RefsCount, Owners

\* Swap: the conjuncts of Shape.
LEMMA SwapShape ==
  ASSUME Shape, Owned, NEW t \in Threads, Swap(t)
  PROVE  Shape'
<1> USE SVAssumption DEF Shape, Swap, Goto, Ref, Unref, readerVars, installVars
<1>1. TypeOK'
  BY SMTT(30) DEF TypeOK, Owned, Pointers, Steps, ThreadInv, InstallInv, CacheInv, Current, Working, One, OwnedByInstall
<1>2. ThreadInv'
  BY SMTT(30) DEF TypeOK, ThreadInv, Pointers, Steps
<1>3. InstallInv'
  BY SMTT(30) DEF TypeOK, InstallInv, CacheInv, Current, ThreadInv
<1>4. CacheInv'
  BY SMTT(30) DEF TypeOK, CacheInv, Current, ThreadInv, InstallInv, Pointers
<1>5. NumberInv'
  BY SMTT(30) DEF TypeOK, NumberInv, ReadsAreFresh, CacheInv, Current, InstallInv, ThreadInv, Pointers
<1>6. StatusInv'
  BY SMTT(30) DEF TypeOK, StatusInv, Owned, WasLastRef, ThreadInv, InstallInv, CacheInv, Current, Working, Pointers, One, OwnedByCF, OwnedByInstall
<1> QED
  BY <1>1, <1>2, <1>3, <1>4, <1>5, <1>6

\* LockAndRef: the conjuncts of Shape.
LEMMA LockAndRefShape ==
  ASSUME Shape, Owned, NEW t \in Threads, LockAndRef(t)
  PROVE  Shape'
<1> USE SVAssumption DEF Shape, LockAndRef, Goto, Ref, DBMutexFree, readerVars, installVars
<1>1. TypeOK'
  BY SMTT(30) DEF TypeOK, Owned, Pointers, Steps, ThreadInv, InstallInv, CacheInv, Current, Working, One, OwnedByInstall
<1>2. ThreadInv'
  BY DEF TypeOK, ThreadInv, Pointers, Steps
<1>3. InstallInv'
  BY DEF TypeOK, InstallInv, CacheInv, Current, ThreadInv
<1>4. CacheInv'
  BY DEF TypeOK, CacheInv, Current, ThreadInv, InstallInv, Pointers
<1>5. NumberInv'
  BY DEF TypeOK, NumberInv, ReadsAreFresh, CacheInv, Current, InstallInv, ThreadInv, Pointers
<1>6. StatusInv'
  BY SMTT(30) DEF TypeOK, StatusInv, Owned, WasLastRef, ThreadInv, InstallInv, CacheInv, Current, Working, Pointers, One, OwnedByCF, OwnedByInstall
<1> QED
  BY <1>1, <1>2, <1>3, <1>4, <1>5, <1>6

\* RefForIterator: the conjuncts of Shape.
LEMMA RefForIteratorShape ==
  ASSUME Shape, Owned, NEW t \in Threads, RefForIterator(t)
  PROVE  Shape'
<1> USE SVAssumption DEF Shape, RefForIterator, Goto, Ref, Unref, readerVars, installVars
<1>0. hold[t] \in SVs /\ refs[hold[t]] >= 1
  BY DEF TypeOK, ThreadInv, Owned, Working
<1>1. TypeOK'
  BY <1>0, SMTT(30) DEF TypeOK, Pointers, Steps
<1>2. ThreadInv'
  BY DEF TypeOK, ThreadInv, Pointers, Steps
<1>3. InstallInv'
  BY SMTT(30) DEF TypeOK, InstallInv, CacheInv, Current, ThreadInv
<1>4. CacheInv'
  BY DEF TypeOK, CacheInv, Current, ThreadInv, InstallInv, Pointers
<1>5. NumberInv'
  BY DEF TypeOK, NumberInv, ReadsAreFresh, CacheInv, Current, InstallInv, ThreadInv, Pointers
<1>6. StatusInv'
  BY <1>0, SMTT(30) DEF TypeOK, StatusInv, WasLastRef, ThreadInv, Pointers
<1> QED
  BY <1>1, <1>2, <1>3, <1>4, <1>5, <1>6

\* ReturnToCache: the conjuncts of Shape.
LEMMA ReturnToCacheShape ==
  ASSUME Shape, Owned, NEW t \in Threads, ReturnToCache(t)
  PROVE  Shape'
<1> USE SVAssumption DEF Shape, ReturnToCache, Goto, Ref, Unref, readerVars, installVars
<1>1. TypeOK'
  BY SMTT(30) DEF TypeOK, Owned, Pointers, Steps, ThreadInv, InstallInv, CacheInv, Current, Working, One, OwnedByInstall
<1>2. ThreadInv'
  BY DEF TypeOK, ThreadInv, Pointers, Steps
<1>3. InstallInv'
  BY SMTT(30) DEF TypeOK, InstallInv, CacheInv, Current, ThreadInv
<1>4. CacheInv'
  BY SMTT(30) DEF TypeOK, CacheInv, Current, ThreadInv, InstallInv, Pointers
<1>5. NumberInv'
  BY SMTT(30) DEF TypeOK, NumberInv, ReadsAreFresh, CacheInv, Current, InstallInv, ThreadInv, Pointers
<1>6. StatusInv'
  BY SMTT(30) DEF TypeOK, StatusInv, Owned, WasLastRef, ThreadInv, InstallInv, CacheInv, Current, Working, Pointers, One, OwnedByCF, OwnedByInstall
<1> QED
  BY <1>1, <1>2, <1>3, <1>4, <1>5, <1>6

\* ReturnStale: the conjuncts of Shape.
LEMMA ReturnStaleShape ==
  ASSUME Shape, Owned, NEW t \in Threads, ReturnStale(t)
  PROVE  Shape'
<1> USE SVAssumption DEF Shape, ReturnStale, Goto, Ref, Unref, readerVars, installVars
<1>1. TypeOK'
  BY DEF TypeOK, Owned, Pointers, Steps, ThreadInv, InstallInv, CacheInv, Current, Working, One, OwnedByInstall
<1>2. ThreadInv'
  BY SMTT(30) DEF TypeOK, ThreadInv, Pointers, Steps
<1>3. InstallInv'
  BY SMTT(30) DEF TypeOK, InstallInv, CacheInv, Current, ThreadInv
<1>4. CacheInv'
  BY DEF TypeOK, CacheInv, Current, ThreadInv, InstallInv, Pointers
<1>5. NumberInv'
  BY SMTT(30) DEF TypeOK, NumberInv, ReadsAreFresh, CacheInv, Current, InstallInv, ThreadInv, Pointers
<1>6. StatusInv'
  BY SMTT(30) DEF TypeOK, StatusInv, Owned, WasLastRef, ThreadInv, InstallInv, CacheInv, Current, Working, Pointers, One, OwnedByCF, OwnedByInstall
<1> QED
  BY <1>1, <1>2, <1>3, <1>4, <1>5, <1>6

\* Release: the conjuncts of Shape.
LEMMA ReleaseShape ==
  ASSUME Shape, Owned, NEW t \in Threads, Release(t)
  PROVE  Shape'
<1>a. pc[t] = "release" /\ pc[t] \in Working /\ hold[t] # None
  BY DEF Release, Shape, ThreadInv, Working
<1>b. hold[t] \in SVs
  BY <1>a DEF Shape, TypeOK
<1>0. hold[t] \in SVs /\ refs[hold[t]] \in Nat /\ refs[hold[t]] >= 1
  BY <1>a, <1>b DEF Shape, TypeOK, Owned
<1> USE SVAssumption DEF Shape, Release, Goto, Ref, Unref, readerVars, installVars
<1>1. TypeOK'
  BY <1>0, SMTT(30) DEF TypeOK, Pointers, Steps
<1>2. ThreadInv'
  BY SMTT(30) DEF TypeOK, ThreadInv, Pointers, Steps
<1>3. InstallInv'
  BY SMTT(30) DEF TypeOK, InstallInv, CacheInv, Current, ThreadInv
<1>4. CacheInv'
  BY SMTT(30) DEF TypeOK, CacheInv, Current, ThreadInv, InstallInv, Pointers
<1>5. NumberInv'
  BY SMTT(30) DEF TypeOK, NumberInv, ReadsAreFresh, CacheInv, Current, InstallInv, ThreadInv, Pointers
<1>6. StatusInv'
  BY <1>0, SMTT(30) DEF TypeOK, StatusInv, WasLastRef, ThreadInv, Pointers
<1> QED
  BY <1>1, <1>2, <1>3, <1>4, <1>5, <1>6

\* DropThreadRef: the conjuncts of Shape.
LEMMA DropThreadRefShape ==
  ASSUME Shape, Owned, NEW t \in Threads, DropThreadRef(t)
  PROVE  Shape'
<1>a. pc[t] = "drop" /\ pc[t] \in Working /\ hold[t] # None /\ iter[t] = hold[t]
  BY DEF DropThreadRef, Goto, Shape, ThreadInv, Working
<1>b. hold[t] \in SVs
  BY <1>a DEF Shape, TypeOK
<1>0. hold[t] \in SVs /\ refs[hold[t]] \in Nat /\ refs[hold[t]] >= 2
  BY <1>a, <1>b DEF Shape, TypeOK, Owned
<1> USE SVAssumption DEF Shape, DropThreadRef, Goto, Ref, Unref, readerVars, installVars
<1>1. TypeOK'
  BY <1>0, SMTT(30) DEF TypeOK, Pointers, Steps
<1>2. ThreadInv'
  BY DEF TypeOK, ThreadInv, Pointers, Steps
<1>3. InstallInv'
  BY SMTT(30) DEF TypeOK, InstallInv, CacheInv, Current, ThreadInv
<1>4. CacheInv'
  BY SMTT(30) DEF TypeOK, CacheInv, Current, ThreadInv, InstallInv, Pointers
<1>5. NumberInv'
  BY DEF TypeOK, NumberInv, ReadsAreFresh, CacheInv, Current, InstallInv, ThreadInv, Pointers
<1>6. StatusInv'
  BY <1>0, SMTT(30) DEF TypeOK, StatusInv, WasLastRef, ThreadInv, Pointers
<1> QED
  BY <1>1, <1>2, <1>3, <1>4, <1>5, <1>6

\* CloseIterator: the conjuncts of Shape.
LEMMA CloseIteratorShape ==
  ASSUME Shape, Owned, NEW t \in Threads, CloseIterator(t)
  PROVE  Shape'
<1> USE SVAssumption DEF Shape, CloseIterator, Goto, Ref, Unref, readerVars, installVars
<1>0. iter[t] \in SVs /\ refs[iter[t]] \in Nat /\ refs[iter[t]] >= 1
  BY DEF TypeOK, Owned
<1>1. TypeOK'
  BY <1>0, SMTT(30) DEF TypeOK, Pointers, Steps
<1>2. ThreadInv'
  BY SMTT(30) DEF TypeOK, ThreadInv, Pointers, Steps
<1>3. InstallInv'
  BY SMTT(30) DEF TypeOK, InstallInv, CacheInv, Current, ThreadInv
<1>4. CacheInv'
  BY SMTT(30) DEF TypeOK, CacheInv, Current, ThreadInv, InstallInv, Pointers
<1>5. NumberInv'
  BY SMTT(30) DEF TypeOK, NumberInv, ReadsAreFresh, CacheInv, Current, InstallInv, ThreadInv, Pointers
<1>6. StatusInv'
  BY <1>0, SMTT(30) DEF TypeOK, StatusInv, WasLastRef, ThreadInv, Pointers
<1> QED
  BY <1>1, <1>2, <1>3, <1>4, <1>5, <1>6

\* Cleanup: the conjuncts of Shape.
LEMMA CleanupShape ==
  ASSUME Shape, Owned, NEW t \in Threads, Cleanup(t)
  PROVE  Shape'
<1> USE SVAssumption DEF Shape, Cleanup, Goto, Ref, DBMutexFree, readerVars, installVars
<1>1. TypeOK'
  BY DEF TypeOK, Owned, Pointers, Steps, ThreadInv, InstallInv, CacheInv, Current, Working, One, OwnedByInstall
<1>2. ThreadInv'
  BY DEF TypeOK, ThreadInv, Pointers, Steps
<1>3. InstallInv'
  BY DEF TypeOK, InstallInv, CacheInv, Current, ThreadInv
<1>4. CacheInv'
  BY DEF TypeOK, CacheInv, Current, ThreadInv, InstallInv, Pointers
<1>5. NumberInv'
  BY DEF TypeOK, NumberInv, ReadsAreFresh, CacheInv, Current, InstallInv, ThreadInv, Pointers
<1>6. StatusInv'
  BY SMTT(30) DEF TypeOK, StatusInv, Owned, WasLastRef, ThreadInv, InstallInv, CacheInv, Current, Working, Pointers, One, OwnedByCF, OwnedByInstall
<1> QED
  BY <1>1, <1>2, <1>3, <1>4, <1>5, <1>6

\* ThreadExit: the conjuncts of Shape.
LEMMA ThreadExitShape ==
  ASSUME Shape, Owned, NEW t \in Threads, ThreadExit(t)
  PROVE  Shape'
<1>a. ASSUME local_sv_[t] # kSVObsolete
      PROVE  local_sv_[t] \in SVs /\ local_sv_[t] = super_version_
  BY <1>a DEF ThreadExit, Goto, Shape, TypeOK, ThreadInv, CacheInv, Current, Pointers
<1>b. ASSUME local_sv_[t] # kSVObsolete
      PROVE  refs[super_version_] >= 1 + One(OwnedByCF(super_version_))
                                       + One(OwnedByInstall(super_version_))
  BY <1>a, <1>b DEF Shape, TypeOK, Owned
<1>0. local_sv_[t] # kSVObsolete =>
        local_sv_[t] \in SVs /\ refs[local_sv_[t]] \in Nat /\ refs[local_sv_[t]] >= 2
  BY <1>a, <1>b, SMTT(30) DEF Shape, TypeOK, One, OwnedByCF
<1> USE SVAssumption DEF Shape, ThreadExit, Goto, Ref, Unref, readerVars, installVars
<1>1. TypeOK'
  BY <1>0, SMTT(30) DEF TypeOK, Pointers, Steps
<1>2. ThreadInv'
  BY DEF TypeOK, ThreadInv, Pointers, Steps
<1>3. InstallInv'
  BY DEF TypeOK, InstallInv, CacheInv, Current, ThreadInv
<1>4. CacheInv'
  BY DEF TypeOK, CacheInv, Current, ThreadInv, InstallInv, Pointers
<1>5. NumberInv'
  BY DEF TypeOK, NumberInv, ReadsAreFresh, CacheInv, Current, InstallInv, ThreadInv, Pointers
<1>6. StatusInv'
  BY <1>0, SMTT(30) DEF TypeOK, StatusInv, WasLastRef, ThreadInv, Pointers
<1> QED
  BY <1>1, <1>2, <1>3, <1>4, <1>5, <1>6

\* InstallBegin: the conjuncts of Shape.
LEMMA InstallBeginShape ==
  ASSUME Shape, Owned, NEW s \in SVs, InstallBegin(s)
  PROVE  Shape'
<1> USE SVAssumption DEF Shape, InstallBegin, Goto, Ref, DBMutexFree, readerVars, installVars
<1>1. TypeOK'
  BY DEF TypeOK, Owned, Pointers, Steps, ThreadInv, InstallInv, CacheInv, Current, Working, One, OwnedByInstall
<1>2. ThreadInv'
  BY DEF TypeOK, ThreadInv, Pointers, Steps
<1>0. s # super_version_
  BY SMTT(30) DEF TypeOK, StatusInv, Owned, One, OwnedByCF, OwnedByInstall
<1>3. InstallInv'
  BY <1>0 DEF TypeOK, InstallInv, CacheInv, Current, ThreadInv
<1>4. CacheInv'
  BY DEF TypeOK, CacheInv, Current, ThreadInv, InstallInv, Pointers
<1>5. NumberInv'
  BY DEF TypeOK, NumberInv, ReadsAreFresh, CacheInv, Current, InstallInv, ThreadInv, Pointers
<1>6. StatusInv'
  BY SMTT(30) DEF TypeOK, StatusInv, Owned, WasLastRef, ThreadInv, InstallInv, CacheInv, Current, Working, Pointers, One, OwnedByCF, OwnedByInstall
<1> QED
  BY <1>1, <1>2, <1>3, <1>4, <1>5, <1>6

\* ScrapeOne: the conjuncts of Shape.
LEMMA ScrapeOneShape ==
  ASSUME Shape, Owned, NEW t \in Threads, ScrapeOne(t)
  PROVE  Shape'
<1> USE SVAssumption DEF Shape, ScrapeOne, Goto, Ref, Unref, readerVars, installVars
<1>1. TypeOK'
  BY SMTT(30) DEF TypeOK, Owned, Pointers, Steps, ThreadInv, InstallInv, CacheInv, Current, Working, One, OwnedByInstall
<1>2. ThreadInv'
  BY DEF TypeOK, ThreadInv, Pointers, Steps
<1>a. local_sv_[t] \notin {kSVInUse, kSVObsolete} => local_sv_[t] = old
  BY DEF TypeOK, CacheInv, Current, Pointers
<1>b. \A p \in ptrs' : p \in ptrs \/ p = <<t, old>>
  BY <1>a
<1>3. InstallInv'
  <2>1. \A p \in ptrs' : p[2] = old /\ p[1] \notin todo'
    BY <1>b, SMTT(30) DEF InstallInv
  <2> QED
    BY <2>1 DEF TypeOK, InstallInv
<1>4. CacheInv'
  BY SMTT(30) DEF TypeOK, CacheInv, Current, ThreadInv, InstallInv, Pointers
<1>5. NumberInv'
  BY DEF TypeOK, NumberInv, ReadsAreFresh, CacheInv, Current, InstallInv, ThreadInv, Pointers
<1>6. StatusInv'
  BY SMTT(30) DEF TypeOK, StatusInv, Owned, WasLastRef, ThreadInv, InstallInv, CacheInv, Current, Working, Pointers, One, OwnedByCF, OwnedByInstall
<1> QED
  BY <1>1, <1>2, <1>3, <1>4, <1>5, <1>6

\* EndScrape: the conjuncts of Shape.
LEMMA EndScrapeShape ==
  ASSUME Shape, Owned, EndScrape
  PROVE  Shape'
<1> USE SVAssumption DEF Shape, EndScrape, Goto, Ref, Unref, readerVars, installVars
<1>1. TypeOK'
  BY DEF TypeOK, Owned, Pointers, Steps, ThreadInv, InstallInv, CacheInv, Current, Working, One, OwnedByInstall
<1>2. ThreadInv'
  BY DEF TypeOK, ThreadInv, Pointers, Steps
<1>3. InstallInv'
  BY DEF TypeOK, InstallInv, CacheInv, Current, ThreadInv
<1>4. CacheInv'
  BY DEF TypeOK, CacheInv, Current, ThreadInv, InstallInv, Pointers
<1>5. NumberInv'
  BY DEF TypeOK, NumberInv, ReadsAreFresh, CacheInv, Current, InstallInv, ThreadInv, Pointers
<1>6. StatusInv'
  BY SMTT(30) DEF TypeOK, StatusInv, Owned, WasLastRef, ThreadInv, InstallInv, CacheInv, Current, Working, Pointers, One, OwnedByCF, OwnedByInstall
<1> QED
  BY <1>1, <1>2, <1>3, <1>4, <1>5, <1>6

\* UnrefScraped: the conjuncts of Shape.
LEMMA UnrefScrapedShape ==
  ASSUME Shape, Owned, NEW p \in ptrs, UnrefScraped(p)
  PROVE  Shape'
<1> USE SVAssumption DEF Shape, UnrefScraped, Goto, Ref, Unref, readerVars, installVars
<1>1. TypeOK'
  BY SMTT(30) DEF TypeOK, Owned, Pointers, Steps, ThreadInv, InstallInv, CacheInv, Current, Working, One, OwnedByInstall
<1>2. ThreadInv'
  BY DEF TypeOK, ThreadInv, Pointers, Steps
<1>3. InstallInv'
  BY DEF TypeOK, InstallInv, CacheInv, Current, ThreadInv
<1>4. CacheInv'
  BY DEF TypeOK, CacheInv, Current, ThreadInv, InstallInv, Pointers
<1>5. NumberInv'
  BY DEF TypeOK, NumberInv, ReadsAreFresh, CacheInv, Current, InstallInv, ThreadInv, Pointers
<1>6. StatusInv'
  BY SMTT(30) DEF TypeOK, StatusInv, Owned, WasLastRef, ThreadInv, InstallInv, CacheInv, Current, Working, Pointers, One, OwnedByCF, OwnedByInstall
<1> QED
  BY <1>1, <1>2, <1>3, <1>4, <1>5, <1>6

\* UnrefOld: the conjuncts of Shape.
LEMMA UnrefOldShape ==
  ASSUME Shape, Owned, UnrefOld
  PROVE  Shape'
<1> USE SVAssumption DEF Shape, UnrefOld, Goto, Ref, Unref, readerVars, installVars
<1>1. TypeOK'
  BY SMTT(30) DEF TypeOK, Owned, Pointers, Steps, ThreadInv, InstallInv, CacheInv, Current, Working, One, OwnedByInstall
<1>2. ThreadInv'
  BY DEF TypeOK, ThreadInv, Pointers, Steps
<1>3. InstallInv'
  BY DEF TypeOK, InstallInv, CacheInv, Current, ThreadInv
<1>4. CacheInv'
  BY DEF TypeOK, CacheInv, Current, ThreadInv, InstallInv, Pointers
<1>5. NumberInv'
  BY DEF TypeOK, NumberInv, ReadsAreFresh, CacheInv, Current, InstallInv, ThreadInv, Pointers
<1>6. StatusInv'
  BY SMTT(30) DEF TypeOK, StatusInv, Owned, WasLastRef, ThreadInv, InstallInv, CacheInv, Current, Working, Pointers, One, OwnedByCF, OwnedByInstall
<1> QED
  BY <1>1, <1>2, <1>3, <1>4, <1>5, <1>6

\* NumberSuperVersion: the conjuncts of Shape.
LEMMA NumberSuperVersionShape ==
  ASSUME Shape, Owned, NumberSuperVersion
  PROVE  Shape'
<1> USE SVAssumption DEF Shape, NumberSuperVersion, Goto, Ref, Unref, readerVars, installVars
<1>1. TypeOK'
  BY SMTT(30) DEF TypeOK, Owned, Pointers, Steps, ThreadInv, InstallInv, CacheInv, Current, Working, One, OwnedByInstall
<1>2. ThreadInv'
  BY DEF TypeOK, ThreadInv, Pointers, Steps
<1>3. InstallInv'
  BY DEF TypeOK, InstallInv, CacheInv, Current, ThreadInv
<1>4. CacheInv'
  BY DEF TypeOK, CacheInv, Current, ThreadInv, InstallInv, Pointers
<1>5. NumberInv'
  BY SMTT(30) DEF TypeOK, NumberInv, ReadsAreFresh, CacheInv, Current, InstallInv, ThreadInv, Pointers
<1>6. StatusInv'
  BY SMTT(30) DEF TypeOK, StatusInv, Owned, WasLastRef, ThreadInv, InstallInv, CacheInv, Current, Working, Pointers, One, OwnedByCF, OwnedByInstall
<1> QED
  BY <1>1, <1>2, <1>3, <1>4, <1>5, <1>6

\* Swap: refs still counts the owners.
LEMMA SwapCount ==
  ASSUME Shape, RefsCount, CardFacts, NEW t \in Threads, Swap(t), NEW x \in SVs
  PROVE  refs'[x] = Owners(x)'
<1>1. CASE local_sv_[t] = x
  <2>c. CacheOf(x)' = CacheOf(x) \ {t} /\ t \in CacheOf(x)
    BY SVAssumption, <1>1 DEF Shape, TypeOK, ThreadInv, InstallInv, Working, Pointers, Swap, Goto, readerVars, installVars, CacheOf
  <2>r. ReadsOf(x)' = ReadsOf(x) \cup {t} /\ t \notin ReadsOf(x)
    BY SVAssumption, <1>1, SMTT(30) DEF Shape, TypeOK, ThreadInv, InstallInv, Working, Pointers, Swap, Goto, readerVars, installVars, ReadsOf
  <2>i. ItersOf(x)' = ItersOf(x)
    BY SVAssumption, <1>1 DEF Shape, TypeOK, ThreadInv, InstallInv, Working, Pointers, Swap, Goto, readerVars, installVars, ItersOf
  <2>s. ScrapedOf(x)' = ScrapedOf(x)
    BY SVAssumption, <1>1 DEF Shape, TypeOK, ThreadInv, InstallInv, Working, Pointers, Swap, Goto, readerVars, installVars, ScrapedOf
  <2>o. refs'[x] = refs[x] /\ OwnedByCF(x)' = OwnedByCF(x) /\ OwnedByInstall(x)' = OwnedByInstall(x)
    BY SVAssumption, <1>1 DEF Shape, TypeOK, ThreadInv, InstallInv, Working, Pointers, Swap, Goto, readerVars, installVars, Ref, Unref, OwnedByCF, OwnedByInstall
  <2>k. Cardinality(CacheOf(x)') = Cardinality(CacheOf(x)) - 1 /\ Cardinality(ReadsOf(x)') = Cardinality(ReadsOf(x)) + 1
    BY <2>c, <2>r, Sizes, SMTT(30) DEF CardFacts
  <2> QED
    BY <2>c, <2>r, <2>i, <2>o, <2>s, <2>k, Sizes, SMTT(30) DEF RefsCount, Owners, One
<1>2. CASE local_sv_[t] # x
  <2>c. CacheOf(x)' = CacheOf(x)
    BY SVAssumption, <1>2 DEF Shape, TypeOK, ThreadInv, InstallInv, Working, Pointers, Swap, Goto, readerVars, installVars, CacheOf
  <2>r. ReadsOf(x)' = ReadsOf(x)
    BY SVAssumption, <1>2, SMTT(30) DEF Shape, TypeOK, ThreadInv, InstallInv, Working, Pointers, Swap, Goto, readerVars, installVars, ReadsOf
  <2>i. ItersOf(x)' = ItersOf(x)
    BY SVAssumption, <1>2 DEF Shape, TypeOK, ThreadInv, InstallInv, Working, Pointers, Swap, Goto, readerVars, installVars, ItersOf
  <2>s. ScrapedOf(x)' = ScrapedOf(x)
    BY SVAssumption, <1>2 DEF Shape, TypeOK, ThreadInv, InstallInv, Working, Pointers, Swap, Goto, readerVars, installVars, ScrapedOf
  <2>o. refs'[x] = refs[x] /\ OwnedByCF(x)' = OwnedByCF(x) /\ OwnedByInstall(x)' = OwnedByInstall(x)
    BY SVAssumption, <1>2 DEF Shape, TypeOK, ThreadInv, InstallInv, Working, Pointers, Swap, Goto, readerVars, installVars, Ref, Unref, OwnedByCF, OwnedByInstall
  <2> QED
    BY <2>c, <2>r, <2>i, <2>o, <2>s, Sizes DEF RefsCount, Owners, One
<1> QED
  BY <1>1, <1>2

\* LockAndRef: refs still counts the owners.
LEMMA LockAndRefCount ==
  ASSUME Shape, RefsCount, CardFacts, NEW t \in Threads, LockAndRef(t), NEW x \in SVs
  PROVE  refs'[x] = Owners(x)'
<1>1. CASE super_version_ = x
  <2>c. CacheOf(x)' = CacheOf(x)
    BY SVAssumption, <1>1 DEF Shape, TypeOK, ThreadInv, InstallInv, Working, Pointers, LockAndRef, Goto, readerVars, installVars, DBMutexFree, CacheOf
  <2>r. ReadsOf(x)' = ReadsOf(x) \cup {t} /\ t \notin ReadsOf(x)
    BY SVAssumption, <1>1, SMTT(30) DEF Shape, TypeOK, ThreadInv, InstallInv, Working, Pointers, LockAndRef, Goto, readerVars, installVars, DBMutexFree, ReadsOf
  <2>i. ItersOf(x)' = ItersOf(x)
    BY SVAssumption, <1>1 DEF Shape, TypeOK, ThreadInv, InstallInv, Working, Pointers, LockAndRef, Goto, readerVars, installVars, DBMutexFree, ItersOf
  <2>s. ScrapedOf(x)' = ScrapedOf(x)
    BY SVAssumption, <1>1 DEF Shape, TypeOK, ThreadInv, InstallInv, Working, Pointers, LockAndRef, Goto, readerVars, installVars, DBMutexFree, ScrapedOf
  <2>o. refs'[x] = refs[x] + 1 /\ OwnedByCF(x)' = OwnedByCF(x) /\ OwnedByInstall(x)' = OwnedByInstall(x)
    BY SVAssumption, <1>1 DEF Shape, TypeOK, ThreadInv, InstallInv, Working, Pointers, LockAndRef, Goto, readerVars, installVars, DBMutexFree, Ref, Unref, OwnedByCF, OwnedByInstall
  <2>k. Cardinality(ReadsOf(x)') = Cardinality(ReadsOf(x)) + 1
    BY <2>r, Sizes, SMTT(30) DEF CardFacts
  <2> QED
    BY <2>c, <2>r, <2>i, <2>o, <2>s, <2>k, Sizes, SMTT(30) DEF RefsCount, Owners, One
<1>2. CASE super_version_ # x
  <2>c. CacheOf(x)' = CacheOf(x)
    BY SVAssumption, <1>2 DEF Shape, TypeOK, ThreadInv, InstallInv, Working, Pointers, LockAndRef, Goto, readerVars, installVars, DBMutexFree, CacheOf
  <2>r. ReadsOf(x)' = ReadsOf(x)
    BY SVAssumption, <1>2 DEF Shape, TypeOK, ThreadInv, InstallInv, Working, Pointers, LockAndRef, Goto, readerVars, installVars, DBMutexFree, ReadsOf
  <2>i. ItersOf(x)' = ItersOf(x)
    BY SVAssumption, <1>2 DEF Shape, TypeOK, ThreadInv, InstallInv, Working, Pointers, LockAndRef, Goto, readerVars, installVars, DBMutexFree, ItersOf
  <2>s. ScrapedOf(x)' = ScrapedOf(x)
    BY SVAssumption, <1>2 DEF Shape, TypeOK, ThreadInv, InstallInv, Working, Pointers, LockAndRef, Goto, readerVars, installVars, DBMutexFree, ScrapedOf
  <2>o. refs'[x] = refs[x] /\ OwnedByCF(x)' = OwnedByCF(x) /\ OwnedByInstall(x)' = OwnedByInstall(x)
    BY SVAssumption, <1>2 DEF Shape, TypeOK, ThreadInv, InstallInv, Working, Pointers, LockAndRef, Goto, readerVars, installVars, DBMutexFree, Ref, Unref, OwnedByCF, OwnedByInstall
  <2> QED
    BY <2>c, <2>r, <2>i, <2>o, <2>s, Sizes DEF RefsCount, Owners, One
<1> QED
  BY <1>1, <1>2

\* RefForIterator: refs still counts the owners.
LEMMA RefForIteratorCount ==
  ASSUME Shape, RefsCount, CardFacts, NEW t \in Threads, RefForIterator(t), NEW x \in SVs
  PROVE  refs'[x] = Owners(x)'
<1>1. CASE hold[t] = x
  <2>c. CacheOf(x)' = CacheOf(x)
    BY SVAssumption, <1>1 DEF Shape, TypeOK, ThreadInv, InstallInv, Working, Pointers, RefForIterator, Goto, readerVars, installVars, CacheOf
  <2>r. ReadsOf(x)' = ReadsOf(x)
    BY SVAssumption, <1>1 DEF Shape, TypeOK, ThreadInv, InstallInv, Working, Pointers, RefForIterator, Goto, readerVars, installVars, ReadsOf
  <2>i. ItersOf(x)' = ItersOf(x) \cup {t} /\ t \notin ItersOf(x)
    BY SVAssumption, <1>1, SMTT(30) DEF Shape, TypeOK, ThreadInv, InstallInv, Working, Pointers, RefForIterator, Goto, readerVars, installVars, ItersOf
  <2>s. ScrapedOf(x)' = ScrapedOf(x)
    BY SVAssumption, <1>1 DEF Shape, TypeOK, ThreadInv, InstallInv, Working, Pointers, RefForIterator, Goto, readerVars, installVars, ScrapedOf
  <2>o. refs'[x] = refs[x] + 1 /\ OwnedByCF(x)' = OwnedByCF(x) /\ OwnedByInstall(x)' = OwnedByInstall(x)
    BY SVAssumption, <1>1 DEF Shape, TypeOK, ThreadInv, InstallInv, Working, Pointers, RefForIterator, Goto, readerVars, installVars, Ref, Unref, OwnedByCF, OwnedByInstall
  <2>k. Cardinality(ItersOf(x)') = Cardinality(ItersOf(x)) + 1
    BY <2>i, Sizes, SMTT(30) DEF CardFacts
  <2> QED
    BY <2>c, <2>r, <2>i, <2>o, <2>s, <2>k, Sizes, SMTT(30) DEF RefsCount, Owners, One
<1>2. CASE hold[t] # x
  <2>c. CacheOf(x)' = CacheOf(x)
    BY SVAssumption, <1>2 DEF Shape, TypeOK, ThreadInv, InstallInv, Working, Pointers, RefForIterator, Goto, readerVars, installVars, CacheOf
  <2>r. ReadsOf(x)' = ReadsOf(x)
    BY SVAssumption, <1>2 DEF Shape, TypeOK, ThreadInv, InstallInv, Working, Pointers, RefForIterator, Goto, readerVars, installVars, ReadsOf
  <2>i. ItersOf(x)' = ItersOf(x)
    BY SVAssumption, <1>2 DEF Shape, TypeOK, ThreadInv, InstallInv, Working, Pointers, RefForIterator, Goto, readerVars, installVars, ItersOf
  <2>s. ScrapedOf(x)' = ScrapedOf(x)
    BY SVAssumption, <1>2 DEF Shape, TypeOK, ThreadInv, InstallInv, Working, Pointers, RefForIterator, Goto, readerVars, installVars, ScrapedOf
  <2>o. refs'[x] = refs[x] /\ OwnedByCF(x)' = OwnedByCF(x) /\ OwnedByInstall(x)' = OwnedByInstall(x)
    BY SVAssumption, <1>2 DEF Shape, TypeOK, ThreadInv, InstallInv, Working, Pointers, RefForIterator, Goto, readerVars, installVars, Ref, Unref, OwnedByCF, OwnedByInstall
  <2> QED
    BY <2>c, <2>r, <2>i, <2>o, <2>s, Sizes DEF RefsCount, Owners, One
<1> QED
  BY <1>1, <1>2

\* ReturnToCache: refs still counts the owners.
LEMMA ReturnToCacheCount ==
  ASSUME Shape, RefsCount, CardFacts, NEW t \in Threads, ReturnToCache(t), NEW x \in SVs
  PROVE  refs'[x] = Owners(x)'
<1>1. CASE hold[t] = x
  <2>c. CacheOf(x)' = CacheOf(x) \cup {t} /\ t \notin CacheOf(x)
    BY SVAssumption, <1>1, SMTT(30) DEF Shape, TypeOK, ThreadInv, InstallInv, Working, Pointers, ReturnToCache, Goto, readerVars, installVars, CacheOf
  <2>r. ReadsOf(x)' = ReadsOf(x) \ {t} /\ t \in ReadsOf(x)
    BY SVAssumption, <1>1 DEF Shape, TypeOK, ThreadInv, InstallInv, Working, Pointers, ReturnToCache, Goto, readerVars, installVars, ReadsOf
  <2>i. ItersOf(x)' = ItersOf(x)
    BY SVAssumption, <1>1 DEF Shape, TypeOK, ThreadInv, InstallInv, Working, Pointers, ReturnToCache, Goto, readerVars, installVars, ItersOf
  <2>s. ScrapedOf(x)' = ScrapedOf(x)
    BY SVAssumption, <1>1 DEF Shape, TypeOK, ThreadInv, InstallInv, Working, Pointers, ReturnToCache, Goto, readerVars, installVars, ScrapedOf
  <2>o. refs'[x] = refs[x] /\ OwnedByCF(x)' = OwnedByCF(x) /\ OwnedByInstall(x)' = OwnedByInstall(x)
    BY SVAssumption, <1>1 DEF Shape, TypeOK, ThreadInv, InstallInv, Working, Pointers, ReturnToCache, Goto, readerVars, installVars, Ref, Unref, OwnedByCF, OwnedByInstall
  <2>k. Cardinality(CacheOf(x)') = Cardinality(CacheOf(x)) + 1 /\ Cardinality(ReadsOf(x)') = Cardinality(ReadsOf(x)) - 1
    BY <2>c, <2>r, Sizes, SMTT(30) DEF CardFacts
  <2> QED
    BY <2>c, <2>r, <2>i, <2>o, <2>s, <2>k, Sizes, SMTT(30) DEF RefsCount, Owners, One
<1>2. CASE hold[t] # x
  <2>c. CacheOf(x)' = CacheOf(x)
    BY SVAssumption, <1>2 DEF Shape, TypeOK, ThreadInv, InstallInv, Working, Pointers, ReturnToCache, Goto, readerVars, installVars, CacheOf
  <2>r. ReadsOf(x)' = ReadsOf(x)
    BY SVAssumption, <1>2 DEF Shape, TypeOK, ThreadInv, InstallInv, Working, Pointers, ReturnToCache, Goto, readerVars, installVars, ReadsOf
  <2>i. ItersOf(x)' = ItersOf(x)
    BY SVAssumption, <1>2 DEF Shape, TypeOK, ThreadInv, InstallInv, Working, Pointers, ReturnToCache, Goto, readerVars, installVars, ItersOf
  <2>s. ScrapedOf(x)' = ScrapedOf(x)
    BY SVAssumption, <1>2 DEF Shape, TypeOK, ThreadInv, InstallInv, Working, Pointers, ReturnToCache, Goto, readerVars, installVars, ScrapedOf
  <2>o. refs'[x] = refs[x] /\ OwnedByCF(x)' = OwnedByCF(x) /\ OwnedByInstall(x)' = OwnedByInstall(x)
    BY SVAssumption, <1>2 DEF Shape, TypeOK, ThreadInv, InstallInv, Working, Pointers, ReturnToCache, Goto, readerVars, installVars, Ref, Unref, OwnedByCF, OwnedByInstall
  <2> QED
    BY <2>c, <2>r, <2>i, <2>o, <2>s, Sizes DEF RefsCount, Owners, One
<1> QED
  BY <1>1, <1>2

\* ReturnStale: refs still counts the owners.
LEMMA ReturnStaleCount ==
  ASSUME Shape, RefsCount, CardFacts, NEW t \in Threads, ReturnStale(t), NEW x \in SVs
  PROVE  refs'[x] = Owners(x)'
<1>c. CacheOf(x)' = CacheOf(x)
  BY SVAssumption DEF Shape, TypeOK, ThreadInv, InstallInv, Working, Pointers, ReturnStale, Goto, readerVars, installVars, CacheOf
<1>r. ReadsOf(x)' = ReadsOf(x)
  BY SVAssumption DEF Shape, TypeOK, ThreadInv, InstallInv, Working, Pointers, ReturnStale, Goto, readerVars, installVars, ReadsOf
<1>i. ItersOf(x)' = ItersOf(x)
  BY SVAssumption DEF Shape, TypeOK, ThreadInv, InstallInv, Working, Pointers, ReturnStale, Goto, readerVars, installVars, ItersOf
<1>s. ScrapedOf(x)' = ScrapedOf(x)
  BY SVAssumption DEF Shape, TypeOK, ThreadInv, InstallInv, Working, Pointers, ReturnStale, Goto, readerVars, installVars, ScrapedOf
<1>o. refs'[x] = refs[x] /\ OwnedByCF(x)' = OwnedByCF(x) /\ OwnedByInstall(x)' = OwnedByInstall(x)
  BY SVAssumption DEF Shape, TypeOK, ThreadInv, InstallInv, Working, Pointers, ReturnStale, Goto, readerVars, installVars, Ref, Unref, OwnedByCF, OwnedByInstall
<1> QED
  BY <1>c, <1>r, <1>i, <1>o, <1>s, Sizes DEF RefsCount, Owners, One

\* Release: refs still counts the owners.
LEMMA ReleaseCount ==
  ASSUME Shape, RefsCount, CardFacts, NEW t \in Threads, Release(t), NEW x \in SVs
  PROVE  refs'[x] = Owners(x)'
<1>1. CASE hold[t] = x
  <2>c. CacheOf(x)' = CacheOf(x)
    BY SVAssumption, <1>1 DEF Shape, TypeOK, ThreadInv, InstallInv, Working, Pointers, Release, Goto, readerVars, installVars, CacheOf
  <2>r. ReadsOf(x)' = ReadsOf(x) \ {t} /\ t \in ReadsOf(x)
    BY SVAssumption, <1>1, SMTT(30) DEF Shape, TypeOK, ThreadInv, InstallInv, Working, Pointers, Release, Goto, readerVars, installVars, ReadsOf
  <2>i. ItersOf(x)' = ItersOf(x)
    BY SVAssumption, <1>1 DEF Shape, TypeOK, ThreadInv, InstallInv, Working, Pointers, Release, Goto, readerVars, installVars, ItersOf
  <2>s. ScrapedOf(x)' = ScrapedOf(x)
    BY SVAssumption, <1>1 DEF Shape, TypeOK, ThreadInv, InstallInv, Working, Pointers, Release, Goto, readerVars, installVars, ScrapedOf
  <2>o. refs'[x] = refs[x] - 1 /\ OwnedByCF(x)' = OwnedByCF(x) /\ OwnedByInstall(x)' = OwnedByInstall(x)
    BY SVAssumption, <1>1 DEF Shape, TypeOK, ThreadInv, InstallInv, Working, Pointers, Release, Goto, readerVars, installVars, Ref, Unref, OwnedByCF, OwnedByInstall
  <2>k. Cardinality(ReadsOf(x)') = Cardinality(ReadsOf(x)) - 1
    BY <2>r, Sizes, SMTT(30) DEF CardFacts
  <2> QED
    BY <2>c, <2>r, <2>i, <2>o, <2>s, <2>k, Sizes, SMTT(30) DEF RefsCount, Owners, One
<1>2. CASE hold[t] # x
  <2>c. CacheOf(x)' = CacheOf(x)
    BY SVAssumption, <1>2 DEF Shape, TypeOK, ThreadInv, InstallInv, Working, Pointers, Release, Goto, readerVars, installVars, CacheOf
  <2>r. ReadsOf(x)' = ReadsOf(x)
    BY SVAssumption, <1>2, SMTT(30) DEF Shape, TypeOK, ThreadInv, InstallInv, Working, Pointers, Release, Goto, readerVars, installVars, ReadsOf
  <2>i. ItersOf(x)' = ItersOf(x)
    BY SVAssumption, <1>2 DEF Shape, TypeOK, ThreadInv, InstallInv, Working, Pointers, Release, Goto, readerVars, installVars, ItersOf
  <2>s. ScrapedOf(x)' = ScrapedOf(x)
    BY SVAssumption, <1>2 DEF Shape, TypeOK, ThreadInv, InstallInv, Working, Pointers, Release, Goto, readerVars, installVars, ScrapedOf
  <2>o. refs'[x] = refs[x] /\ OwnedByCF(x)' = OwnedByCF(x) /\ OwnedByInstall(x)' = OwnedByInstall(x)
    BY SVAssumption, <1>2 DEF Shape, TypeOK, ThreadInv, InstallInv, Working, Pointers, Release, Goto, readerVars, installVars, Ref, Unref, OwnedByCF, OwnedByInstall
  <2> QED
    BY <2>c, <2>r, <2>i, <2>o, <2>s, Sizes DEF RefsCount, Owners, One
<1> QED
  BY <1>1, <1>2

\* DropThreadRef: refs still counts the owners.
LEMMA DropThreadRefCount ==
  ASSUME Shape, RefsCount, CardFacts, NEW t \in Threads, DropThreadRef(t), NEW x \in SVs
  PROVE  refs'[x] = Owners(x)'
<1>1. CASE hold[t] = x
  <2>c. CacheOf(x)' = CacheOf(x)
    BY SVAssumption, <1>1 DEF Shape, TypeOK, ThreadInv, InstallInv, Working, Pointers, DropThreadRef, Goto, readerVars, installVars, CacheOf
  <2>r. ReadsOf(x)' = ReadsOf(x) \ {t} /\ t \in ReadsOf(x)
    BY SVAssumption, <1>1 DEF Shape, TypeOK, ThreadInv, InstallInv, Working, Pointers, DropThreadRef, Goto, readerVars, installVars, ReadsOf
  <2>i. ItersOf(x)' = ItersOf(x)
    BY SVAssumption, <1>1 DEF Shape, TypeOK, ThreadInv, InstallInv, Working, Pointers, DropThreadRef, Goto, readerVars, installVars, ItersOf
  <2>s. ScrapedOf(x)' = ScrapedOf(x)
    BY SVAssumption, <1>1 DEF Shape, TypeOK, ThreadInv, InstallInv, Working, Pointers, DropThreadRef, Goto, readerVars, installVars, ScrapedOf
  <2>o. refs'[x] = refs[x] - 1 /\ OwnedByCF(x)' = OwnedByCF(x) /\ OwnedByInstall(x)' = OwnedByInstall(x)
    BY SVAssumption, <1>1 DEF Shape, TypeOK, ThreadInv, InstallInv, Working, Pointers, DropThreadRef, Goto, readerVars, installVars, Ref, Unref, OwnedByCF, OwnedByInstall
  <2>k. Cardinality(ReadsOf(x)') = Cardinality(ReadsOf(x)) - 1
    BY <2>r, Sizes, SMTT(30) DEF CardFacts
  <2> QED
    BY <2>c, <2>r, <2>i, <2>o, <2>s, <2>k, Sizes, SMTT(30) DEF RefsCount, Owners, One
<1>2. CASE hold[t] # x
  <2>c. CacheOf(x)' = CacheOf(x)
    BY SVAssumption, <1>2 DEF Shape, TypeOK, ThreadInv, InstallInv, Working, Pointers, DropThreadRef, Goto, readerVars, installVars, CacheOf
  <2>r. ReadsOf(x)' = ReadsOf(x)
    BY SVAssumption, <1>2 DEF Shape, TypeOK, ThreadInv, InstallInv, Working, Pointers, DropThreadRef, Goto, readerVars, installVars, ReadsOf
  <2>i. ItersOf(x)' = ItersOf(x)
    BY SVAssumption, <1>2 DEF Shape, TypeOK, ThreadInv, InstallInv, Working, Pointers, DropThreadRef, Goto, readerVars, installVars, ItersOf
  <2>s. ScrapedOf(x)' = ScrapedOf(x)
    BY SVAssumption, <1>2 DEF Shape, TypeOK, ThreadInv, InstallInv, Working, Pointers, DropThreadRef, Goto, readerVars, installVars, ScrapedOf
  <2>o. refs'[x] = refs[x] /\ OwnedByCF(x)' = OwnedByCF(x) /\ OwnedByInstall(x)' = OwnedByInstall(x)
    BY SVAssumption, <1>2 DEF Shape, TypeOK, ThreadInv, InstallInv, Working, Pointers, DropThreadRef, Goto, readerVars, installVars, Ref, Unref, OwnedByCF, OwnedByInstall
  <2> QED
    BY <2>c, <2>r, <2>i, <2>o, <2>s, Sizes DEF RefsCount, Owners, One
<1> QED
  BY <1>1, <1>2

\* CloseIterator: refs still counts the owners.
LEMMA CloseIteratorCount ==
  ASSUME Shape, RefsCount, CardFacts, NEW t \in Threads, CloseIterator(t), NEW x \in SVs
  PROVE  refs'[x] = Owners(x)'
<1>1. CASE iter[t] = x
  <2>c. CacheOf(x)' = CacheOf(x)
    BY SVAssumption, <1>1 DEF Shape, TypeOK, ThreadInv, InstallInv, Working, Pointers, CloseIterator, Goto, readerVars, installVars, CacheOf
  <2>r. ReadsOf(x)' = ReadsOf(x)
    BY SVAssumption, <1>1, SMTT(30) DEF Shape, TypeOK, ThreadInv, InstallInv, Working, Pointers, CloseIterator, Goto, readerVars, installVars, ReadsOf
  <2>i. ItersOf(x)' = ItersOf(x) \ {t} /\ t \in ItersOf(x)
    BY SVAssumption, <1>1 DEF Shape, TypeOK, ThreadInv, InstallInv, Working, Pointers, CloseIterator, Goto, readerVars, installVars, ItersOf
  <2>s. ScrapedOf(x)' = ScrapedOf(x)
    BY SVAssumption, <1>1 DEF Shape, TypeOK, ThreadInv, InstallInv, Working, Pointers, CloseIterator, Goto, readerVars, installVars, ScrapedOf
  <2>o. refs'[x] = refs[x] - 1 /\ OwnedByCF(x)' = OwnedByCF(x) /\ OwnedByInstall(x)' = OwnedByInstall(x)
    BY SVAssumption, <1>1 DEF Shape, TypeOK, ThreadInv, InstallInv, Working, Pointers, CloseIterator, Goto, readerVars, installVars, Ref, Unref, OwnedByCF, OwnedByInstall
  <2>k. Cardinality(ItersOf(x)') = Cardinality(ItersOf(x)) - 1
    BY <2>i, Sizes, SMTT(30) DEF CardFacts
  <2> QED
    BY <2>c, <2>r, <2>i, <2>o, <2>s, <2>k, Sizes, SMTT(30) DEF RefsCount, Owners, One
<1>2. CASE iter[t] # x
  <2>c. CacheOf(x)' = CacheOf(x)
    BY SVAssumption, <1>2 DEF Shape, TypeOK, ThreadInv, InstallInv, Working, Pointers, CloseIterator, Goto, readerVars, installVars, CacheOf
  <2>r. ReadsOf(x)' = ReadsOf(x)
    BY SVAssumption, <1>2, SMTT(30) DEF Shape, TypeOK, ThreadInv, InstallInv, Working, Pointers, CloseIterator, Goto, readerVars, installVars, ReadsOf
  <2>i. ItersOf(x)' = ItersOf(x)
    BY SVAssumption, <1>2 DEF Shape, TypeOK, ThreadInv, InstallInv, Working, Pointers, CloseIterator, Goto, readerVars, installVars, ItersOf
  <2>s. ScrapedOf(x)' = ScrapedOf(x)
    BY SVAssumption, <1>2 DEF Shape, TypeOK, ThreadInv, InstallInv, Working, Pointers, CloseIterator, Goto, readerVars, installVars, ScrapedOf
  <2>o. refs'[x] = refs[x] /\ OwnedByCF(x)' = OwnedByCF(x) /\ OwnedByInstall(x)' = OwnedByInstall(x)
    BY SVAssumption, <1>2 DEF Shape, TypeOK, ThreadInv, InstallInv, Working, Pointers, CloseIterator, Goto, readerVars, installVars, Ref, Unref, OwnedByCF, OwnedByInstall
  <2> QED
    BY <2>c, <2>r, <2>i, <2>o, <2>s, Sizes DEF RefsCount, Owners, One
<1> QED
  BY <1>1, <1>2

\* Cleanup: refs still counts the owners.
LEMMA CleanupCount ==
  ASSUME Shape, RefsCount, CardFacts, NEW t \in Threads, Cleanup(t), NEW x \in SVs
  PROVE  refs'[x] = Owners(x)'
<1>c. CacheOf(x)' = CacheOf(x)
  BY SVAssumption DEF Shape, TypeOK, ThreadInv, InstallInv, Working, Pointers, Cleanup, Goto, readerVars, installVars, DBMutexFree, CacheOf
<1>r. ReadsOf(x)' = ReadsOf(x)
  BY SVAssumption DEF Shape, TypeOK, ThreadInv, InstallInv, Working, Pointers, Cleanup, Goto, readerVars, installVars, DBMutexFree, ReadsOf
<1>i. ItersOf(x)' = ItersOf(x)
  BY SVAssumption DEF Shape, TypeOK, ThreadInv, InstallInv, Working, Pointers, Cleanup, Goto, readerVars, installVars, DBMutexFree, ItersOf
<1>s. ScrapedOf(x)' = ScrapedOf(x)
  BY SVAssumption DEF Shape, TypeOK, ThreadInv, InstallInv, Working, Pointers, Cleanup, Goto, readerVars, installVars, DBMutexFree, ScrapedOf
<1>o. refs'[x] = refs[x] /\ OwnedByCF(x)' = OwnedByCF(x) /\ OwnedByInstall(x)' = OwnedByInstall(x)
  BY SVAssumption DEF Shape, TypeOK, ThreadInv, InstallInv, Working, Pointers, Cleanup, Goto, readerVars, installVars, DBMutexFree, Ref, Unref, OwnedByCF, OwnedByInstall
<1> QED
  BY <1>c, <1>r, <1>i, <1>o, <1>s, Sizes DEF RefsCount, Owners, One

\* ThreadExit: refs still counts the owners.
LEMMA ThreadExitCount ==
  ASSUME Shape, RefsCount, CardFacts, NEW t \in Threads, ThreadExit(t), NEW x \in SVs
  PROVE  refs'[x] = Owners(x)'
<1>1. CASE local_sv_[t] = x
  <2>c. CacheOf(x)' = CacheOf(x) \ {t} /\ t \in CacheOf(x)
    BY SVAssumption, <1>1 DEF Shape, TypeOK, ThreadInv, InstallInv, Working, Pointers, ThreadExit, Goto, readerVars, installVars, CacheOf
  <2>r. ReadsOf(x)' = ReadsOf(x)
    BY SVAssumption, <1>1 DEF Shape, TypeOK, ThreadInv, InstallInv, Working, Pointers, ThreadExit, Goto, readerVars, installVars, ReadsOf
  <2>i. ItersOf(x)' = ItersOf(x)
    BY SVAssumption, <1>1 DEF Shape, TypeOK, ThreadInv, InstallInv, Working, Pointers, ThreadExit, Goto, readerVars, installVars, ItersOf
  <2>s. ScrapedOf(x)' = ScrapedOf(x)
    BY SVAssumption, <1>1 DEF Shape, TypeOK, ThreadInv, InstallInv, Working, Pointers, ThreadExit, Goto, readerVars, installVars, ScrapedOf
  <2>o. refs'[x] = refs[x] - 1 /\ OwnedByCF(x)' = OwnedByCF(x) /\ OwnedByInstall(x)' = OwnedByInstall(x)
    BY SVAssumption, <1>1 DEF Shape, TypeOK, ThreadInv, InstallInv, Working, Pointers, ThreadExit, Goto, readerVars, installVars, Ref, Unref, OwnedByCF, OwnedByInstall
  <2>k. Cardinality(CacheOf(x)') = Cardinality(CacheOf(x)) - 1
    BY <2>c, Sizes, SMTT(30) DEF CardFacts
  <2> QED
    BY <2>c, <2>r, <2>i, <2>o, <2>s, <2>k, Sizes, SMTT(30) DEF RefsCount, Owners, One
<1>2. CASE local_sv_[t] # x
  <2>c. CacheOf(x)' = CacheOf(x)
    BY SVAssumption, <1>2 DEF Shape, TypeOK, ThreadInv, InstallInv, Working, Pointers, ThreadExit, Goto, readerVars, installVars, CacheOf
  <2>r. ReadsOf(x)' = ReadsOf(x)
    BY SVAssumption, <1>2 DEF Shape, TypeOK, ThreadInv, InstallInv, Working, Pointers, ThreadExit, Goto, readerVars, installVars, ReadsOf
  <2>i. ItersOf(x)' = ItersOf(x)
    BY SVAssumption, <1>2 DEF Shape, TypeOK, ThreadInv, InstallInv, Working, Pointers, ThreadExit, Goto, readerVars, installVars, ItersOf
  <2>s. ScrapedOf(x)' = ScrapedOf(x)
    BY SVAssumption, <1>2 DEF Shape, TypeOK, ThreadInv, InstallInv, Working, Pointers, ThreadExit, Goto, readerVars, installVars, ScrapedOf
  <2>o. refs'[x] = refs[x] /\ OwnedByCF(x)' = OwnedByCF(x) /\ OwnedByInstall(x)' = OwnedByInstall(x)
    BY SVAssumption, <1>2 DEF Shape, TypeOK, ThreadInv, InstallInv, Working, Pointers, ThreadExit, Goto, readerVars, installVars, Ref, Unref, OwnedByCF, OwnedByInstall
  <2> QED
    BY <2>c, <2>r, <2>i, <2>o, <2>s, Sizes DEF RefsCount, Owners, One
<1> QED
  BY <1>1, <1>2

\* InstallBegin: refs still counts the owners.
LEMMA InstallBeginCount ==
  ASSUME Shape, RefsCount, CardFacts, NEW s \in SVs, InstallBegin(s), NEW x \in SVs
  PROVE  refs'[x] = Owners(x)'
<1>0. s # super_version_
  <2>1. refs[super_version_] # 0
    BY OwnedLemma, SMTT(30) DEF Shape, TypeOK, Owned, One, OwnedByCF, OwnedByInstall
  <2> QED
    BY <2>1 DEF Shape, TypeOK, StatusInv, InstallBegin
<1>1. CASE s = x
  <2>c. CacheOf(x)' = CacheOf(x)
    BY SVAssumption, <1>1, <1>0 DEF Shape, TypeOK, ThreadInv, InstallInv, Working, Pointers, InstallBegin, Goto, readerVars, installVars, DBMutexFree, CacheOf
  <2>r. ReadsOf(x)' = ReadsOf(x)
    BY SVAssumption, <1>1, <1>0 DEF Shape, TypeOK, ThreadInv, InstallInv, Working, Pointers, InstallBegin, Goto, readerVars, installVars, DBMutexFree, ReadsOf
  <2>i. ItersOf(x)' = ItersOf(x)
    BY SVAssumption, <1>1, <1>0 DEF Shape, TypeOK, ThreadInv, InstallInv, Working, Pointers, InstallBegin, Goto, readerVars, installVars, DBMutexFree, ItersOf
  <2>s. ScrapedOf(x)' = ScrapedOf(x)
    BY SVAssumption, <1>1, <1>0 DEF Shape, TypeOK, ThreadInv, InstallInv, Working, Pointers, InstallBegin, Goto, readerVars, installVars, DBMutexFree, ScrapedOf
  <2>o. refs'[x] = 1 /\ OwnedByCF(x)' /\ ~OwnedByInstall(x)' /\ refs[x] = 0
    BY SVAssumption, <1>1, <1>0, SMTT(30) DEF Shape, TypeOK, ThreadInv, InstallInv, Working, Pointers, InstallBegin, Goto, readerVars, installVars, DBMutexFree, Ref, Unref, OwnedByCF, OwnedByInstall, StatusInv
  <2> QED
    BY <2>c, <2>r, <2>i, <2>o, <2>s, Sizes, SMTT(30) DEF RefsCount, Owners, One, CardFacts
<1>2. CASE super_version_ = x
  <2>c. CacheOf(x)' = CacheOf(x)
    BY SVAssumption, <1>2, <1>0 DEF Shape, TypeOK, ThreadInv, InstallInv, Working, Pointers, InstallBegin, Goto, readerVars, installVars, DBMutexFree, CacheOf
  <2>r. ReadsOf(x)' = ReadsOf(x)
    BY SVAssumption, <1>2, <1>0 DEF Shape, TypeOK, ThreadInv, InstallInv, Working, Pointers, InstallBegin, Goto, readerVars, installVars, DBMutexFree, ReadsOf
  <2>i. ItersOf(x)' = ItersOf(x)
    BY SVAssumption, <1>2, <1>0 DEF Shape, TypeOK, ThreadInv, InstallInv, Working, Pointers, InstallBegin, Goto, readerVars, installVars, DBMutexFree, ItersOf
  <2>s. ScrapedOf(x)' = ScrapedOf(x)
    BY SVAssumption, <1>2, <1>0 DEF Shape, TypeOK, ThreadInv, InstallInv, Working, Pointers, InstallBegin, Goto, readerVars, installVars, DBMutexFree, ScrapedOf
  <2>o. refs'[x] = refs[x] /\ OwnedByCF(x) /\ ~OwnedByInstall(x) /\ ~OwnedByCF(x)' /\ OwnedByInstall(x)'
    BY SVAssumption, <1>2, <1>0, SMTT(30) DEF Shape, TypeOK, ThreadInv, InstallInv, Working, Pointers, InstallBegin, Goto, readerVars, installVars, DBMutexFree, Ref, Unref, OwnedByCF, OwnedByInstall, StatusInv
  <2> QED
    BY <2>c, <2>r, <2>i, <2>o, <2>s, Sizes, SMTT(30) DEF RefsCount, Owners, One, CardFacts
<1>3. CASE s # x /\ super_version_ # x
  <2>c. CacheOf(x)' = CacheOf(x)
    BY SVAssumption, <1>3 DEF Shape, TypeOK, ThreadInv, InstallInv, Working, Pointers, InstallBegin, Goto, readerVars, installVars, DBMutexFree, CacheOf
  <2>r. ReadsOf(x)' = ReadsOf(x)
    BY SVAssumption, <1>3 DEF Shape, TypeOK, ThreadInv, InstallInv, Working, Pointers, InstallBegin, Goto, readerVars, installVars, DBMutexFree, ReadsOf
  <2>i. ItersOf(x)' = ItersOf(x)
    BY SVAssumption, <1>3 DEF Shape, TypeOK, ThreadInv, InstallInv, Working, Pointers, InstallBegin, Goto, readerVars, installVars, DBMutexFree, ItersOf
  <2>s. ScrapedOf(x)' = ScrapedOf(x)
    BY SVAssumption, <1>3 DEF Shape, TypeOK, ThreadInv, InstallInv, Working, Pointers, InstallBegin, Goto, readerVars, installVars, DBMutexFree, ScrapedOf
  <2>o. refs'[x] = refs[x] /\ OwnedByCF(x)' = OwnedByCF(x) /\ OwnedByInstall(x)' = OwnedByInstall(x)
    BY SVAssumption, <1>3 DEF Shape, TypeOK, ThreadInv, InstallInv, Working, Pointers, InstallBegin, Goto, readerVars, installVars, DBMutexFree, Ref, Unref, OwnedByCF, OwnedByInstall
  <2> QED
    BY <2>c, <2>r, <2>i, <2>o, <2>s, Sizes DEF RefsCount, Owners, One
<1> QED
  BY <1>1, <1>2, <1>3

\* ScrapeOne: refs still counts the owners.
LEMMA ScrapeOneCount ==
  ASSUME Shape, RefsCount, CardFacts, NEW t \in Threads, ScrapeOne(t), NEW x \in SVs
  PROVE  refs'[x] = Owners(x)'
<1>1. CASE local_sv_[t] = x
  <2>c. CacheOf(x)' = CacheOf(x) \ {t} /\ t \in CacheOf(x)
    BY SVAssumption, <1>1 DEF Shape, TypeOK, ThreadInv, InstallInv, Working, Pointers, ScrapeOne, Goto, readerVars, installVars, CacheOf
  <2>r. ReadsOf(x)' = ReadsOf(x)
    BY SVAssumption, <1>1 DEF Shape, TypeOK, ThreadInv, InstallInv, Working, Pointers, ScrapeOne, Goto, readerVars, installVars, ReadsOf
  <2>i. ItersOf(x)' = ItersOf(x)
    BY SVAssumption, <1>1 DEF Shape, TypeOK, ThreadInv, InstallInv, Working, Pointers, ScrapeOne, Goto, readerVars, installVars, ItersOf
  <2>s. ScrapedOf(x)' = ScrapedOf(x) \cup {t} /\ t \notin ScrapedOf(x)
    BY SVAssumption, <1>1, SMTT(30) DEF Shape, TypeOK, ThreadInv, InstallInv, Working, Pointers, ScrapeOne, Goto, readerVars, installVars, ScrapedOf
  <2>o. refs'[x] = refs[x] /\ OwnedByCF(x)' = OwnedByCF(x) /\ OwnedByInstall(x)' = OwnedByInstall(x)
    BY SVAssumption, <1>1 DEF Shape, TypeOK, ThreadInv, InstallInv, Working, Pointers, ScrapeOne, Goto, readerVars, installVars, Ref, Unref, OwnedByCF, OwnedByInstall
  <2>k. Cardinality(CacheOf(x)') = Cardinality(CacheOf(x)) - 1 /\ Cardinality(ScrapedOf(x)') = Cardinality(ScrapedOf(x)) + 1
    BY <2>c, <2>s, Sizes, SMTT(30) DEF CardFacts
  <2> QED
    BY <2>c, <2>r, <2>i, <2>o, <2>s, <2>k, Sizes, SMTT(30) DEF RefsCount, Owners, One
<1>2. CASE local_sv_[t] # x
  <2>c. CacheOf(x)' = CacheOf(x)
    BY SVAssumption, <1>2 DEF Shape, TypeOK, ThreadInv, InstallInv, Working, Pointers, ScrapeOne, Goto, readerVars, installVars, CacheOf
  <2>r. ReadsOf(x)' = ReadsOf(x)
    BY SVAssumption, <1>2 DEF Shape, TypeOK, ThreadInv, InstallInv, Working, Pointers, ScrapeOne, Goto, readerVars, installVars, ReadsOf
  <2>i. ItersOf(x)' = ItersOf(x)
    BY SVAssumption, <1>2 DEF Shape, TypeOK, ThreadInv, InstallInv, Working, Pointers, ScrapeOne, Goto, readerVars, installVars, ItersOf
  <2>s. ScrapedOf(x)' = ScrapedOf(x)
    BY SVAssumption, <1>2 DEF Shape, TypeOK, ThreadInv, InstallInv, Working, Pointers, ScrapeOne, Goto, readerVars, installVars, ScrapedOf
  <2>o. refs'[x] = refs[x] /\ OwnedByCF(x)' = OwnedByCF(x) /\ OwnedByInstall(x)' = OwnedByInstall(x)
    BY SVAssumption, <1>2 DEF Shape, TypeOK, ThreadInv, InstallInv, Working, Pointers, ScrapeOne, Goto, readerVars, installVars, Ref, Unref, OwnedByCF, OwnedByInstall
  <2> QED
    BY <2>c, <2>r, <2>i, <2>o, <2>s, Sizes DEF RefsCount, Owners, One
<1> QED
  BY <1>1, <1>2

\* EndScrape: refs still counts the owners.
LEMMA EndScrapeCount ==
  ASSUME Shape, RefsCount, CardFacts, EndScrape, NEW x \in SVs
  PROVE  refs'[x] = Owners(x)'
<1>c. CacheOf(x)' = CacheOf(x)
  BY SVAssumption DEF Shape, TypeOK, ThreadInv, InstallInv, Working, Pointers, EndScrape, Goto, readerVars, installVars, CacheOf
<1>r. ReadsOf(x)' = ReadsOf(x)
  BY SVAssumption DEF Shape, TypeOK, ThreadInv, InstallInv, Working, Pointers, EndScrape, Goto, readerVars, installVars, ReadsOf
<1>i. ItersOf(x)' = ItersOf(x)
  BY SVAssumption DEF Shape, TypeOK, ThreadInv, InstallInv, Working, Pointers, EndScrape, Goto, readerVars, installVars, ItersOf
<1>s. ScrapedOf(x)' = ScrapedOf(x)
  BY SVAssumption DEF Shape, TypeOK, ThreadInv, InstallInv, Working, Pointers, EndScrape, Goto, readerVars, installVars, ScrapedOf
<1>o. refs'[x] = refs[x] /\ OwnedByCF(x)' = OwnedByCF(x) /\ OwnedByInstall(x)' = OwnedByInstall(x)
  BY SVAssumption DEF Shape, TypeOK, ThreadInv, InstallInv, Working, Pointers, EndScrape, Goto, readerVars, installVars, Ref, Unref, OwnedByCF, OwnedByInstall
<1> QED
  BY <1>c, <1>r, <1>i, <1>o, <1>s, Sizes DEF RefsCount, Owners, One

\* UnrefScraped: refs still counts the owners.
LEMMA UnrefScrapedCount ==
  ASSUME Shape, RefsCount, CardFacts, NEW p \in ptrs, UnrefScraped(p), NEW x \in SVs
  PROVE  refs'[x] = Owners(x)'
<1>1. CASE p[2] = x
  <2>c. CacheOf(x)' = CacheOf(x)
    BY SVAssumption, <1>1 DEF Shape, TypeOK, ThreadInv, InstallInv, Working, Pointers, UnrefScraped, Goto, readerVars, installVars, CacheOf
  <2>r. ReadsOf(x)' = ReadsOf(x)
    BY SVAssumption, <1>1 DEF Shape, TypeOK, ThreadInv, InstallInv, Working, Pointers, UnrefScraped, Goto, readerVars, installVars, ReadsOf
  <2>i. ItersOf(x)' = ItersOf(x)
    BY SVAssumption, <1>1 DEF Shape, TypeOK, ThreadInv, InstallInv, Working, Pointers, UnrefScraped, Goto, readerVars, installVars, ItersOf
  <2>s. ScrapedOf(x)' = ScrapedOf(x) \ {p[1]} /\ p[1] \in ScrapedOf(x)
    BY SVAssumption, <1>1, SMTT(30) DEF Shape, TypeOK, ThreadInv, InstallInv, Working, Pointers, UnrefScraped, Goto, readerVars, installVars, ScrapedOf
  <2>o. refs'[x] = refs[x] - 1 /\ OwnedByCF(x)' = OwnedByCF(x) /\ OwnedByInstall(x)' = OwnedByInstall(x)
    BY SVAssumption, <1>1 DEF Shape, TypeOK, ThreadInv, InstallInv, Working, Pointers, UnrefScraped, Goto, readerVars, installVars, Ref, Unref, OwnedByCF, OwnedByInstall
  <2>k. Cardinality(ScrapedOf(x)') = Cardinality(ScrapedOf(x)) - 1
    BY <2>s, Sizes, SMTT(30) DEF CardFacts
  <2> QED
    BY <2>c, <2>r, <2>i, <2>o, <2>s, <2>k, Sizes, SMTT(30) DEF RefsCount, Owners, One
<1>2. CASE p[2] # x
  <2>c. CacheOf(x)' = CacheOf(x)
    BY SVAssumption, <1>2 DEF Shape, TypeOK, ThreadInv, InstallInv, Working, Pointers, UnrefScraped, Goto, readerVars, installVars, CacheOf
  <2>r. ReadsOf(x)' = ReadsOf(x)
    BY SVAssumption, <1>2 DEF Shape, TypeOK, ThreadInv, InstallInv, Working, Pointers, UnrefScraped, Goto, readerVars, installVars, ReadsOf
  <2>i. ItersOf(x)' = ItersOf(x)
    BY SVAssumption, <1>2 DEF Shape, TypeOK, ThreadInv, InstallInv, Working, Pointers, UnrefScraped, Goto, readerVars, installVars, ItersOf
  <2>s. ScrapedOf(x)' = ScrapedOf(x)
    BY SVAssumption, <1>2, SMTT(30) DEF Shape, TypeOK, ThreadInv, InstallInv, Working, Pointers, UnrefScraped, Goto, readerVars, installVars, ScrapedOf
  <2>o. refs'[x] = refs[x] /\ OwnedByCF(x)' = OwnedByCF(x) /\ OwnedByInstall(x)' = OwnedByInstall(x)
    BY SVAssumption, <1>2 DEF Shape, TypeOK, ThreadInv, InstallInv, Working, Pointers, UnrefScraped, Goto, readerVars, installVars, Ref, Unref, OwnedByCF, OwnedByInstall
  <2> QED
    BY <2>c, <2>r, <2>i, <2>o, <2>s, Sizes DEF RefsCount, Owners, One
<1> QED
  BY <1>1, <1>2

\* UnrefOld: refs still counts the owners.
LEMMA UnrefOldCount ==
  ASSUME Shape, RefsCount, CardFacts, UnrefOld, NEW x \in SVs
  PROVE  refs'[x] = Owners(x)'
<1>1. CASE old = x
  <2>c. CacheOf(x)' = CacheOf(x)
    BY SVAssumption, <1>1 DEF Shape, TypeOK, ThreadInv, InstallInv, Working, Pointers, UnrefOld, Goto, readerVars, installVars, CacheOf
  <2>r. ReadsOf(x)' = ReadsOf(x)
    BY SVAssumption, <1>1 DEF Shape, TypeOK, ThreadInv, InstallInv, Working, Pointers, UnrefOld, Goto, readerVars, installVars, ReadsOf
  <2>i. ItersOf(x)' = ItersOf(x)
    BY SVAssumption, <1>1 DEF Shape, TypeOK, ThreadInv, InstallInv, Working, Pointers, UnrefOld, Goto, readerVars, installVars, ItersOf
  <2>s. ScrapedOf(x)' = ScrapedOf(x)
    BY SVAssumption, <1>1 DEF Shape, TypeOK, ThreadInv, InstallInv, Working, Pointers, UnrefOld, Goto, readerVars, installVars, ScrapedOf
  <2>o. refs'[x] = refs[x] - 1 /\ OwnedByInstall(x) /\ ~OwnedByInstall(x)' /\ OwnedByCF(x)' = OwnedByCF(x)
    BY SVAssumption, <1>1 DEF Shape, TypeOK, ThreadInv, InstallInv, Working, Pointers, UnrefOld, Goto, readerVars, installVars, Ref, Unref, OwnedByCF, OwnedByInstall
  <2> QED
    BY <2>c, <2>r, <2>i, <2>o, <2>s, Sizes, SMTT(30) DEF RefsCount, Owners, One
<1>2. CASE old # x
  <2>c. CacheOf(x)' = CacheOf(x)
    BY SVAssumption, <1>2 DEF Shape, TypeOK, ThreadInv, InstallInv, Working, Pointers, UnrefOld, Goto, readerVars, installVars, CacheOf
  <2>r. ReadsOf(x)' = ReadsOf(x)
    BY SVAssumption, <1>2 DEF Shape, TypeOK, ThreadInv, InstallInv, Working, Pointers, UnrefOld, Goto, readerVars, installVars, ReadsOf
  <2>i. ItersOf(x)' = ItersOf(x)
    BY SVAssumption, <1>2 DEF Shape, TypeOK, ThreadInv, InstallInv, Working, Pointers, UnrefOld, Goto, readerVars, installVars, ItersOf
  <2>s. ScrapedOf(x)' = ScrapedOf(x)
    BY SVAssumption, <1>2 DEF Shape, TypeOK, ThreadInv, InstallInv, Working, Pointers, UnrefOld, Goto, readerVars, installVars, ScrapedOf
  <2>o. refs'[x] = refs[x] /\ OwnedByCF(x)' = OwnedByCF(x) /\ OwnedByInstall(x)' = OwnedByInstall(x)
    BY SVAssumption, <1>2 DEF Shape, TypeOK, ThreadInv, InstallInv, Working, Pointers, UnrefOld, Goto, readerVars, installVars, Ref, Unref, OwnedByCF, OwnedByInstall
  <2> QED
    BY <2>c, <2>r, <2>i, <2>o, <2>s, Sizes DEF RefsCount, Owners, One
<1> QED
  BY <1>1, <1>2

\* NumberSuperVersion: refs still counts the owners.
LEMMA NumberSuperVersionCount ==
  ASSUME Shape, RefsCount, CardFacts, NumberSuperVersion, NEW x \in SVs
  PROVE  refs'[x] = Owners(x)'
<1>c. CacheOf(x)' = CacheOf(x)
  BY SVAssumption DEF Shape, TypeOK, ThreadInv, InstallInv, Working, Pointers, NumberSuperVersion, Goto, readerVars, installVars, CacheOf
<1>r. ReadsOf(x)' = ReadsOf(x)
  BY SVAssumption DEF Shape, TypeOK, ThreadInv, InstallInv, Working, Pointers, NumberSuperVersion, Goto, readerVars, installVars, ReadsOf
<1>i. ItersOf(x)' = ItersOf(x)
  BY SVAssumption DEF Shape, TypeOK, ThreadInv, InstallInv, Working, Pointers, NumberSuperVersion, Goto, readerVars, installVars, ItersOf
<1>s. ScrapedOf(x)' = ScrapedOf(x)
  BY SVAssumption DEF Shape, TypeOK, ThreadInv, InstallInv, Working, Pointers, NumberSuperVersion, Goto, readerVars, installVars, ScrapedOf
<1>o. refs'[x] = refs[x] /\ OwnedByCF(x)' = OwnedByCF(x) /\ OwnedByInstall(x)' = OwnedByInstall(x)
  BY SVAssumption DEF Shape, TypeOK, ThreadInv, InstallInv, Working, Pointers, NumberSuperVersion, Goto, readerVars, installVars, Ref, Unref, OwnedByCF, OwnedByInstall
<1> QED
  BY <1>c, <1>r, <1>i, <1>o, <1>s, Sizes DEF RefsCount, Owners, One

-----------------------------------------------------------------------------
\* The facts about cardinality that the lemmas assume.
LEMMA CardFactsHold == CardFacts
<1> SUFFICES ASSUME NEW S \in SUBSET Threads PROVE CardFacts!(S)
  BY DEF CardFacts
<1>1. IsFiniteSet(S)
  BY ThreadAssumption, FS_Subset
<1> QED
  BY <1>1, FS_CardinalityType, FS_EmptySet, FS_AddElement, FS_RemoveElement

\* The invariant gives Owned, in this state and in the next.
LEMMA IInvOwned == IInv => Owned
BY OwnedLemma, CardFactsHold DEF IInv, Shape

\* In the initial state only the column family owns a reference.
LEMMA InitIInv == Init => IInv
<1> SUFFICES ASSUME Init PROVE IInv
  OBVIOUS
<1>1. Shape
  BY SVAssumption, SMTT(30) DEF Init, Shape, TypeOK, ThreadInv, InstallInv, CacheInv, NumberInv,
     StatusInv, ReadsAreFresh, Pointers, Steps
<1>2. ASSUME NEW s \in SVs PROVE refs[s] = Owners(s)
  <2>1. CacheOf(s) = {} /\ ReadsOf(s) = {} /\ ItersOf(s) = {} /\ ScrapedOf(s) = {}
    BY SVAssumption DEF Init, CacheOf, ReadsOf, ItersOf, ScrapedOf, Working
  <2> QED
    BY <2>1, CardFactsHold, FS_EmptySet, SMTT(30) DEF Init, Owners, One, OwnedByCF, OwnedByInstall
<1> QED
  BY <1>1, <1>2 DEF IInv, RefsCount

\* Every step preserves the invariant, one case per action.
LEMMA NextIInv == IInv /\ [Next]_svVars => IInv'
<1> SUFFICES ASSUME IInv, [Next]_svVars PROVE IInv'
  OBVIOUS
<1>o. Owned
  BY IInvOwned
<1> USE CardFactsHold, <1>o DEF IInv, RefsCount
<1>1. ASSUME NEW t \in Threads, Swap(t) PROVE IInv'
  BY <1>1, SwapShape, SwapCount
<1>2. ASSUME NEW t \in Threads, LockAndRef(t) PROVE IInv'
  BY <1>2, LockAndRefShape, LockAndRefCount
<1>3. ASSUME NEW t \in Threads, RefForIterator(t) PROVE IInv'
  BY <1>3, RefForIteratorShape, RefForIteratorCount
<1>4. ASSUME NEW t \in Threads, ReturnToCache(t) PROVE IInv'
  BY <1>4, ReturnToCacheShape, ReturnToCacheCount
<1>5. ASSUME NEW t \in Threads, ReturnStale(t) PROVE IInv'
  BY <1>5, ReturnStaleShape, ReturnStaleCount
<1>6. ASSUME NEW t \in Threads, Release(t) PROVE IInv'
  BY <1>6, ReleaseShape, ReleaseCount
<1>7. ASSUME NEW t \in Threads, DropThreadRef(t) PROVE IInv'
  BY <1>7, DropThreadRefShape, DropThreadRefCount
<1>8. ASSUME NEW t \in Threads, CloseIterator(t) PROVE IInv'
  BY <1>8, CloseIteratorShape, CloseIteratorCount
<1>9. ASSUME NEW t \in Threads, Cleanup(t) PROVE IInv'
  BY <1>9, CleanupShape, CleanupCount
<1>10. ASSUME NEW t \in Threads, ThreadExit(t) PROVE IInv'
  BY <1>10, ThreadExitShape, ThreadExitCount
<1>11. ASSUME NEW s \in SVs, InstallBegin(s) PROVE IInv'
  BY <1>11, InstallBeginShape, InstallBeginCount
<1>12. ASSUME NEW t \in Threads, ScrapeOne(t) PROVE IInv'
  BY <1>12, ScrapeOneShape, ScrapeOneCount
<1>13. CASE EndScrape
  BY <1>13, EndScrapeShape, EndScrapeCount
<1>14. ASSUME NEW p \in ptrs, UnrefScraped(p) PROVE IInv'
  BY <1>14, UnrefScrapedShape, UnrefScrapedCount
<1>15. CASE UnrefOld
  BY <1>15, UnrefOldShape, UnrefOldCount
<1>16. CASE NumberSuperVersion
  BY <1>16, NumberSuperVersionShape, NumberSuperVersionCount
<1>s. CASE UNCHANGED svVars
  BY <1>s, SMTT(30) DEF svVars, readerVars, installVars, Shape, TypeOK, ThreadInv, InstallInv,
     CacheInv, Current, NumberInv, ReadsAreFresh, StatusInv, Owners, OwnedByCF,
     OwnedByInstall, CacheOf, ReadsOf, ItersOf, ScrapedOf
<1> QED
  BY <1>1, <1>2, <1>3, <1>4, <1>5, <1>6, <1>7, <1>8,
     <1>9, <1>10, <1>11, <1>12, <1>13, <1>14, <1>15, <1>16, <1>s
     DEF Next, ReaderStep, InstallStep

\* Every safety property of module SuperVersion follows from the invariant.
LEMMA IInvImplies ==
  ASSUME IInv
  PROVE  NoUseAfterFree /\ CacheNeverLast /\ ReadsAreFresh /\ NoLeak
<1>o. Owned
  BY IInvOwned
<1> USE DEF IInv, Shape
<1>1. NoUseAfterFree
  <2>1. \A s \in SVs : refs[s] \in Nat /\ (refs[s] >= 1 => status[s] = "live")
    BY SMTT(30) DEF TypeOK, StatusInv
  <2>2. status[super_version_] = "live"
    <3>1. refs[super_version_] >= One(OwnedByCF(super_version_))
                                  + One(OwnedByInstall(super_version_))
      BY <1>o DEF TypeOK, Owned
    <3> QED
      BY <2>1, <3>1, SMTT(30) DEF TypeOK, One, OwnedByCF
  <2>3. phase \in {"scrape", "unref"} => status[old] = "live"
    <3>1. phase \in {"scrape", "unref"} =>
            /\ old \in SVs
            /\ refs[old] >= One(OwnedByCF(old)) + One(OwnedByInstall(old))
      BY <1>o DEF InstallInv, Owned
    <3> QED
      BY <2>1, <3>1, SMTT(30) DEF One, OwnedByInstall
  <2>4. ASSUME NEW t \in Threads, pc[t] \in Working PROVE status[hold[t]] = "live"
    <3>1. hold[t] \in SVs
      BY <2>4 DEF TypeOK, ThreadInv, Working
    <3> QED
      BY <1>o, <2>1, <2>4, <3>1 DEF Owned
  <2>5. ASSUME NEW t \in Threads, iter[t] # None PROVE status[iter[t]] = "live"
    <3>1. iter[t] \in SVs
      BY <2>5 DEF TypeOK
    <3> QED
      BY <1>o, <2>1, <3>1 DEF Owned
  <2>6. ASSUME NEW t \in Threads, local_sv_[t] \in SVs PROVE status[local_sv_[t]] = "live"
    <3>1. refs[local_sv_[t]] >= 1 + One(OwnedByCF(local_sv_[t])) + One(OwnedByInstall(local_sv_[t]))
      BY <1>o, <2>6 DEF Owned
    <3> QED
      BY <2>1, <2>6, <3>1, SMTT(30) DEF One
  <2> QED
    BY <2>2, <2>3, <2>4, <2>5, <2>6 DEF NoUseAfterFree, Working
<1>2. CacheNeverLast
  <2>1. ASSUME NEW t \in Threads, local_sv_[t] \in SVs PROVE refs[local_sv_[t]] > 1
    <3>1. refs[local_sv_[t]] >= 1 + One(OwnedByCF(local_sv_[t])) + One(OwnedByInstall(local_sv_[t]))
      BY <1>o, <2>1 DEF Owned
    <3>2. OwnedByCF(local_sv_[t]) \/ OwnedByInstall(local_sv_[t])
      BY <2>1 DEF CacheInv, Current, OwnedByCF, OwnedByInstall
    <3> QED
      BY <2>1, <3>1, <3>2, SMTT(30) DEF One, TypeOK
  <2>2. ASSUME NEW t \in Threads, pc[t] = "drop" PROVE refs[hold[t]] > 1
    <3>1. hold[t] \in SVs /\ iter[t] = hold[t] /\ pc[t] \in Working
      BY <2>2 DEF TypeOK, ThreadInv, Working
    <3>2. refs[hold[t]] >= 2
      BY <1>o, <3>1 DEF Owned
    <3> QED
      BY <3>1, <3>2, SMTT(30) DEF TypeOK
  <2>3. ASSUME NEW p \in ptrs PROVE refs[p[2]] > 1
    <3>1. /\ p[1] \in Threads /\ p[2] \in SVs /\ p = <<p[1], p[2]>>
          /\ OwnedByInstall(p[2])
      BY SMTT(30) DEF TypeOK, InstallInv, OwnedByInstall
    <3>2. refs[p[2]] >= 1 + One(OwnedByInstall(p[2]))
      BY <1>o, <3>1 DEF Owned
    <3> QED
      BY <3>1, <3>2, SMTT(30) DEF One, TypeOK
  <2> QED
    BY <2>1, <2>2, <2>3 DEF CacheNeverLast
<1>3. ReadsAreFresh
  BY DEF NumberInv
<1>4. NoLeak
  <2> SUFFICES ASSUME NEW s \in SVs, status[s] = "live", refs[s] = 0
               PROVE  Cardinality({t \in Threads : pc[t] = "cleanup" /\ hold[t] = s}) = 1
    BY DEF NoLeak
  <2>1. PICK t \in Threads : pc[t] = "cleanup" /\ hold[t] = s
    BY DEF StatusInv
  <2>2. {u \in Threads : pc[u] = "cleanup" /\ hold[u] = s} = {t}
    BY <2>1 DEF StatusInv
  <2> QED
    BY <2>2, FS_Singleton
<1> QED
  BY <1>1, <1>2, <1>3, <1>4

\* No SuperVersion is freed while a read, an iterator, a cache, the column
\* family or an installing thread can reach it, with any number of readers.
THEOREM SuperVersionSafety == Spec => []NoUseAfterFree
BY InitIInv, NextIInv, IInvImplies, PTL DEF Spec

\* The three unchecked Unrefs never drop the last reference.
THEOREM SuperVersionCacheSafety == Spec => []CacheNeverLast
BY InitIInv, NextIInv, IInvImplies, PTL DEF Spec

\* A read sees every installation that had finished when it began.
THEOREM SuperVersionFreshness == Spec => []ReadsAreFresh
BY InitIInv, NextIInv, IInvImplies, PTL DEF Spec

\* A SuperVersion without references has exactly one thread to clean it up.
THEOREM SuperVersionNoLeak == Spec => []NoLeak
BY InitIInv, NextIInv, IInvImplies, PTL DEF Spec
-----------------------------------------------------------------------------
(* The refinement of SuperVersionPins *)

PinStep == Pins!PinNext \/ UNCHANGED Pins!pinVars

\* A SuperVersion without references is used by nobody.
LEMMA UnreferencedUnpinned ==
  ASSUME TypeOK, Owned, NEW s \in SVs, refs[s] = 0
  PROVE  Pins!Unpinned(s)
<1> SUFFICES ASSUME NEW t \in Threads, Uses(t, s) PROVE FALSE
  BY DEF Pins!Unpinned, Pinned
<1>1. refs[s] >= 1
  BY DEF Uses, Owned, Working
<1> QED
  BY <1>1, SMTT(30) DEF TypeOK

\* Steps that change nobody's use of a SuperVersion.
LEMMA SameUses ==
  ASSUME \A t \in Threads, s \in SVs : Uses(t, s)' <=> Uses(t, s),
         Retiring' = Retiring, UNCHANGED <<status, super_version_>>
  PROVE  PinStep
<1>1. Pinned' = Pinned
  BY DEF Pinned
<1> QED
  BY <1>1 DEF PinStep, Pins!pinVars

\* A thread begins to use a SuperVersion.
LEMMA OneMoreUse ==
  ASSUME NEW t \in Threads, NEW x \in SVs, x # None, x \in {super_version_, Retiring},
         \A u \in Threads, s \in SVs : Uses(u, s)' <=> Uses(u, s) \/ (u = t /\ s = x),
         Retiring' = Retiring, UNCHANGED <<status, super_version_>>
  PROVE  PinStep
<1>1. Pinned' = Pinned \cup {<<t, x>>}
  BY SMTT(30) DEF Pinned
<1> QED
  BY <1>1 DEF PinStep, Pins!PinNext, Pins!Pin

\* A thread ends its use of a SuperVersion.
LEMMA OneLessUse ==
  ASSUME NEW t \in Threads, NEW x \in SVs, Uses(t, x),
         \A u \in Threads, s \in SVs : Uses(u, s)' <=> Uses(u, s) /\ ~(u = t /\ s = x),
         Retiring' = Retiring, UNCHANGED <<status, super_version_>>
  PROVE  PinStep
<1>1. Pinned' = Pinned \ {<<t, x>>} /\ <<t, x>> \in Pinned
  BY SMTT(30) DEF Pinned
<1> QED
  BY <1>1 DEF PinStep, Pins!PinNext, Pins!Unpin

\* Every step maps to a step of SuperVersionPins or to a stutter.
LEMMA NextPins == IInv /\ [Next]_svVars => PinStep
<1> SUFFICES ASSUME IInv, [Next]_svVars PROVE PinStep
  OBVIOUS
<1>o. Owned
  BY IInvOwned
<1>1. ASSUME NEW t \in Threads, Swap(t) PROVE PinStep
  <2>r. Retiring' = Retiring /\ UNCHANGED <<status, super_version_>>
    BY <1>1 DEF Swap, Retiring, installVars
  <2>1. CASE local_sv_[t] = kSVObsolete
    <3>u. \A u \in Threads, s \in SVs : Uses(u, s)' <=> Uses(u, s)
      BY SVAssumption, <1>1, <2>1 DEF IInv, Shape, TypeOK, ThreadInv, Uses, Goto, readerVars, installVars, Swap
    <3> QED
      BY <3>u, <2>r, SameUses
  <2>2. CASE local_sv_[t] # kSVObsolete
    <3>1. local_sv_[t] \in SVs /\ local_sv_[t] # None /\ local_sv_[t] \in {super_version_, Retiring}
      BY SVAssumption, <1>1, <2>2
         DEF IInv, Shape, TypeOK, ThreadInv, CacheInv, Current, Pointers, Swap, Goto, Retiring
    <3>u. \A u \in Threads, s \in SVs : Uses(u, s)' <=> Uses(u, s) \/ (u = t /\ s = local_sv_[t])
      BY SVAssumption, <1>1, <2>2, <3>1 DEF IInv, Shape, TypeOK, ThreadInv, Uses, Goto, readerVars, installVars, Swap
    <3> QED
      BY <3>1, <3>u, <2>r, OneMoreUse
  <2> QED
    BY <2>1, <2>2
<1>2. ASSUME NEW t \in Threads, LockAndRef(t) PROVE PinStep
  <2>r. Retiring' = Retiring /\ UNCHANGED <<status, super_version_>>
    BY <1>2 DEF LockAndRef, Retiring, installVars
  <2>1. super_version_ \in SVs /\ super_version_ # None
    BY SVAssumption DEF IInv, Shape, TypeOK
  <2>u. \A u \in Threads, s \in SVs : Uses(u, s)' <=> Uses(u, s) \/ (u = t /\ s = super_version_)
    BY SVAssumption, <1>2, <2>1 DEF IInv, Shape, TypeOK, ThreadInv, Uses, Goto, readerVars, installVars, LockAndRef
  <2> QED
    BY <2>1, <2>u, <2>r, OneMoreUse
<1>3. ASSUME NEW t \in Threads, RefForIterator(t) PROVE PinStep
  <2>u. \A u \in Threads, s \in SVs : Uses(u, s)' <=> Uses(u, s)
    BY SVAssumption, <1>3 DEF IInv, Shape, TypeOK, ThreadInv, Uses, Goto, readerVars, installVars, RefForIterator
  <2>r. Retiring' = Retiring /\ UNCHANGED <<status, super_version_>>
    BY <1>3 DEF RefForIterator, Retiring, readerVars, installVars
  <2> QED
    BY <2>u, <2>r, SameUses
<1>4. ASSUME NEW t \in Threads, ReturnToCache(t) PROVE PinStep
  <2>r. Retiring' = Retiring /\ UNCHANGED <<status, super_version_>>
    BY <1>4 DEF ReturnToCache, Retiring, installVars
  <2>1. hold[t] \in SVs /\ Uses(t, hold[t])
    BY <1>4 DEF IInv, Shape, TypeOK, ThreadInv, ReturnToCache, Uses
  <2>2. CASE iter[t] = hold[t]
    <3>u. \A u \in Threads, s \in SVs : Uses(u, s)' <=> Uses(u, s)
      BY SVAssumption, <1>4, <2>2 DEF IInv, Shape, TypeOK, ThreadInv, Uses, Goto, readerVars, installVars, ReturnToCache
    <3> QED
      BY <3>u, <2>r, SameUses
  <2>3. CASE iter[t] # hold[t]
    <3>u. \A u \in Threads, s \in SVs : Uses(u, s)' <=> Uses(u, s) /\ ~(u = t /\ s = hold[t])
      BY SVAssumption, <1>4, <2>3, <2>1 DEF IInv, Shape, TypeOK, ThreadInv, Uses, Goto, readerVars, installVars, ReturnToCache
    <3> QED
      BY <2>1, <3>u, <2>r, OneLessUse
  <2> QED
    BY <2>2, <2>3
<1>5. ASSUME NEW t \in Threads, ReturnStale(t) PROVE PinStep
  <2>u. \A u \in Threads, s \in SVs : Uses(u, s)' <=> Uses(u, s)
    BY SVAssumption, <1>5 DEF IInv, Shape, TypeOK, ThreadInv, Uses, Goto, readerVars, installVars, ReturnStale
  <2>r. Retiring' = Retiring /\ UNCHANGED <<status, super_version_>>
    BY <1>5 DEF ReturnStale, Retiring, readerVars, installVars
  <2> QED
    BY <2>u, <2>r, SameUses
<1>6. ASSUME NEW t \in Threads, Release(t) PROVE PinStep
  <2>r. Retiring' = Retiring /\ UNCHANGED <<status, super_version_>>
    BY <1>6 DEF Release, Retiring, installVars
  <2>1. hold[t] \in SVs /\ Uses(t, hold[t])
    BY <1>6 DEF IInv, Shape, TypeOK, ThreadInv, Release, Uses
  <2>2. CASE iter[t] = hold[t]
    <3>u. \A u \in Threads, s \in SVs : Uses(u, s)' <=> Uses(u, s)
      BY SVAssumption, <1>6, <2>2, <2>1, SMTT(30) DEF IInv, Shape, TypeOK, ThreadInv, Uses, Goto, readerVars, installVars, Release
    <3> QED
      BY <3>u, <2>r, SameUses
  <2>3. CASE iter[t] # hold[t]
    <3>u. \A u \in Threads, s \in SVs : Uses(u, s)' <=> Uses(u, s) /\ ~(u = t /\ s = hold[t])
      BY SVAssumption, <1>6, <2>3, <2>1, SMTT(30) DEF IInv, Shape, TypeOK, ThreadInv, Uses, Goto, readerVars, installVars, Release
    <3> QED
      BY <2>1, <3>u, <2>r, OneLessUse
  <2> QED
    BY <2>2, <2>3
<1>7. ASSUME NEW t \in Threads, DropThreadRef(t) PROVE PinStep
  <2>u. \A u \in Threads, s \in SVs : Uses(u, s)' <=> Uses(u, s)
    BY SVAssumption, <1>7 DEF IInv, Shape, TypeOK, ThreadInv, Uses, Goto, readerVars, installVars, DropThreadRef
  <2>r. Retiring' = Retiring /\ UNCHANGED <<status, super_version_>>
    BY <1>7 DEF DropThreadRef, Retiring, readerVars, installVars
  <2> QED
    BY <2>u, <2>r, SameUses
<1>8. ASSUME NEW t \in Threads, CloseIterator(t) PROVE PinStep
  <2>r. Retiring' = Retiring /\ UNCHANGED <<status, super_version_>>
    BY <1>8 DEF CloseIterator, Retiring, installVars
  <2>1. iter[t] \in SVs /\ Uses(t, iter[t])
    BY <1>8 DEF IInv, Shape, TypeOK, CloseIterator, Uses
  <2>u. \A u \in Threads, s \in SVs : Uses(u, s)' <=> Uses(u, s) /\ ~(u = t /\ s = iter[t])
    BY SVAssumption, <1>8, <2>1, SMTT(30) DEF IInv, Shape, TypeOK, ThreadInv, Uses, Goto, readerVars, installVars, CloseIterator
  <2> QED
    BY <2>1, <2>u, <2>r, OneLessUse
<1>9. ASSUME NEW t \in Threads, Cleanup(t) PROVE PinStep
  <2>1. /\ hold[t] \in SVs /\ refs[hold[t]] = 0 /\ status[hold[t]] = "live"
        /\ hold[t] # super_version_
    <3>1. /\ hold[t] \in SVs /\ refs[hold[t]] = 0 /\ status[hold[t]] = "live"
      BY <1>9, SMTT(30) DEF IInv, Shape, TypeOK, ThreadInv, StatusInv, Cleanup, Goto
    <3>2. refs[super_version_] >= One(OwnedByCF(super_version_)) + One(OwnedByInstall(super_version_))
      BY <1>o DEF Owned, IInv, Shape, TypeOK
    <3> QED
      BY <3>1, <3>2, SMTT(30) DEF One, OwnedByCF
  <2>2. Pins!Unpinned(hold[t])
    BY <1>o, <2>1, UnreferencedUnpinned DEF IInv, Shape
  <2>u. \A u \in Threads, s \in SVs : Uses(u, s)' <=> Uses(u, s)
    BY SVAssumption, <1>9 DEF IInv, Shape, TypeOK, ThreadInv, Uses, Goto, readerVars, installVars, Cleanup
  <2>3. Pinned' = Pinned
    BY <2>u DEF Pinned
  <2>4. Pins!CleanUp(hold[t])
    BY <1>9, <2>1, <2>2, <2>3 DEF Cleanup, DBMutexFree, Retiring, installVars,
       Pins!CleanUp, Pins!DBMutexFree
  <2> QED
    BY <2>1, <2>4 DEF PinStep, Pins!PinNext
<1>10. ASSUME NEW t \in Threads, ThreadExit(t) PROVE PinStep
  <2>u. \A u \in Threads, s \in SVs : Uses(u, s)' <=> Uses(u, s)
    BY SVAssumption, <1>10 DEF IInv, Shape, TypeOK, ThreadInv, Uses, Goto, readerVars, installVars, ThreadExit
  <2>r. Retiring' = Retiring /\ UNCHANGED <<status, super_version_>>
    BY <1>10 DEF ThreadExit, Retiring, readerVars, installVars
  <2> QED
    BY <2>u, <2>r, SameUses
<1>11. ASSUME NEW s \in SVs, InstallBegin(s) PROVE PinStep
  <2>1. Pinned' = Pinned
    BY <1>11 DEF Pinned, Uses, InstallBegin, readerVars
  <2>2. Pins!Install(s)
    BY <1>11, <2>1 DEF InstallBegin, DBMutexFree, Retiring, Pins!Install, Pins!DBMutexFree
  <2> QED
    BY <2>2 DEF PinStep, Pins!PinNext
<1>12. ASSUME NEW t \in Threads, ScrapeOne(t) PROVE PinStep
  <2>u. \A u \in Threads, s \in SVs : Uses(u, s)' <=> Uses(u, s)
    BY SVAssumption, <1>12 DEF IInv, Shape, TypeOK, ThreadInv, Uses, Goto, readerVars, installVars, ScrapeOne
  <2>r. Retiring' = Retiring /\ UNCHANGED <<status, super_version_>>
    BY <1>12 DEF ScrapeOne, Retiring, readerVars, installVars
  <2> QED
    BY <2>u, <2>r, SameUses
<1>13. CASE EndScrape
  <2>u. \A u \in Threads, s \in SVs : Uses(u, s)' <=> Uses(u, s)
    BY SVAssumption, <1>13 DEF IInv, Shape, TypeOK, ThreadInv, Uses, Goto, readerVars, installVars, EndScrape
  <2>r. Retiring' = Retiring /\ UNCHANGED <<status, super_version_>>
    BY <1>13 DEF EndScrape, Retiring, readerVars, installVars
  <2> QED
    BY <2>u, <2>r, SameUses
<1>14. ASSUME NEW p \in ptrs, UnrefScraped(p) PROVE PinStep
  <2>u. \A u \in Threads, s \in SVs : Uses(u, s)' <=> Uses(u, s)
    BY SVAssumption, <1>14 DEF IInv, Shape, TypeOK, ThreadInv, Uses, Goto, readerVars, installVars, UnrefScraped
  <2>r. Retiring' = Retiring /\ UNCHANGED <<status, super_version_>>
    BY <1>14 DEF UnrefScraped, Retiring, readerVars, installVars
  <2> QED
    BY <2>u, <2>r, SameUses
<1>15. CASE UnrefOld
  <2>1. old \in SVs /\ Retiring = old /\ Retiring # None /\ Retiring' = None
    BY SVAssumption, <1>15 DEF IInv, Shape, TypeOK, InstallInv, UnrefOld, Retiring
  <2>2. Pinned' = Pinned /\ super_version_' = super_version_
    BY <1>15 DEF Pinned, Uses, UnrefOld, readerVars
  <2>3. CASE ~WasLastRef(old)
    <3>1. status' = status
      BY <1>15, <2>3 DEF UnrefOld
    <3> QED
      BY <2>1, <2>2, <3>1 DEF PinStep, Pins!PinNext, Pins!Retire
  <2>4. CASE WasLastRef(old)
    <3>1. status' = [status EXCEPT ![old] = "cleaned"]
      BY <1>15, <2>4 DEF UnrefOld
    <3>2. TypeOK' /\ Owned' /\ refs'[old] = 0
      <4>1. IInv'
        BY NextIInv
      <4>2. TypeOK'
        BY <4>1 DEF IInv, Shape
      <4>3. Owned'
        BY <4>1, IInvOwned, PTL
      <4>4. refs'[old] = 0
        BY <1>15, <2>1, <2>4, SMTT(30) DEF UnrefOld, Unref, WasLastRef, IInv, Shape, TypeOK
      <4> QED
        BY <4>2, <4>3, <4>4
    <3>3. Pins!Unpinned(old)
      <4> SUFFICES ASSUME NEW t \in Threads, Uses(t, old) PROVE FALSE
        BY DEF Pins!Unpinned, Pinned
      <4>1. Uses(t, old)' /\ old \in SVs
        BY <1>15, <2>1 DEF Uses, UnrefOld, readerVars
      <4> QED
        BY <3>2, <4>1, <2>1, <1>15, SMTT(30) DEF Owned, Uses, Working, UnrefOld, readerVars
    <3> QED
      BY <2>1, <2>2, <3>1, <3>3 DEF PinStep, Pins!PinNext, Pins!Retire
  <2> QED
    BY <2>3, <2>4
<1>16. CASE NumberSuperVersion
  <2>u. \A u \in Threads, s \in SVs : Uses(u, s)' <=> Uses(u, s)
    BY SVAssumption, <1>16 DEF IInv, Shape, TypeOK, ThreadInv, Uses, Goto, readerVars, installVars, NumberSuperVersion
  <2>r. Retiring' = Retiring /\ UNCHANGED <<status, super_version_>>
    BY <1>16 DEF NumberSuperVersion, Retiring, readerVars, installVars
  <2> QED
    BY <2>u, <2>r, SameUses
<1>17. CASE UNCHANGED svVars
  <2>1. \A u \in Threads, s \in SVs : Uses(u, s)' <=> Uses(u, s)
    BY <1>17 DEF svVars, readerVars, Uses
  <2> QED
    BY <1>17, <2>1, SameUses DEF svVars, installVars, Retiring
<1> QED
  BY <1>1, <1>2, <1>3, <1>4, <1>5, <1>6, <1>7, <1>8, <1>9, <1>10, <1>11, <1>12, <1>13,
     <1>14, <1>15, <1>16, <1>17 DEF Next, ReaderStep, InstallStep

\* The initial states map to initial states.
LEMMA InitPins == Init => Pins!PinInit
<1> SUFFICES ASSUME Init PROVE Pins!PinInit
  OBVIOUS
<1>1. Pinned = {}
  BY SVAssumption DEF Init, Pinned, Uses
<1> QED
  BY <1>1 DEF Init, Retiring, Pins!PinInit

\* The lock-free caches and counters implement SuperVersionPins, which the
\* purge of obsolete files relies on, for any number of readers.
THEOREM SuperVersionImplementsPins == Spec => ImplementsPins
<1>1. IInv /\ [Next]_svVars => [Pins!PinNext]_(Pins!pinVars)
  BY NextPins DEF PinStep
<1> QED
  BY InitIInv, NextIInv, InitPins, <1>1, PTL DEF Spec, ImplementsPins, Pins!PinSpec
=============================================================================
