--------------------------- MODULE WritePrepared ---------------------------
(* The commit cache of WritePrepared transactions: a transaction writes its  *)
(* data to the memtable when it prepares, and a read decides with            *)
(* IsInSnapshot whether the transaction of a sequence number had committed   *)
(* when the snapshot was taken.  Commit entries live in a small array; an    *)
(* entry that is overwritten moves max_evicted_seq_ past it, transactions    *)
(* still open at that point move to delayed_prepared_, and what an old       *)
(* snapshot must not see moves to old_commit_map_.                           *)
(* utilities/transactions/write_prepared_txn_db.{h,cc}, write_prepared_txn.cc*)
(*                                                                           *)
(* Every load, store and critical section that another thread can observe is *)
(* a step.  Prepares run in the main write queue and commits in the second   *)
(* one (two_write_queues) or both in the main one; reads take no lock unless *)
(* they have to.                                                             *)
EXTENDS Integers, SequencesExt, FiniteSetsExt

CONSTANTS
  Readers,              \* threads that take snapshots, call Get or compact
  Starts,               \* the databases to open: the option, the last number, the
                        \* open transactions and a bound on the numbers
  MaxSeq,               \* bound on the sequence numbers of all starts
  MaxSubBatches,        \* bound on the sub-batches of a transaction
  MaxBusyReaders,       \* bound on the readers in the middle of a call
  COMMIT_CACHE_SIZE,
  SNAPSHOT_CACHE_SIZE

VARIABLES
  two_write_queues,     \* the option; fixed at open
  limit,                \* the start's bound on the numbers
  last_allocated,       \* VersionSet::last_allocated_sequence_
  last_sequence,        \* VersionSet::last_sequence_
  last_published,       \* VersionSet::last_published_sequence_
  memtable,             \* sequence numbers whose data a read can meet
  commit_seq,           \* the commit number given to a sequence number, or 0
  commit_cache,         \* index -> [prep, commit], or Empty
  max_evicted_seq,
  future_max_evicted_seq,
  heap,                 \* prepared_txns_: PreparedHeap::heap_
  erased,               \* prepared_txns_: PreparedHeap::erased_heap_
  delayed,              \* delayed_prepared_
  delayed_commits,      \* delayed_prepared_commits_: a set of [prep, commit]
  old_commit_map,       \* snapshot -> prepare numbers it must not see
  listed,               \* snapshots_all_: the snapshots of the last advance
  w,                    \* the write in each queue
  prepared,             \* transactions that may be committed or rolled back
  rolling,              \* roll-backs that await their second write
  removing,             \* calls of RemovePrepared still to come from clients
  rd                    \* the readers

db == <<two_write_queues, limit, last_allocated, last_sequence, last_published>>

heaps == <<heap, erased, delayed, delayed_commits>>

evictions == <<commit_cache, max_evicted_seq, future_max_evicted_seq,
               old_commit_map, listed>>

clients == <<prepared, rolling, removing>>

vars == <<db, memtable, commit_seq, heaps, evictions, w, clients, rd>>

Empty == [prep |-> 0, commit |-> 0]

Client == "client"

Queues == {"main", "second"}

IdleWrite == [pc |-> "idle", kind |-> "none", base |-> 0, last |-> 0,
              todo |-> <<>>, data |-> {}, txn |-> <<>>, owner |-> Client,
              new_max |-> 0, evicted |-> Empty, gone |-> {}]

IdleReader == [pc |-> "idle", kind |-> "none", snap |-> 0, min |-> 0,
               prep |-> 0, lb |-> 0, was_empty |-> TRUE,
               answer |-> FALSE, released |-> FALSE]

(***************************************************************************)
(* Initialize after a recovery: every recovered transaction was added to   *)
(* the heap and, with max_evicted_seq_ advanced to the last number, moved  *)
(* on to delayed_prepared_; the next number leaves a gap above the         *)
(* maximum.  A fresh database has no number at all.                        *)
(***************************************************************************)
Start(last, open) ==
  /\ last_allocated = (IF last = 0 THEN 0 ELSE last + 1)
  /\ last_sequence = last_allocated
  /\ last_published = last_allocated
  /\ memtable = 1 .. last
  /\ commit_seq = [s \in 1 .. MaxSeq |-> IF s \in (1 .. last) \ open THEN s ELSE 0]
  /\ max_evicted_seq = last
  /\ future_max_evicted_seq = last
  /\ delayed = open
  /\ prepared = {[seqs |-> <<s>>, owner |-> Client] : s \in open}

Init ==
  /\ \E start \in Starts :
       /\ two_write_queues = start.two_write_queues
       /\ limit = start.limit
       /\ Start(start.last, start.open)
  /\ commit_cache = [i \in 0 .. COMMIT_CACHE_SIZE - 1 |-> Empty]
  /\ heap = {} /\ erased = {} /\ delayed_commits = {}
  /\ old_commit_map = <<>> /\ listed = <<>>
  /\ w = [q \in Queues |-> IdleWrite]
  /\ rolling = {} /\ removing = {}
  /\ rd = [r \in Readers |-> IdleReader]

-----------------------------------------------------------------------------
(* What the structures answer.                                              *)

\* The queue in which the commit callbacks run.
CommitQueue == IF two_write_queues THEN "second" ELSE "main"

\* DBImpl::GetLastPublishedSequence.
Published == IF two_write_queues THEN last_published ELSE last_sequence

\* A number beyond every sequence number: kMaxSequenceNumber.
MaxSequenceNumber == MaxSeq + 1

\* PreparedHeap::top.  The entries are pushed in ascending order: a set will do.
Top(h) == IF h = {} THEN MaxSequenceNumber ELSE Min(h)

\* Variant: the second loop is missing, an empty heap leaves its erasures.
TrimmedFirst(h, e) ==
  LET top == Top(h \ e)
  IN  [heap |-> {s \in h : s >= top},
       erased |-> IF h \subseteq e THEN e ELSE {s \in e : s > top}]

\* The loops of PreparedHeap::pop: the erased entries below the first one that
\* is not erased go, and so do their erasures.
Trimmed(h, e) ==
  LET top == Top(h \ e)
  IN  [heap |-> {s \in h : s >= top}, erased |-> {s \in e : s > top}]

\* PreparedHeap::erase of some entries, in ascending order.  What is below the
\* top was popped earlier; without the top, the others are only remembered.
Erase(h, e, S) ==
  LET gone == {s \in S : s >= Top(h)}
  IN  IF h = {} THEN [heap |-> h, erased |-> e]
      ELSE IF Top(h) \in gone THEN Trimmed(h, e \cup gone)
      ELSE [heap |-> h, erased |-> e \cup gone]

Live == {rd[r].snap : r \in {x \in Readers : /\ rd[x].kind = "snapshot"
                                             /\ rd[x].pc \notin {"idle", "top", "delayed",
                                                                 "take", "advance",
                                                                 "advancing"}}}

\* The prepared_mutex_: the moves to delayed_prepared_ hold it across steps,
\* and so does a read between its two looks at the commit cache.
WriteLocked == \E q \in Queues : w[q].pc \in {"loop", "pop"}

ReadLocked == \E r \in Readers : rd[r].pc \in {"again", "ub_again"}

CanReadLock == ~WriteLocked

CanWriteLock == ~WriteLocked /\ ~ReadLocked

\* The push_pop_mutex_ is held from the first push of a callback to its end;
\* CheckPreparedAgainstMax gives it up meanwhile.
PushPopFree ==
  /\ w["main"].pc # "check"
  /\ w["main"].pc = "push" => Head(w["main"].todo) = w["main"].base

-----------------------------------------------------------------------------
(* Writes enter a queue and are given sequence numbers.                     *)

Numbers(first, n) == [i \in 1 .. n |-> first + i - 1]

Enter(q, kind, n, write) ==
  /\ w[q].pc = "idle"
  /\ last_allocated + n <= limit
  /\ last_allocated' = last_allocated + n
  /\ w' = [w EXCEPT ![q] = [write EXCEPT !.kind = kind,
                                         !.base = last_allocated + 1,
                                         !.last = last_allocated + n]]
  /\ UNCHANGED <<two_write_queues, limit, last_sequence, last_published, memtable,
                 heaps, evictions>>

\* The commit number of the write in hand is given to every number in s.
GiveCommit(s, n) ==
  commit_seq' = [x \in DOMAIN commit_seq |-> IF x \in s THEN last_allocated + n
                                                         ELSE commit_seq[x]]

\* WritePreparedTxn::PrepareInternal, and the first of the two writes of
\* WriteInternal with two queues.
Prepare(n, owner) ==
  LET seqs == Numbers(last_allocated + 1, n)
  IN  /\ Enter("main", "prepare", n,
               [IdleWrite EXCEPT !.pc = "push", !.todo = seqs, !.txn = seqs,
                                 !.data = IF owner = Client THEN ToSet(seqs) ELSE {},
                                 !.owner = owner])
      /\ UNCHANGED <<commit_seq, clients>>

ClientPrepares(n) == Prepare(n, Client) /\ UNCHANGED rd

\* GetSnapshotInternal calls AdvanceSeqByOne: an empty transaction.
ReaderPrepares(r) ==
  /\ rd[r].pc = "advance"
  /\ Prepare(1, r)
  /\ rd' = [rd EXCEPT ![r].pc = "advancing"]

\* WritePreparedTxn::CommitInternal, and the second write of WriteInternal.
Commit(t) ==
  /\ Enter(CommitQueue, "commit", 1,
           [IdleWrite EXCEPT !.pc = "evict", !.todo = t.seqs, !.txn = t.seqs,
                             !.owner = t.owner])
  /\ GiveCommit(ToSet(t.seqs), 1)
  /\ prepared' = prepared \ {t}
  /\ UNCHANGED <<rolling, removing, rd>>

\* WritePreparedTxnDB::WriteInternal with one queue: data and commit together.
Write(n) ==
  LET seqs == Numbers(last_allocated + 1, n)
  IN  /\ ~two_write_queues
      /\ Enter("main", "write", n,
               [IdleWrite EXCEPT !.pc = "evict", !.todo = seqs, !.data = ToSet(seqs)])
      /\ GiveCommit(ToSet(seqs), n)
      /\ UNCHANGED <<clients, rd>>

\* WritePreparedTxn::RollbackInternal, its first write: with one queue it also
\* commits, the prepared numbers first.
Rollback(t) ==
  LET seq == last_allocated + 1
  IN  /\ t.owner = Client
      /\ IF two_write_queues
           THEN /\ Enter("main", "rollback", 1,
                         [IdleWrite EXCEPT !.pc = "push", !.todo = <<seq>>,
                                           !.data = {seq}, !.txn = t.seqs])
                /\ UNCHANGED commit_seq
           ELSE /\ Enter("main", "rollback", 1,
                         [IdleWrite EXCEPT !.pc = "evict", !.todo = Append(t.seqs, seq),
                                           !.data = {seq}, !.txn = t.seqs])
                /\ GiveCommit(ToSet(t.seqs) \cup {seq}, 1)
      /\ prepared' = prepared \ {t}
      /\ UNCHANGED <<rolling, removing, rd>>

\* Its second write commits the batch that cancels and the cancelled one.
CommitRollback(t) ==
  /\ Enter("second", "commit_rollback", 1,
           [IdleWrite EXCEPT !.pc = "evict", !.todo = <<t.seq>> \o t.seqs,
                             !.txn = <<t.seq>> \o t.seqs])
  /\ GiveCommit(ToSet(t.seqs) \cup {t.seq}, 1)
  /\ rolling' = rolling \ {t}
  /\ UNCHANGED <<prepared, removing, rd>>

-----------------------------------------------------------------------------
(* AddPrepared, in the main queue.                                          *)

Goto(q, pc) == w' = [w EXCEPT ![q].pc = pc]

\* prepared_txns_.push, under the push_pop_mutex_.
Push ==
  /\ w["main"].pc = "push"
  /\ heap' = heap \cup {Head(w["main"].todo)}
  /\ Goto("main", "check")
  /\ UNCHANGED <<db, memtable, commit_seq, erased, delayed, delayed_commits,
                 evictions, clients, rd>>

\* The next sub-batch, or the memtable.
AfterPush(write) ==
  LET rest == Tail(write.todo)
  IN  [write EXCEPT !.todo = rest, !.new_max = 0, !.pc = IF rest = <<>> THEN "insert" ELSE "push"]

\* Variant: the new entry is compared with the maximum of the moment.
CheckCurrentMax ==
  LET write == w["main"]
      new_max == max_evicted_seq
  IN  /\ write.pc = "check"
      /\ w' = [w EXCEPT !["main"] =
                 IF Head(write.todo) <= new_max /\ Top(heap) <= new_max
                   THEN [write EXCEPT !.pc = "lock", !.new_max = new_max]
                   ELSE AfterPush(write)]
      /\ UNCHANGED <<db, memtable, commit_seq, heaps, evictions, clients, rd>>

\* future_max_evicted_seq_ is loaded after the push, never before.
CheckFutureMax ==
  LET write == w["main"]
      new_max == future_max_evicted_seq
  IN  /\ write.pc = "check"
      /\ w' = [w EXCEPT !["main"] =
                 IF Head(write.todo) <= new_max /\ Top(heap) <= new_max
                   THEN [write EXCEPT !.pc = "lock", !.new_max = new_max]
                   ELSE AfterPush(write)]
      /\ UNCHANGED <<db, memtable, commit_seq, heaps, evictions, clients, rd>>

-----------------------------------------------------------------------------
(* CheckPreparedAgainstMax moves what is not above new_max, under           *)
(* prepared_mutex_: into delayed_prepared_ first, out of the heap second.   *)

\* Back in the caller: AddPrepared, or AdvanceMaxEvictedSeq.
AfterMoves(write) ==
  IF write.kind = "prepare" \/ (write.kind = "rollback" /\ two_write_queues)
    THEN AfterPush(write)
    ELSE [write EXCEPT !.pc = "list"]

MoveTop(q) ==
  /\ w[q].pc \in {"lock", "loop"}
  /\ w[q].pc = "lock" => CanWriteLock
  /\ IF Top(heap) <= w[q].new_max
       THEN /\ delayed' = delayed \cup {Top(heap)}
            /\ Goto(q, "pop")
       ELSE /\ w' = [w EXCEPT ![q] = AfterMoves(@)]
            /\ UNCHANGED delayed
  /\ UNCHANGED <<db, memtable, commit_seq, heap, erased, delayed_commits,
                 evictions, clients, rd>>

PopTop(q) ==
  LET popped == Trimmed(heap \ {Top(heap)}, erased)
  IN  /\ w[q].pc = "pop"
      /\ PushPopFree
      /\ heap' = popped.heap
      /\ erased' = popped.erased
      /\ Goto(q, "loop")
      /\ UNCHANGED <<db, memtable, commit_seq, delayed, delayed_commits,
                     evictions, clients, rd>>

-----------------------------------------------------------------------------
(* AddCommitted, in the queue of the commits: one writer at a time, so what  *)
(* only this path writes is read together with the step that uses it.        *)

\* Advance max in larger steps, but below what is published.
INC_STEP_FOR_MAX_EVICTED == Max({COMMIT_CACHE_SIZE \div 100, 1})

NewMax(commit) ==
  IF commit < Published
    THEN Min({commit + INC_STEP_FOR_MAX_EVICTED, Published - 1})
    ELSE commit

\* The entry that the new one will overwrite.  If it is above the maximum,
\* AdvanceMaxEvictedSeq declares its intention first, before it looks at the
\* heap or at the snapshots.
FindEvicted(q) ==
  LET evicted == commit_cache[Head(w[q].todo) % COMMIT_CACHE_SIZE]
      advance == evicted # Empty /\ max_evicted_seq < evicted.commit
      new_max == IF advance THEN NewMax(evicted.commit) ELSE 0
      pc == CASE advance -> "peek"
              [] evicted = Empty -> "exchange"
              [] OTHER -> "keep"
  IN  /\ w[q].pc = "evict"
      /\ w' = [w EXCEPT ![q].pc = pc, ![q].evicted = evicted, ![q].new_max = new_max]
      /\ future_max_evicted_seq' = Max({future_max_evicted_seq, new_max})
      /\ UNCHANGED <<db, memtable, commit_seq, heaps, commit_cache, max_evicted_seq,
                     old_commit_map, listed, clients, rd>>

\* CheckPreparedAgainstMax peeks at the top before it takes the mutex.
PeekTop(q) ==
  /\ w[q].pc = "peek"
  /\ Goto(q, IF Top(heap) <= w[q].new_max THEN "lock" ELSE "list")
  /\ UNCHANGED <<db, memtable, commit_seq, heaps, evictions, clients, rd>>

\* GetSnapshotListFromDB, under the DB mutex, and UpdateSnapshots.  Only this
\* path moves the list, whose version is the previous maximum, and only this
\* path reads it; its clean-up takes place in the steps that follow.
ListSnapshots(q) ==
  LET snapshots == {s \in Live : s <= w[q].new_max}
  IN  /\ w[q].pc = "list"
      /\ listed' = SetToSortSeq(snapshots, <)
      /\ w' = [w EXCEPT ![q].pc = "cleanup", ![q].gone = ToSet(listed) \ snapshots]
      /\ UNCHANGED <<db, memtable, commit_seq, heaps, commit_cache, max_evicted_seq,
                     future_max_evicted_seq, old_commit_map, clients, rd>>

\* CleanupReleasedSnapshots: ReleaseSnapshotInternal of one released snapshot.
ForgetSnapshot(q) ==
  LET gone == Min(w[q].gone)
  IN  /\ w[q].pc = "cleanup"
      /\ w[q].gone # {}
      /\ w' = [w EXCEPT ![q].gone = @ \ {gone}]
      /\ old_commit_map' = IF gone <= max_evicted_seq
                             THEN [s \in DOMAIN old_commit_map \ {gone} |-> old_commit_map[s]]
                             ELSE old_commit_map
      /\ UNCHANGED <<db, memtable, commit_seq, heaps, commit_cache, max_evicted_seq,
                     future_max_evicted_seq, listed, clients, rd>>

\* Every listed snapshot gets an entry, so that a read can tell a valid
\* snapshot from a released one.
RememberSnapshots(q) ==
  /\ w[q].pc = "cleanup"
  /\ w[q].gone = {}
  /\ old_commit_map' = [s \in DOMAIN old_commit_map \cup ToSet(listed) |->
                          IF s \in DOMAIN old_commit_map THEN old_commit_map[s] ELSE {}]
  /\ Goto(q, "advance")
  /\ UNCHANGED <<db, memtable, commit_seq, heaps, commit_cache, max_evicted_seq,
                 future_max_evicted_seq, listed, clients, rd>>

AdvanceMax(q) ==
  /\ w[q].pc = "advance"
  /\ max_evicted_seq' = Max({max_evicted_seq, w[q].new_max})
  /\ w' = [w EXCEPT ![q].pc = "keep", ![q].new_max = 0]
  /\ UNCHANGED <<db, memtable, commit_seq, heaps, commit_cache,
                 future_max_evicted_seq, old_commit_map, listed, clients, rd>>

\* The commit of an entry that is still in delayed_prepared_ is kept there.
KeepDelayedCommit(q) ==
  LET evicted == w[q].evicted
  IN  /\ w[q].pc = "keep"
      /\ delayed # {} => CanWriteLock
      /\ delayed_commits' = IF evicted.prep \in delayed
                              THEN {e \in delayed_commits : e.prep # evicted.prep} \cup {evicted}
                              ELSE delayed_commits
      /\ Goto(q, "overlap")
      /\ UNCHANGED <<db, memtable, commit_seq, heap, erased, delayed, evictions,
                     clients, rd>>

\* The snapshots that a search of a list updates: MaybeUpdateOldCommitMap of
\* each in turn, until one says that the rest cannot overlap.
Searched(list, e, next_is_larger) ==
  LET Stops(s) == IF e.commit <= s THEN next_is_larger
                                   ELSE s < e.prep /\ ~next_is_larger
      stop == {i \in 1 .. Len(list) : Stops(list[i])}
      upto == IF stop = {} THEN Len(list) ELSE Min(stop)
  IN  {list[i] : i \in {j \in 1 .. upto : e.prep <= list[j] /\ list[j] < e.commit}}

\* CheckAgainstSnapshots: the cached snapshots from the largest down and, if
\* the border line suggests it, both lists from the smallest up.
Overlapping(e) ==
  LET cnt == Len(listed)
      cached == SubSeq(listed, 1, Min({cnt, SNAPSHOT_CACHE_SIZE}))
      larger == SubSeq(listed, SNAPSHOT_CACHE_SIZE + 1, cnt)
      search_larger_list == /\ SNAPSHOT_CACHE_SIZE < cnt
                            /\ Last(cached) < e.commit
  IN  Searched(Reverse(cached), e, FALSE)
        \cup (IF search_larger_list
                THEN Searched(cached, e, TRUE) \cup Searched(larger, e, TRUE)
                ELSE {})

KeepForSnapshots(q) ==
  LET hit == Overlapping(w[q].evicted)
  IN  /\ w[q].pc = "overlap"
      /\ old_commit_map' =
           [s \in DOMAIN old_commit_map \cup hit |->
             (IF s \in DOMAIN old_commit_map THEN old_commit_map[s] ELSE {})
               \cup (IF s \in hit THEN {w[q].evicted.prep} ELSE {})]
      /\ Goto(q, "exchange")
      /\ UNCHANGED <<db, memtable, commit_seq, heaps, commit_cache, max_evicted_seq,
                     future_max_evicted_seq, listed, clients, rd>>

\* ExchangeCommitEntry; then the next sub-batch, or the end of the callback.
Exchange(q) ==
  LET write == w[q]
      prep == Head(write.todo)
      rest == Tail(write.todo)
      pc == CASE rest # <<>> -> "evict"
              [] rest = <<>> /\ two_write_queues -> "publish"
              [] OTHER -> "insert"
  IN  /\ write.pc = "exchange"
      /\ commit_cache' = [commit_cache EXCEPT ![prep % COMMIT_CACHE_SIZE] =
                            [prep |-> prep, commit |-> write.last]]
      /\ w' = [w EXCEPT ![q].pc = pc, ![q].todo = rest, ![q].evicted = Empty]
      /\ UNCHANGED <<db, memtable, commit_seq, heaps, max_evicted_seq,
                     future_max_evicted_seq, old_commit_map, listed, clients, rd>>

-----------------------------------------------------------------------------
(* The end of a write: the data becomes readable, the numbers are published  *)
(* and the prepared entries are removed.                                     *)

Return(q) == w' = [w EXCEPT ![q] = IdleWrite]

\* A reader that waited for its empty transaction goes on.
Resume(owner) ==
  rd' = IF owner = Client THEN rd ELSE [rd EXCEPT ![owner].pc = "take"]

\* The commit callback publishes only with two queues.
Publish ==
  /\ w["second"].pc = "publish"
  /\ last_published' = w["second"].last
  /\ IF w["second"].kind = "commit"
       THEN Goto("second", "remove") /\ UNCHANGED <<removing, rd>>
       ELSE /\ removing' = removing \cup
                 {[calls |-> <<Tail(w["second"].txn), <<Head(w["second"].txn)>> >>,
                   owner |-> Client]}
            /\ Return("second")
            /\ UNCHANGED rd
  /\ UNCHANGED <<two_write_queues, limit, last_allocated, last_sequence, memtable, commit_seq,
                 heaps, evictions, prepared, rolling>>

\* RemovePrepared of a batch, under prepared_mutex_.
RemovePrepared(seqs) ==
  LET he == Erase(heap, erased, ToSet(seqs))
  IN  /\ CanWriteLock
      /\ he.heap # heap => PushPopFree
      /\ heap' = he.heap
      /\ erased' = he.erased
      /\ delayed' = delayed \ ToSet(seqs)
      /\ delayed_commits' = {e \in delayed_commits : e.prep \notin ToSet(seqs)}

\* From the commit callback.
CallbackRemoves ==
  /\ w["second"].pc = "remove"
  /\ RemovePrepared(w["second"].txn)
  /\ Return("second")
  /\ Resume(w["second"].owner)
  /\ UNCHANGED <<db, memtable, commit_seq, evictions, clients>>

\* From the client, after its write returned: a roll-back removes the
\* prepared batch and then its own.
ClientRemoves(c) ==
  /\ RemovePrepared(Head(c.calls))
  /\ IF Len(c.calls) = 1
       THEN removing' = removing \ {c} /\ Resume(c.owner)
       ELSE /\ removing' = (removing \ {c}) \cup {[c EXCEPT !.calls = Tail(@)]}
            /\ UNCHANGED rd
  /\ UNCHANGED <<db, memtable, commit_seq, evictions, w, prepared, rolling>>

InsertInto ==
  /\ w["main"].pc = "insert"
  /\ memtable' = memtable \cup w["main"].data
  /\ Goto("main", "set_last")
  /\ UNCHANGED <<db, commit_seq, heaps, evictions, clients, rd>>

\* VersionSet::SetLastSequence, and what the client keeps of the write.
SetLastSequence ==
  LET write == w["main"]
  IN  /\ write.pc = "set_last"
      /\ last_sequence' = write.last
      /\ prepared' = IF write.kind = "prepare"
                       THEN prepared \cup {[seqs |-> write.txn, owner |-> write.owner]}
                       ELSE prepared
      /\ rolling' = IF write.kind = "rollback" /\ two_write_queues
                      THEN rolling \cup {[seqs |-> write.txn, seq |-> write.base]}
                      ELSE rolling
      /\ removing' = IF write.kind \in {"commit", "rollback"} /\ ~two_write_queues
                       THEN removing \cup {[calls |-> <<write.txn>>, owner |-> write.owner]}
                       ELSE removing
      /\ Return("main")
      /\ UNCHANGED <<two_write_queues, limit, last_allocated, last_published, memtable,
                     commit_seq, heaps, evictions, rd>>

-----------------------------------------------------------------------------
(* SmallestUnCommittedSeq: the last number, the heap and the delayed entries,*)
(* in this order and not at once.                                            *)

Step(r, pc) == rd' = [rd EXCEPT ![r].pc = pc]

\* Readers change nothing that another reader looks at, save the list of the
\* snapshots: few of them in the middle of a call show what many would.
MayBegin ==
  Cardinality({r \in Readers : rd[r].pc \notin {"idle", "ready"}}) < MaxBusyReaders

ReaderOnly == UNCHANGED <<db, memtable, commit_seq, heaps, evictions, w, clients>>

\* GetSnapshotInternal, or a Get without a snapshot.
BeginRead(r, kind) ==
  /\ rd[r].pc = "idle"
  /\ MayBegin
  /\ rd' = [rd EXCEPT ![r] = [IdleReader EXCEPT !.pc = "top", !.kind = kind,
                                                !.min = last_sequence + 1]]
  /\ ReaderOnly

ReadTop(r) ==
  /\ rd[r].pc = "top"
  /\ rd' = [rd EXCEPT ![r].pc = "delayed", ![r].min = Min({@, Top(heap)})]
  /\ ReaderOnly

ReadDelayed(r) ==
  /\ rd[r].pc = "delayed"
  /\ delayed # {} => CanReadLock
  /\ rd' = [rd EXCEPT ![r].pc = "take",
                      ![r].min = IF delayed = {} THEN @ ELSE Min(delayed)]
  /\ ReaderOnly

\* GetSnapshotImpl under the DB mutex; a Get only loads the number.
TakeSnapshot(r) ==
  /\ rd[r].pc = "take"
  /\ rd' = [rd EXCEPT ![r].snap = Published,
                      ![r].pc = IF rd[r].kind = "snapshot" THEN "future" ELSE "ready"]
  /\ ReaderOnly

\* Variant: the snapshot is compared with the maximum of the moment.
CheckSnapshotLate(r) ==
  /\ rd[r].pc = "future"
  /\ Step(r, IF rd[r].snap # 0 /\ rd[r].snap <= max_evicted_seq
               THEN "advance" ELSE "ready")
  /\ ReaderOnly

\* A snapshot that is not above future_max_evicted_seq_ is given up and taken
\* again after AdvanceSeqByOne.
CheckSnapshot(r) ==
  /\ rd[r].pc = "future"
  /\ Step(r, IF rd[r].snap # 0 /\ rd[r].snap <= future_max_evicted_seq
               THEN "advance" ELSE "ready")
  /\ ReaderOnly

\* A compaction works with the numbers of the live snapshots, without a hold
\* on them.
BeginCompaction(r, s) ==
  /\ rd[r].pc = "idle"
  /\ s \in Live
  /\ rd' = [rd EXCEPT ![r] = [IdleReader EXCEPT !.pc = "ready", !.kind = "compaction",
                                                !.min = 1, !.snap = s]]
  /\ ReaderOnly

\* ReleaseSnapshot, or the end of the compaction.
EndRead(r) ==
  /\ rd[r].pc = "ready"
  /\ rd' = [rd EXCEPT ![r] = IdleReader]
  /\ ReaderOnly

-----------------------------------------------------------------------------
(* IsInSnapshot(prep, snap, min): a load at a time.                         *)

Answered(reader, answer, released) ==
  [reader EXCEPT !.answer = answer, !.released = released, !.lb = 0,
                 !.was_empty = TRUE,
                 !.pc = IF reader.kind = "get" THEN "validate" ELSE "answered"]

Answer(r, answer, released) ==
  rd' = [rd EXCEPT ![r] = Answered(@, answer, released)]

\* The top of the loop.  Nothing another thread could see comes between this
\* load and the step before it; the maximum only grows.
LoadMax(reader) ==
  [reader EXCEPT !.lb = max_evicted_seq, !.was_empty = TRUE, !.pc = "was_empty"]

Cached(r) == commit_cache[rd[r].prep % COMMIT_CACHE_SIZE]

\* The read meets a number in the memtable; what is below the smallest
\* uncommitted one is committed, for the others the maximum is loaded.
Query(r, prep) ==
  /\ rd[r].pc = "ready"
  /\ MayBegin
  /\ prep \in memtable
  /\ prep <= rd[r].snap
  /\ IF prep < rd[r].min
       THEN rd' = [rd EXCEPT ![r] = Answered([@ EXCEPT !.prep = prep], TRUE, FALSE)]
       ELSE rd' = [rd EXCEPT ![r] = LoadMax([@ EXCEPT !.prep = prep])]
  /\ ReaderOnly

LoadWasEmpty(r) ==
  /\ rd[r].pc = "was_empty"
  /\ rd' = [rd EXCEPT ![r].was_empty = (delayed = {}), ![r].pc = "cache"]
  /\ ReaderOnly

LoadEntry(r) ==
  /\ rd[r].pc = "cache"
  /\ IF Cached(r).prep = rd[r].prep
       THEN Answer(r, Cached(r).commit <= rd[r].snap, FALSE)
       ELSE Step(r, "ub")
  /\ ReaderOnly

\* An unchanged maximum below prep: still prepared.  A changed one: again.
LoadMaxAgain(r) ==
  /\ rd[r].pc = "ub"
  /\ CASE rd[r].lb # max_evicted_seq -> rd' = [rd EXCEPT ![r] = LoadMax(@)]
       [] rd[r].lb = max_evicted_seq /\ max_evicted_seq < rd[r].prep ->
            Answer(r, FALSE, FALSE)
       [] OTHER -> rd' = [rd EXCEPT ![r].was_empty = TRUE,
                                    ![r].pc = IF rd[r].was_empty THEN "old" ELSE "delayed_lock"]
  /\ ReaderOnly

\* Under prepared_mutex_: delayed, and committed or not.
FindDelayed(r) ==
  LET commits == {e.commit : e \in {x \in delayed_commits : x.prep = rd[r].prep}}
  IN  /\ rd[r].pc = "delayed_lock"
      /\ CanReadLock
      /\ IF rd[r].prep \in delayed
           THEN Answer(r, \E c \in commits : c <= rd[r].snap, FALSE)
           ELSE Step(r, "again")
      /\ ReaderOnly

\* Still under it: the cache again, and the maximum again.
LoadEntryAgain(r) ==
  /\ rd[r].pc = "again"
  /\ IF Cached(r).prep = rd[r].prep
       THEN Answer(r, Cached(r).commit <= rd[r].snap, FALSE)
       ELSE Step(r, "ub_again")
  /\ ReaderOnly

LoadMaxOnceMore(r) ==
  /\ rd[r].pc = "ub_again"
  /\ IF rd[r].lb # max_evicted_seq
       THEN rd' = [rd EXCEPT ![r] = LoadMax(@)]
       ELSE Step(r, "old")
  /\ ReaderOnly

\* Evicted, and not delayed: committed, unless an old snapshot overlaps.  The
\* two loads of the maximum were equal here.
LoadOldEmpty(r) ==
  /\ rd[r].pc = "old"
  /\ CASE rd[r].lb < rd[r].snap -> Answer(r, TRUE, FALSE)
       [] rd[r].lb >= rd[r].snap /\ old_commit_map = <<>> -> Answer(r, TRUE, TRUE)
       [] OTHER -> Step(r, "old_lock")
  /\ ReaderOnly

\* Variant: a snapshot without an entry is not reported as released.
FindOldUntold(r) ==
  /\ rd[r].pc = "old_lock"
  /\ Answer(r, rd[r].snap \in DOMAIN old_commit_map
                 => rd[r].prep \notin old_commit_map[rd[r].snap], FALSE)
  /\ ReaderOnly

FindOld(r) ==
  LET found == rd[r].snap \in DOMAIN old_commit_map
  IN  /\ rd[r].pc = "old_lock"
      /\ Answer(r, found => rd[r].prep \notin old_commit_map[rd[r].snap], ~found)
      /\ ReaderOnly

\* Variant: the answer is used as it is.
ValidateNothing(r) ==
  /\ rd[r].pc = "validate"
  /\ Step(r, "answered")
  /\ ReaderOnly

\* A Get that has no snapshot to back it: Status::TryAgain, or its answer.
ValidateSnapshot(r) ==
  /\ rd[r].pc = "validate"
  /\ IF rd[r].released \/ (rd[r].snap <= max_evicted_seq /\ rd[r].snap # 0)
       THEN rd' = [rd EXCEPT ![r] = IdleReader]
       ELSE Step(r, "answered")
  /\ ReaderOnly

UseAnswer(r) ==
  /\ rd[r].pc = "answered"
  /\ rd' = [rd EXCEPT ![r] = IF @.kind = "get" THEN IdleReader
                             ELSE [@ EXCEPT !.pc = "ready", !.prep = 0, !.answer = FALSE,
                                            !.released = FALSE]]
  /\ ReaderOnly

-----------------------------------------------------------------------------
ClientStep ==
  \/ \E n \in 1 .. MaxSubBatches : ClientPrepares(n) \/ Write(n)
  \/ \E t \in prepared : Commit(t) \/ Rollback(t)
  \/ \E t \in rolling : CommitRollback(t)
  \/ \E c \in removing : ClientRemoves(c)

CommitStep(q) ==
  \/ FindEvicted(q) \/ PeekTop(q) \/ ListSnapshots(q)
  \/ ForgetSnapshot(q) \/ RememberSnapshots(q) \/ AdvanceMax(q)
  \/ KeepDelayedCommit(q) \/ KeepForSnapshots(q) \/ Exchange(q)

QueueStep ==
  \/ Push \/ CheckFutureMax \/ InsertInto \/ SetLastSequence
  \/ Publish \/ CallbackRemoves
  \/ \E q \in Queues : MoveTop(q) \/ PopTop(q) \/ CommitStep(q)

ReaderStep(r) ==
  \/ \E kind \in {"snapshot", "get"} : BeginRead(r, kind)
  \/ \E s \in Live : BeginCompaction(r, s)
  \/ ReadTop(r) \/ ReadDelayed(r) \/ TakeSnapshot(r) \/ CheckSnapshot(r)
  \/ ReaderPrepares(r) \/ EndRead(r)
  \/ \E prep \in memtable : Query(r, prep)
  \/ LoadWasEmpty(r) \/ LoadEntry(r) \/ LoadMaxAgain(r)
  \/ FindDelayed(r) \/ LoadEntryAgain(r) \/ LoadMaxOnceMore(r)
  \/ LoadOldEmpty(r) \/ FindOld(r) \/ ValidateSnapshot(r) \/ UseAnswer(r)

Next == ClientStep \/ QueueStep \/ \E r \in Readers : ReaderStep(r)

Spec == Init /\ [][Next]_vars

-----------------------------------------------------------------------------
(* What IsInSnapshot has to answer: the number was committed, and with a     *)
(* commit number that the snapshot includes.                                 *)
InSnapshot(r) ==
  LET c == commit_seq[rd[r].prep] IN c # 0 /\ c <= rd[r].snap

\* A read from a snapshot that is held sees exactly the transactions that had
\* committed when it was taken, however many entries were evicted since, and
\* is never told that its snapshot was released.
\* (WritePreparedTxnReadCallback::IsVisibleFullCheck, its assertion included)
SnapshotReadsAreExact ==
  \A r \in Readers :
    rd[r].pc = "answered" /\ rd[r].kind = "snapshot" =>
      rd[r].answer = InSnapshot(r) /\ ~rd[r].released

\* A Get without a snapshot that does not end with TryAgain is exact too.
\* (WritePreparedTxnDB::GetImpl, ValidateSnapshot)
GetsAreExact ==
  \A r \in Readers :
    rd[r].pc = "answered" /\ rd[r].kind = "get" => rd[r].answer = InSnapshot(r)

\* A compaction, whose snapshots may be released at any time, is told so or
\* gets the exact answer.  (WritePreparedSnapshotChecker::CheckInSnapshot)
CompactionsAreTold ==
  \A r \in Readers :
    rd[r].pc = "answered" /\ rd[r].kind = "compaction" =>
      rd[r].released \/ rd[r].answer = InSnapshot(r)

\* Data that a read can meet, that is not committed and that is not above
\* max_evicted_seq_ is in delayed_prepared_; above it, it is in the heap.
\* (CheckPreparedAgainstMax and AddPrepared against AdvanceMaxEvictedSeq)
UncommittedAreFound ==
  \A s \in memtable :
    commit_seq[s] = 0 =>
      \/ s \in delayed
      \/ s > max_evicted_seq /\ s \in heap \ erased

\* When no transaction is open and no write is on its way, nothing is left
\* in the heap, in its list of erasures or among the delayed entries.
\* (the assertions of ~PreparedHeap; RemovePrepared)
NothingLeftBehind ==
  (\A q \in Queues : w[q].pc = "idle") /\ prepared = {} /\ rolling = {} /\ removing = {}
    => heap = {} /\ erased = {} /\ delayed = {} /\ delayed_commits = {}

=============================================================================
