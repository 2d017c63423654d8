----------------------------- MODULE WriteThread -----------------------------
(* The write queue of db/write_thread.cc, driven by the threads that run       *)
(* DBImpl::WriteImpl, DBImpl::PipelinedWriteImpl and EnterUnbatched.           *)
(*                                                                             *)
(* A Writer lives on the stack of the thread that writes: a member of Writers  *)
(* is at once the thread and the address of its Writer, and the thread uses    *)
(* that address again for its next write.  One step is one atomic operation on *)
(* memory that threads share: a compare-and-swap of newest_writer_ together    *)
(* with what only the leader can see before and after it, or the SetState of   *)
(* one Writer, after which its owner may return at any time.  How SetState     *)
(* wakes the owner is the subject of WriterState.                              *)
EXTENDS Integers, Sequences, SequencesExt, FiniteSets

CONSTANTS
  Writers,        \* threads, and the addresses of their Writers
  Null,           \* nullptr
  StallDummy,     \* &write_stall_dummy_
  Databases,      \* the DBs a run looks at, see db
  MaxGroupBytes,  \* max_write_batch_group_size_bytes
  MaxOps          \* bound: how many writes are started

VARIABLES
  db,               \* a member of Databases: the options the DB was opened with
  newest_writer, newest_memtable_writer,   \* heads of the two lists
  link_older, link_newer,                  \* the links of each node
  state, status, opt, sequence,            \* fields of each Writer
  write_group,      \* the owner of the WriteGroup a Writer points to
  group,            \* the WriteGroup on the stack of each thread
  stall_begun_count, stall_ended_count,
  wal_sequence,     \* WriteThread::last_sequence_
  last_sequence,    \* VersionSet::last_sequence_, what readers see
  bg_error,         \* the error handler has stopped the DB
  pc, cursor, prev, \* control and local pointers of each thread
  result,           \* the local Status of WriteImpl
  synced, inserted, \* Writers whose batch is on stable storage; in the memtable
  ops               \* how many writes have started

listVars  == <<newest_writer, newest_memtable_writer, link_older, link_newer>>
groupVars == <<write_group, group>>
stallVars == <<stall_begun_count, stall_ended_count>>
seqVars   == <<sequence, wal_sequence, last_sequence>>
dataVars  == <<bg_error, synced, inserted>>
vars == <<db, listVars, groupVars, stallVars, seqVars, dataVars,
          state, status, opt, pc, cursor, prev, result, ops>>

Pipelined  == db.pipelined    \* enable_pipelined_write
Concurrent == db.concurrent   \* allow_concurrent_memtable_write
Options    == db.options      \* what a write may ask for: a set of option records
Outcomes   == db.outcomes     \* what a preparation, a WAL write and an insertion may return
MaxStalls  == db.stalls       \* bound: how many write stalls begin

-----------------------------------------------------------------------------
(* Nodes and links.                                                            *)

\* The Writer that ExitAsBatchGroupLeader ("dummy") or WaitForMemTableWriters
\* ("w") keeps on the stack of thread t beside t's own.
Aux(t) == <<t>>

Nodes == Writers \cup {Aux(t) : t \in Writers} \cup {StallDummy}

\* head, the node it is linked to, and so on to the oldest.
OlderChain(older, head) ==
  LET chain[n \in Nodes \cup {Null}] ==
        IF n = Null THEN <<>> ELSE <<n>> \o chain[older[n]]
  IN  chain[head]

\* The nodes from first to last by link_newer: the iterator of a WriteGroup.
NewerChain(newer, first, last) ==
  LET chain[n \in Nodes] ==
        IF n = last THEN <<n>> ELSE <<n>> \o chain[newer[n]]
  IN  chain[first]

\* A node's link_newer is filled in from its newer neighbour, up to the first
\* node that already has one.
CreateMissingNewerLinks(older, newer, head) ==
  LET s == OlderChain(older, head)
      stop == CHOOSE i \in 2..(Len(s) + 1) :
                /\ i = Len(s) + 1 \/ newer[s[i]] # Null
                /\ \A j \in 2..(i - 1) : newer[s[j]] = Null
      filled == 2..(stop - 1)
  IN  [n \in Nodes |-> IF \E i \in filled : s[i] = n
                       THEN s[(CHOOSE i \in filled : s[i] = n) - 1]
                       ELSE newer[n]]

-----------------------------------------------------------------------------
(* Writers and groups.                                                         *)

NoOptions == [batch |-> TRUE, sync |-> FALSE, no_slowdown |-> FALSE, disable_wal |-> FALSE,
              class |-> 0, mem |-> TRUE, merge |-> FALSE, callback |-> "none", size |-> 0,
              count |-> 0]

NoGroup == [leader |-> Null, last_writer |-> Null, size |-> 0, running |-> 0,
            status |-> "ok", last_sequence |-> 0]

CallbackFailed(w) == opt[w].callback = "fail"

\* Does a Writer w whose status is s go to the memtable?
ShouldWriteToMemtable(w, s) == s = "ok" /\ ~CallbackFailed(w) /\ opt[w].mem

FinalStatus(w) ==
  IF status[w] # "ok" THEN status[w] ELSE IF CallbackFailed(w) THEN "busy" ELSE "ok"

\* What WriteImpl returns: its local status, or that of the Writer.
Returned(t) == IF result[t] # "ok" THEN result[t] ELSE FinalStatus(t)

Members(t) == NewerChain(link_newer, group[t].leader, group[t].last_writer)

Owner(t) == write_group[t]

-----------------------------------------------------------------------------
Init ==
  /\ db \in Databases
  /\ newest_writer = Null /\ newest_memtable_writer = Null
  /\ link_older = [n \in Nodes |-> Null] /\ link_newer = [n \in Nodes |-> Null]
  /\ state = [n \in Nodes |-> "INIT"] /\ status = [w \in Writers |-> "ok"]
  /\ opt = [w \in Writers |-> NoOptions]
  /\ sequence = [w \in Writers |-> 0] /\ wal_sequence = 0 /\ last_sequence = 0
  /\ write_group = [w \in Writers |-> Null] /\ group = [w \in Writers |-> NoGroup]
  /\ stall_begun_count = 0 /\ stall_ended_count = 0
  /\ bg_error = FALSE /\ synced = {} /\ inserted = {}
  /\ pc = [w \in Writers |-> "idle"] /\ result = [w \in Writers |-> "ok"]
  /\ cursor = [w \in Writers |-> Null] /\ prev = [w \in Writers |-> Null]
  /\ ops = 0

Goto(t, label) == pc' = [pc EXCEPT ![t] = label]

\* A write begins: its Writer is constructed.
Start(t) ==
  /\ pc[t] = "idle" /\ ops < MaxOps
  /\ ops' = ops + 1
  /\ \E o \in Options : opt' = [opt EXCEPT ![t] = o]
  /\ Goto(t, "link")
  /\ UNCHANGED <<listVars, groupVars, stallVars, seqVars, dataVars, state, status, cursor, prev,
                 result>>

\* WriteImpl returns and the Writer is gone.
Return(t) ==
  /\ pc[t] = "return"
  /\ link_older' = [link_older EXCEPT ![t] = Null, ![Aux(t)] = Null]
  /\ link_newer' = [link_newer EXCEPT ![t] = Null, ![Aux(t)] = Null]
  /\ state' = [state EXCEPT ![t] = "INIT", ![Aux(t)] = "INIT"]
  /\ status' = [status EXCEPT ![t] = "ok"]
  /\ opt' = [opt EXCEPT ![t] = NoOptions]
  /\ sequence' = [sequence EXCEPT ![t] = 0]
  /\ write_group' = [write_group EXCEPT ![t] = Null]
  /\ group' = [group EXCEPT ![t] = NoGroup]
  /\ cursor' = [cursor EXCEPT ![t] = Null] /\ prev' = [prev EXCEPT ![t] = Null]
  /\ result' = [result EXCEPT ![t] = "ok"]
  /\ synced' = synced \ {t} /\ inserted' = inserted \ {t}
  /\ Goto(t, "idle")
  /\ UNCHANGED <<newest_writer, newest_memtable_writer, stallVars, wal_sequence, last_sequence,
                 bg_error, ops>>

-----------------------------------------------------------------------------
(* LinkOne, JoinBatchGroup and AwaitState.                                     *)

\* A leader that must not overtake memtable writers waits for them first.
LeaderStart(t) ==
  IF Pipelined /\ (~opt[t].batch \/ opt[t].callback = "solo") THEN "flush"
  ELSE IF opt[t].batch THEN "preprocess" ELSE "alone"

\* LinkOne meets the stall dummy: a write with no_slowdown fails at once.
FailNoSlowdown(t) ==
  /\ pc[t] = "link" /\ newest_writer = StallDummy /\ opt[t].no_slowdown
  /\ status' = [status EXCEPT ![t] = "stall"]
  /\ state' = [state EXCEPT ![t] = "COMPLETED"]
  /\ Goto(t, "wait")
  /\ UNCHANGED <<listVars, groupVars, stallVars, seqVars, dataVars, opt, cursor, prev, result, ops>>

\* LinkOne meets the stall dummy: other writes sleep on stall_cv_.
WaitForStallEnd(t) ==
  /\ pc[t] = "link" /\ newest_writer = StallDummy /\ ~opt[t].no_slowdown
  /\ Goto(t, "asleep")
  /\ UNCHANGED <<listVars, groupVars, stallVars, seqVars, dataVars, state, status, opt, cursor,
                 prev, result, ops>>

\* LinkOne pushes the Writer; the first in the list is its own leader.
LinkOne(t) ==
  /\ pc[t] = "link" /\ newest_writer # StallDummy
  /\ link_older' = [link_older EXCEPT ![t] = newest_writer]
  /\ newest_writer' = t
  /\ state' = [state EXCEPT ![t] = IF newest_writer = Null /\ opt[t].batch
                                   THEN "GROUP_LEADER" ELSE @]
  /\ Goto(t, IF newest_writer = Null THEN LeaderStart(t) ELSE "wait")
  /\ UNCHANGED <<newest_memtable_writer, link_newer, groupVars, stallVars, seqVars, dataVars,
                 status, opt, cursor, prev, result, ops>>

\* The states that end the wait of thread t.
Goal(t) ==
  CASE pc[t] = "wait" /\ opt[t].batch ->
         {"GROUP_LEADER", "MEMTABLE_LEADER", "PARALLEL_WRITER", "COMPLETED"}
    [] pc[t] = "wait" /\ ~opt[t].batch -> {"GROUP_LEADER"}
    [] pc[t] = "await" -> {"MEMTABLE_LEADER", "PARALLEL_WRITER", "COMPLETED"}
    [] pc[t] = "awaitDone" -> {"COMPLETED"}
    [] OTHER -> {}

AwaitState(t) ==
  /\ state[t] \in Goal(t)
  /\ Goto(t, CASE state[t] = "GROUP_LEADER" -> LeaderStart(t)
               [] state[t] = "MEMTABLE_LEADER" -> "enterMem"
               [] state[t] = "PARALLEL_WRITER" -> "insert"
               [] state[t] = "COMPLETED" -> "return")
  /\ result' = [result EXCEPT ![t] = IF state[t] = "COMPLETED" THEN Returned(t) ELSE @]
  /\ UNCHANGED <<listVars, groupVars, stallVars, seqVars, dataVars, state, status, opt, cursor,
                 prev, ops>>

-----------------------------------------------------------------------------
(* PreprocessWrite: errors, delays and stalls.                                 *)

\* The status PreprocessWrite returns goes to w.status or to WriteImpl's own.
SetStatus(t, s) ==
  IF Pipelined THEN status' = [status EXCEPT ![t] = s] /\ UNCHANGED result
               ELSE result' = [result EXCEPT ![t] = s] /\ UNCHANGED status

StatusOf(t) == IF Pipelined THEN status[t] ELSE result[t]

\* A stopped DB fails, a write with no_slowdown may fail because of a stall, and
\* switching memtables or WALs may fail.
PreprocessWrite(t) ==
  /\ pc[t] = "preprocess"
  /\ \E s \in IF bg_error THEN {"error"}
              ELSE Outcomes \cup (IF opt[t].no_slowdown THEN {"stall"} ELSE {}) : SetStatus(t, s)
  /\ Goto(t, "build")
  /\ UNCHANGED <<listVars, groupVars, stallVars, seqVars, dataVars, state, opt, cursor, prev, ops>>

\* The leader has to wait: it pushes the dummy ...
BeginWriteStall(t) ==
  /\ pc[t] = "preprocess" /\ ~bg_error /\ ~opt[t].no_slowdown
  /\ stall_begun_count < MaxStalls
  /\ stall_begun_count' = stall_begun_count + 1
  /\ link_older' = [link_older EXCEPT ![StallDummy] = newest_writer]
  /\ newest_writer' = StallDummy
  /\ cursor' = [cursor EXCEPT ![t] = newest_writer]
  /\ prev' = [prev EXCEPT ![t] = StallDummy]
  /\ Goto(t, "walk")
  /\ UNCHANGED <<newest_memtable_writer, link_newer, groupVars, stall_ended_count, seqVars,
                 dataVars, state, status, opt, result, ops>>

\* Variant: link_newer is set whether or not it was set before.
StallWalkSetsNewer(t) ==
  LET w == cursor[t]
      older == link_older[w]
  IN
  /\ pc[t] = "walk" /\ w # Null /\ write_group[w] = Null
  /\ IF opt[w].no_slowdown
     THEN /\ link_older' = [link_older EXCEPT ![prev[t]] = older]
          /\ status' = [status EXCEPT ![w] = "stall"]
          /\ state' = [state EXCEPT ![w] = "COMPLETED"]
          /\ link_newer' = IF older # Null THEN [link_newer EXCEPT ![older] = prev[t]] ELSE link_newer
          /\ UNCHANGED prev
     ELSE /\ prev' = [prev EXCEPT ![t] = w]
          /\ UNCHANGED <<link_older, link_newer, status, state>>
  /\ cursor' = [cursor EXCEPT ![t] = older]
  /\ UNCHANGED <<newest_writer, newest_memtable_writer, groupVars, stallVars, seqVars, dataVars,
                 opt, pc, result, ops>>

\* ... and takes the queued no_slowdown writes out of the list, one at a time.
StallWalk(t) ==
  LET w == cursor[t]
      older == link_older[w]
  IN
  /\ pc[t] = "walk" /\ w # Null /\ write_group[w] = Null
  /\ IF opt[w].no_slowdown
     THEN /\ link_older' = [link_older EXCEPT ![prev[t]] = older]
          /\ status' = [status EXCEPT ![w] = "stall"]
          /\ state' = [state EXCEPT ![w] = "COMPLETED"]
          /\ link_newer' = IF older # Null /\ link_newer[older] # Null
                           THEN [link_newer EXCEPT ![older] = prev[t]] ELSE link_newer
          /\ UNCHANGED prev
     ELSE /\ prev' = [prev EXCEPT ![t] = w]
          /\ UNCHANGED <<link_older, link_newer, status, state>>
  /\ cursor' = [cursor EXCEPT ![t] = older]
  /\ UNCHANGED <<newest_writer, newest_memtable_writer, groupVars, stallVars, seqVars, dataVars,
                 opt, pc, result, ops>>

\* The walk is through.
StallWalkEnds(t) ==
  /\ pc[t] = "walk" /\ (cursor[t] # Null => write_group[cursor[t]] # Null)
  /\ cursor' = [cursor EXCEPT ![t] = Null] /\ prev' = [prev EXCEPT ![t] = Null]
  /\ Goto(t, "stalling")
  /\ UNCHANGED <<listVars, groupVars, stallVars, seqVars, dataVars, state, status, opt, result, ops>>

\* The stall clears: the dummy leaves the list and every sleeper tries again.
EndWriteStall(t) ==
  LET older == link_older[StallDummy] IN
  /\ pc[t] = "stalling"
  /\ link_newer' = IF older # Null THEN [link_newer EXCEPT ![older] = link_newer[StallDummy]]
                   ELSE link_newer
  /\ newest_writer' = older
  /\ stall_ended_count' = stall_ended_count + 1
  /\ pc' = [u \in Writers |-> IF u = t THEN "preprocess"
                              ELSE IF pc[u] = "asleep" THEN "link" ELSE pc[u]]
  /\ UNCHANGED <<newest_memtable_writer, link_older, groupVars, stall_begun_count, seqVars,
                 dataVars, state, status, opt, cursor, prev, result, ops>>

-----------------------------------------------------------------------------
(* EnterAsBatchGroupLeader.                                                    *)

MinBatchBytes == MaxGroupBytes \div 8

\* How large the group of a leader may get.
MaxSize(t) == IF opt[t].size <= MinBatchBytes THEN opt[t].size + MinBatchBytes ELSE MaxGroupBytes

\* Variant: a sync write may follow a leader that does not sync.
IncompatibleButSync(t, w, size) ==
  \/ opt[w].no_slowdown # opt[t].no_slowdown
  \/ opt[w].disable_wal # opt[t].disable_wal
  \/ opt[w].class # opt[t].class
  \/ ~opt[w].batch
  \/ opt[w].callback = "solo"
  \/ size + opt[w].size > MaxSize(t)

\* Writes that leader t must not take into a group that holds size bytes.
Incompatible(t, w, size) ==
  \/ opt[w].sync /\ ~opt[t].sync
  \/ opt[w].no_slowdown # opt[t].no_slowdown
  \/ opt[w].disable_wal # opt[t].disable_wal
  \/ opt[w].class # opt[t].class
  \/ ~opt[w].batch
  \/ opt[w].callback = "solo"
  \/ size + opt[w].size > MaxSize(t)

\* The pointer updates of one round of the loop over the queue: w moves to the
\* list that starts at rb and ends at re, or joins the group that ends at we.
Sort(t, l, w) ==
  LET o == l.older[w]
      n == l.newer[w]
      newer1 == [l.newer EXCEPT ![o] = n]
      older1 == IF n # Null THEN [l.older EXCEPT ![n] = o] ELSE l.older
  IN
  IF Incompatible(t, w, l.size)
  THEN [l EXCEPT !.rb = IF l.re = Null THEN w ELSE @,
                 !.re = w,
                 !.older = [older1 EXCEPT ![w] = l.re],
                 !.newer = IF l.re = Null THEN newer1 ELSE [newer1 EXCEPT ![l.re] = w]]
  ELSE [l EXCEPT !.we = w, !.size = @ + opt[w].size, !.members = @ \cup {w}]

\* Variant: the last of the rest keeps its link_newer.
AppendRestOpen(l) ==
  [l EXCEPT !.older = [@ EXCEPT ![l.rb] = l.we], !.newer = [@ EXCEPT ![l.we] = l.rb]]

\* The rest of the queue goes behind the group.
AppendRest(l) ==
  [l EXCEPT !.older = [@ EXCEPT ![l.rb] = l.we],
            !.newer = [@ EXCEPT ![l.re] = Null, ![l.we] = l.rb]]

\* The leader looks at the queue once and takes the compatible writes; the
\* others are to follow the group.
EnterAsBatchGroupLeader(t) ==
  LET newer == CreateMissingNewerLinks(link_older, link_newer, newest_writer)
      queue == Tail(NewerChain(newer, t, newest_writer))
      l == FoldLeft(LAMBDA acc, w : Sort(t, acc, w),
                    [older |-> link_older, newer |-> newer, we |-> t, rb |-> Null, re |-> Null,
                     size |-> opt[t].size, members |-> {t}], queue)
  IN
  /\ pc[t] = "build"
  /\ write_group' = [w \in Writers |-> IF w \in l.members THEN t ELSE write_group[w]]
  /\ group' = [group EXCEPT ![t] = [NoGroup EXCEPT !.leader = t, !.last_writer = l.we,
                                                   !.size = Cardinality(l.members)]]
  /\ IF l.rb = Null
     THEN /\ link_older' = l.older /\ link_newer' = l.newer
          /\ UNCHANGED <<cursor, prev>>
          /\ Goto(t, "wal")
     ELSE /\ link_older' = AppendRest(l).older /\ link_newer' = AppendRest(l).newer
          /\ cursor' = [cursor EXCEPT ![t] = newest_writer]
          /\ prev' = [prev EXCEPT ![t] = l.re]
          /\ Goto(t, "graft")
  /\ UNCHANGED <<newest_writer, newest_memtable_writer, stallVars, seqVars, dataVars, state,
                 status, opt, result, ops>>

\* compare_exchange_weak is taken to fail only when a writer has arrived.
CASFails(head) == newest_writer # head

\* The rest of the queue becomes its head, or the writer that followed the old
\* head is linked to it.  Without such a writer the walk would leave the list:
\* nothing follows "fault", so that TLC would report a deadlock.
GraftRest(t) ==
  LET head == cursor[t]
      next == {n \in ToSet(OlderChain(link_older, newest_writer)) : link_older[n] = head}
  IN
  /\ pc[t] = "graft"
  /\ \/ /\ newest_writer = head
        /\ newest_writer' = prev[t]
        /\ Goto(t, "wal")
        /\ UNCHANGED link_older
     \/ /\ CASFails(head)
        /\ link_older' = [n \in Nodes |-> IF n \in next THEN prev[t] ELSE link_older[n]]
        /\ Goto(t, IF next = {} THEN "fault" ELSE "wal")
        /\ UNCHANGED newest_writer
  /\ cursor' = [cursor EXCEPT ![t] = Null] /\ prev' = [prev EXCEPT ![t] = Null]
  /\ UNCHANGED <<newest_memtable_writer, link_newer, groupVars, stallVars, seqVars, dataVars,
                 state, status, opt, result, ops>>

-----------------------------------------------------------------------------
(* The WAL write of a group, and the memtable insertion.                       *)

\* Variant: a batch counts as one entry.
CountBatches(s, k) == Cardinality({i \in 1..k : ShouldWriteToMemtable(s[i], "ok")})

\* How many sequence numbers the first k members of a group consume: one for
\* each entry of a batch that goes to the memtable.
Count(s, k) ==
  MapThenSumSet(LAMBDA i : opt[s[i]].count, {i \in 1..k : ShouldWriteToMemtable(s[i], "ok")})

\* The sequence number of the last entry of a batch.
LastEntry(w) == sequence[w] + opt[w].count - 1

\* Merges are not inserted concurrently.
Parallel(t) ==
  /\ Concurrent /\ group[t].size > 1
  /\ \A w \in ToSet(Members(t)) : ShouldWriteToMemtable(w, "ok") => ~opt[w].merge

\* The last sequence number in use (UpdateLastSequence when pipelined).
LastSequence ==
  IF Pipelined /\ wal_sequence > last_sequence THEN wal_sequence ELSE last_sequence

\* The leader writes its group to the WAL, with sequence numbers that follow the
\* last one, and syncs if it was asked to.
WriteToWAL(t) ==
  LET s == Members(t)
      first == LastSequence
      end == first + Count(s, Len(s))
  IN
  /\ pc[t] = "wal" /\ StatusOf(t) = "ok"
  /\ wal_sequence' = IF Pipelined THEN end ELSE wal_sequence
  /\ group' = [group EXCEPT ![t].last_sequence = end]
  /\ \E io \in IF opt[t].disable_wal THEN {"ok"} ELSE Outcomes :
       /\ sequence' = [w \in Writers |->
                         IF /\ \E i \in 1..Len(s) : s[i] = w
                            /\ ~CallbackFailed(w)
                            /\ IF Pipelined THEN opt[w].mem ELSE io = "ok"
                         THEN first + 1 + Count(s, (CHOOSE i \in 1..Len(s) : s[i] = w) - 1)
                         ELSE sequence[w]]
       /\ SetStatus(t, io)
       /\ bg_error' = (bg_error \/ io # "ok")
       /\ synced' = IF io = "ok" /\ opt[t].sync THEN synced \cup ToSet(s) ELSE synced
       /\ Goto(t, IF Pipelined \/ io # "ok" THEN "exit"
                  ELSE IF Parallel(t) THEN "launch" ELSE "serial")
  /\ UNCHANGED <<listVars, write_group, stallVars, last_sequence, inserted, state, opt, cursor,
                 prev, ops>>

\* A group whose leader failed before the WAL write fails as a whole; when
\* pipelined, WriteStatusCheck stops the DB unless the failure is a write stall.
SkipWrite(t) ==
  /\ pc[t] = "wal" /\ StatusOf(t) # "ok"
  /\ bg_error' = (bg_error \/ (Pipelined /\ StatusOf(t) # "stall"))
  /\ Goto(t, "exit")
  /\ UNCHANGED <<listVars, groupVars, stallVars, seqVars, synced, inserted, state, status, opt,
                 cursor, prev, result, ops>>

\* InsertInto of a whole group: batch after batch, up to the first that fails.
InsertSerially(t) ==
  LET s == Members(t)
      good == {k \in 1..Len(s) : ShouldWriteToMemtable(s[k], status[s[k]])}
  IN
  /\ pc[t] = "serial"
  /\ \E k \in {Len(s) + 1} \cup (IF "error" \in Outcomes THEN good ELSE {}) :
       LET s1 == IF k > Len(s) THEN "ok" ELSE "error"
           failed == IF k > Len(s) THEN {} ELSE {s[k]}
       IN
       /\ inserted' = inserted \cup {s[i] : i \in {j \in good : j < k}}
       /\ IF Pipelined
          THEN /\ group' = [group EXCEPT ![t].status = s1]
               /\ status' = [w \in Writers |-> IF w \in failed THEN "error" ELSE status[w]]
          ELSE /\ status' = [w \in Writers |-> IF w \in failed THEN "error"
                                               ELSE IF w = t THEN s1 ELSE status[w]]
               /\ UNCHANGED group
  /\ Goto(t, "publish")
  /\ UNCHANGED <<listVars, write_group, stallVars, seqVars, bg_error, synced, state, opt, cursor,
                 prev, result, ops>>

\* LaunchParallelMemTableWriters: one SetState at a time, over link_newer.
LaunchParallelMemTableWriters(t) ==
  LET w == IF cursor[t] = Null THEN group[t].leader ELSE link_newer[cursor[t]] IN
  /\ pc[t] = "launch"
  /\ group' = [group EXCEPT ![t].running = IF cursor[t] = Null THEN group[t].size ELSE @]
  /\ state' = [state EXCEPT ![w] = "PARALLEL_WRITER"]
  /\ IF w = group[t].last_writer
     THEN cursor' = [cursor EXCEPT ![t] = Null] /\ Goto(t, "insert")
     ELSE cursor' = [cursor EXCEPT ![t] = w] /\ UNCHANGED pc
  /\ UNCHANGED <<listVars, write_group, stallVars, seqVars, dataVars, status, opt, prev, result,
                 ops>>

\* A member of a parallel group inserts its own batch.
InsertInto(t) ==
  /\ pc[t] = "insert"
  /\ IF ShouldWriteToMemtable(t, status[t])
     THEN \E s \in Outcomes :
            /\ status' = [status EXCEPT ![t] = s]
            /\ inserted' = IF s = "ok" THEN inserted \cup {t} ELSE inserted
     ELSE UNCHANGED <<status, inserted>>
  /\ Goto(t, "count")
  /\ UNCHANGED <<listVars, groupVars, stallVars, seqVars, bg_error, synced, state, opt, cursor,
                 prev, result, ops>>

\* Variant: the last but one performs the exit duties.
CompleteParallelEarly(t) ==
  LET o == Owner(t)
      s == IF status[t] # "ok" THEN status[t] ELSE group[o].status
  IN
  /\ pc[t] = "count"
  /\ group' = [group EXCEPT ![o].status = s, ![o].running = @ - 1]
  /\ IF group[o].running > 2
     THEN Goto(t, "awaitDone") /\ UNCHANGED status
     ELSE /\ Goto(t, IF Pipelined THEN "check" ELSE "publish")
          /\ status' = [status EXCEPT ![t] = s]
  /\ UNCHANGED <<listVars, write_group, stallVars, seqVars, dataVars, state, opt, cursor, prev,
                 result, ops>>

\* The last member of the group to arrive performs the exit duties.
CompleteParallelMemTableWriter(t) ==
  LET o == Owner(t)
      s == IF status[t] # "ok" THEN status[t] ELSE group[o].status
  IN
  /\ pc[t] = "count"
  /\ group' = [group EXCEPT ![o].status = s, ![o].running = @ - 1]
  /\ IF group[o].running > 1
     THEN Goto(t, "awaitDone") /\ UNCHANGED status
     ELSE /\ Goto(t, IF Pipelined THEN "check" ELSE "publish")
          /\ status' = [status EXCEPT ![t] = s]
  /\ UNCHANGED <<listVars, write_group, stallVars, seqVars, dataVars, state, opt, cursor, prev,
                 result, ops>>

\* The group becomes visible to readers.
SetLastSequence(t) ==
  /\ pc[t] = "publish"
  /\ last_sequence' = group[Owner(t)].last_sequence
  /\ Goto(t, IF Pipelined THEN "exitMem" ELSE "check")
  /\ UNCHANGED <<listVars, groupVars, stallVars, sequence, wal_sequence, dataVars, state, status,
                 opt, cursor, prev, result, ops>>

\* A failed insertion stops the DB.
MemTableInsertStatusCheck(t) ==
  /\ pc[t] = "check"
  /\ bg_error' = (bg_error \/ status[t] # "ok")
  /\ Goto(t, IF Pipelined THEN "publish" ELSE "exit")
  /\ UNCHANGED <<listVars, groupVars, stallVars, seqVars, synced, inserted, state, status, opt,
                 cursor, prev, result, ops>>

-----------------------------------------------------------------------------
(* ExitAsBatchGroupLeader without pipelining; ExitAsBatchGroupFollower.        *)

\* The lists after the newer links are filled in from head and the writer that
\* follows last_writer becomes the first of its list.
HandOff(head, last, older) ==
  LET newer == CreateMissingNewerLinks(link_older, link_newer, head)
      next == newer[last]
  IN  [next |-> next, newer |-> newer, older |-> [link_older EXCEPT ![next] = older]]

\* The departing thread empties the queue, or hands the lead to the writer that
\* follows the group.
ExitAsBatchGroupLeader(t) ==
  LET g == group[Owner(t)]
      h == HandOff(newest_writer, g.last_writer, Null)
      s == IF t = g.leader THEN result[t] ELSE g.status
  IN
  /\ pc[t] = "exit" /\ ~Pipelined
  /\ result' = [result EXCEPT ![t] = IF s = "ok" THEN g.status ELSE s]
  /\ IF newest_writer = g.last_writer
     THEN newest_writer' = Null /\ UNCHANGED <<link_older, link_newer, state>>
     ELSE /\ link_newer' = h.newer /\ link_older' = h.older
          /\ state' = [state EXCEPT ![h.next] = "GROUP_LEADER"]
          /\ UNCHANGED newest_writer
  /\ cursor' = [cursor EXCEPT ![t] = g.last_writer]
  /\ Goto(t, "complete")
  /\ UNCHANGED <<newest_memtable_writer, groupVars, stallVars, seqVars, dataVars, status, opt,
                 prev, ops>>

\* The followers are completed from the newest to the oldest.
CompleteFollowers(t) ==
  LET w == cursor[t] IN
  /\ pc[t] = "complete" /\ w # group[Owner(t)].leader
  /\ status' = [status EXCEPT ![w] = result[t]]
  /\ cursor' = [cursor EXCEPT ![t] = link_older[w]]
  /\ state' = [state EXCEPT ![w] = "COMPLETED"]
  /\ UNCHANGED <<listVars, groupVars, stallVars, seqVars, dataVars, opt, pc, prev, result, ops>>

\* A leader returns when its followers are completed; a follower that did the
\* leader's work completes the leader last.
CompletedAll(t) ==
  LET leader == group[Owner(t)].leader IN
  /\ pc[t] = "complete" /\ cursor[t] = leader
  /\ state' = IF t = leader THEN state ELSE [state EXCEPT ![leader] = "COMPLETED"]
  /\ result' = [result EXCEPT ![t] = Returned(t)]
  /\ Goto(t, "return")
  /\ UNCHANGED <<listVars, groupVars, stallVars, seqVars, dataVars, status, opt, cursor, prev, ops>>

-----------------------------------------------------------------------------
(* ExitAsBatchGroupLeader with pipelining.                                     *)

\* Variant: the next writer leads first.
ExitOrderSwapped == <<"drop", "removeDummy", "linkGroup", "await">>

\* First the group joins the memtable list, then the next writer leads.
ExitOrder == <<"drop", "linkGroup", "removeDummy", "await">>

GotoNext(t) ==
  Goto(t, ExitOrder[1 + CHOOSE i \in 1..3 : ExitOrder[i] = pc[t]])

\* A dummy takes the place of the group in the queue, so that nobody behind it
\* becomes leader yet.
InsertDummy(t) ==
  LET last == group[t].last_writer
      h == HandOff(newest_writer, last, Aux(t))
  IN
  /\ pc[t] = "exit" /\ Pipelined
  /\ IF newest_writer = last
     THEN newest_writer' = Aux(t) /\ UNCHANGED <<link_older, link_newer>>
     ELSE /\ link_older' = h.older
          /\ link_newer' = [h.newer EXCEPT ![Aux(t)] = h.next]
          /\ UNCHANGED newest_writer
  /\ cursor' = [cursor EXCEPT ![t] = last]
  /\ Goto(t, "drop")
  /\ UNCHANGED <<newest_memtable_writer, groupVars, stallVars, seqVars, dataVars, state, status,
                 opt, prev, result, ops>>

\* A follower gets the status of the WAL write; if there is nothing to insert for
\* it, it leaves the group and is completed (CompleteFollower).
DropFollower(t) ==
  LET w == cursor[t]
      older == link_older[w]
      newer == link_newer[w]
      last == w = group[t].last_writer
  IN
  /\ pc[t] = "drop" /\ w # t
  /\ status' = [status EXCEPT ![w] = status[t]]
  /\ cursor' = [cursor EXCEPT ![t] = older]
  /\ IF ShouldWriteToMemtable(w, status[t])
     THEN UNCHANGED <<link_older, link_newer, group, state>>
     ELSE /\ link_newer' = [link_newer EXCEPT ![older] = IF last THEN Null ELSE newer]
          /\ link_older' = IF last THEN link_older ELSE [link_older EXCEPT ![newer] = older]
          /\ group' = [group EXCEPT ![t].size = @ - 1,
                                    ![t].last_writer = IF last THEN older ELSE @]
          /\ state' = [state EXCEPT ![w] = "COMPLETED"]
  /\ UNCHANGED <<newest_writer, newest_memtable_writer, write_group, stallVars, seqVars, dataVars,
                 opt, pc, prev, result, ops>>

\* The same for the leader (CompleteLeader): the next member leads what is left.
DropLeader(t) ==
  LET next == link_newer[t] IN
  /\ pc[t] = "drop" /\ cursor[t] = t
  /\ IF ShouldWriteToMemtable(t, status[t])
     THEN UNCHANGED <<link_older, group, state>>
     ELSE /\ IF group[t].size = 1
             THEN /\ group' = [group EXCEPT ![t].leader = Null, ![t].last_writer = Null,
                                             ![t].size = 0]
                  /\ UNCHANGED link_older
             ELSE /\ group' = [group EXCEPT ![t].leader = next, ![t].size = @ - 1]
                  /\ link_older' = [link_older EXCEPT ![next] = Null]
          /\ state' = [state EXCEPT ![t] = "COMPLETED"]
  /\ cursor' = [cursor EXCEPT ![t] = Null]
  /\ GotoNext(t)
  /\ UNCHANGED <<newest_writer, newest_memtable_writer, link_newer, write_group, stallVars,
                 seqVars, dataVars, status, opt, prev, result, ops>>

\* What is left of the group joins the memtable list; in an empty list its
\* leader leads.
LinkGroup(t) ==
  LET g == group[t]
      left == IF g.size > 0 THEN ToSet(Members(t)) ELSE {}
  IN
  /\ pc[t] = "linkGroup"
  /\ link_newer' = [n \in Nodes |-> IF n \in left THEN Null ELSE link_newer[n]]
  /\ write_group' = [w \in Writers |-> IF w \in left THEN Null ELSE write_group[w]]
  /\ IF g.size > 0
     THEN /\ link_older' = [link_older EXCEPT ![g.leader] = newest_memtable_writer]
          /\ newest_memtable_writer' = g.last_writer
          /\ state' = [state EXCEPT ![g.leader] = IF newest_memtable_writer = Null
                                                  THEN "MEMTABLE_LEADER" ELSE @]
     ELSE UNCHANGED <<link_older, newest_memtable_writer, state>>
  /\ GotoNext(t)
  /\ UNCHANGED <<newest_writer, group, stallVars, seqVars, dataVars, status, opt, cursor, prev,
                 result, ops>>

\* Only now may the next writer of the queue lead.
RemoveDummy(t) ==
  LET h == HandOff(newest_writer, Aux(t), Null) IN
  /\ pc[t] = "removeDummy"
  /\ IF newest_writer = Aux(t)
     THEN newest_writer' = Null /\ UNCHANGED <<link_older, link_newer, state>>
     ELSE /\ link_newer' = h.newer /\ link_older' = h.older
          /\ state' = [state EXCEPT ![h.next] = "GROUP_LEADER"]
          /\ UNCHANGED newest_writer
  /\ GotoNext(t)
  /\ UNCHANGED <<newest_memtable_writer, groupVars, stallVars, seqVars, dataVars, status, opt,
                 cursor, prev, result, ops>>

-----------------------------------------------------------------------------
(* Memtable groups of pipelined writes.                                        *)

IsBatch(n) == n \in Writers /\ opt[n].batch

\* The group grows to the first writer of the memtable list that cannot join it.
JoinMemGroup(t, g, w) ==
  IF g.open /\ IsBatch(w) /\ ~opt[w].merge /\ (Concurrent \/ g.size + opt[w].size <= MaxSize(t))
  THEN [g EXCEPT !.last = w, !.size = @ + opt[w].size, !.members = @ \cup {w}]
  ELSE [g EXCEPT !.open = FALSE]

\* Variant: the end of the leader's batch.
EndOfLeader(first, last) == LastEntry(first)

\* What a memtable group from first to last publishes.
EndOfGroup(first, last) == LastEntry(last)

\* The memtable leader takes the writers that may insert with it.
EnterAsMemTableWriter(t) ==
  LET alone == Concurrent /\ opt[t].merge
      newer == IF alone THEN link_newer
               ELSE CreateMissingNewerLinks(link_older, link_newer, newest_memtable_writer)
      queue == IF alone THEN <<>> ELSE Tail(NewerChain(newer, t, newest_memtable_writer))
      g == FoldLeft(LAMBDA acc, w : JoinMemGroup(t, acc, w),
                    [last |-> t, size |-> opt[t].size, members |-> {t}, open |-> TRUE], queue)
      n == Cardinality(g.members)
  IN
  /\ pc[t] = "enterMem"
  /\ link_newer' = newer
  /\ write_group' = [w \in Writers |-> IF w \in g.members THEN t ELSE write_group[w]]
  /\ group' = [group EXCEPT ![t] = [NoGroup EXCEPT !.leader = t, !.last_writer = g.last,
                                      !.size = n, !.last_sequence = EndOfGroup(t, g.last)]]
  /\ Goto(t, IF n > 1 /\ Concurrent THEN "launch" ELSE "serial")
  /\ UNCHANGED <<newest_writer, newest_memtable_writer, link_older, stallVars, seqVars, dataVars,
                 state, status, opt, cursor, prev, result, ops>>

\* Variant: the next writer is not woken.
ExitAsMemTableWriterSilent(t) ==
  LET g == group[Owner(t)]
      h == HandOff(newest_memtable_writer, g.last_writer, Null)
  IN
  /\ pc[t] = "exitMem"
  /\ IF newest_memtable_writer = g.last_writer
     THEN newest_memtable_writer' = Null /\ UNCHANGED <<link_older, link_newer>>
     ELSE link_newer' = h.newer /\ link_older' = h.older /\ UNCHANGED newest_memtable_writer
  /\ cursor' = [cursor EXCEPT ![t] = g.leader]
  /\ Goto(t, "completeMem")
  /\ UNCHANGED <<newest_writer, groupVars, stallVars, seqVars, dataVars, state, status, opt, prev,
                 result, ops>>

\* The memtable list is emptied, or its next writer leads.
ExitAsMemTableWriter(t) ==
  LET g == group[Owner(t)]
      h == HandOff(newest_memtable_writer, g.last_writer, Null)
  IN
  /\ pc[t] = "exitMem"
  /\ IF newest_memtable_writer = g.last_writer
     THEN newest_memtable_writer' = Null /\ UNCHANGED <<link_older, link_newer, state>>
     ELSE /\ link_newer' = h.newer /\ link_older' = h.older
          /\ state' = [state EXCEPT ![h.next] = "MEMTABLE_LEADER"]
          /\ UNCHANGED newest_memtable_writer
  /\ cursor' = [cursor EXCEPT ![t] = g.leader]
  /\ Goto(t, "completeMem")
  /\ UNCHANGED <<newest_writer, groupVars, stallVars, seqVars, dataVars, status, opt, prev, result,
                 ops>>

\* Variant: the leader is completed in its turn.
CompleteMemTableWritersLeaderFirst(t) ==
  LET o == Owner(t)
      g == group[o]
      w == cursor[t]
  IN
  /\ pc[t] = "completeMem" /\ w # Null
  /\ status' = IF g.status = "ok" THEN status ELSE [status EXCEPT ![w] = g.status]
  /\ state' = [state EXCEPT ![w] = "COMPLETED"]
  /\ cursor' = [cursor EXCEPT ![t] = IF w = g.last_writer THEN Null ELSE link_newer[w]]
  /\ UNCHANGED <<listVars, groupVars, stallVars, seqVars, dataVars, opt, pc, prev, result, ops>>

\* The members are completed from the oldest to the newest, the leader last.
CompleteMemTableWriters(t) ==
  LET o == Owner(t)
      g == group[o]
      w == cursor[t]
  IN
  /\ pc[t] = "completeMem" /\ w # Null
  /\ status' = IF g.status = "ok" THEN status ELSE [status EXCEPT ![w] = g.status]
  /\ state' = IF w = g.leader THEN state ELSE [state EXCEPT ![w] = "COMPLETED"]
  /\ cursor' = [cursor EXCEPT ![t] = IF w = g.last_writer THEN Null ELSE link_newer[w]]
  /\ UNCHANGED <<listVars, groupVars, stallVars, seqVars, dataVars, opt, pc, prev, result, ops>>

CompleteMemTableLeader(t) ==
  /\ pc[t] = "completeMem" /\ cursor[t] = Null
  /\ state' = [state EXCEPT ![group[Owner(t)].leader] = "COMPLETED"]
  /\ result' = [result EXCEPT ![t] = Returned(t)]
  /\ Goto(t, "return")
  /\ UNCHANGED <<listVars, groupVars, stallVars, seqVars, dataVars, status, opt, cursor, prev, ops>>

-----------------------------------------------------------------------------
(* WaitForMemTableWriters, and writes that want to be alone.                   *)

AfterFlush(t) == IF opt[t].batch THEN "preprocess" ELSE "alone"

\* A leader that finds memtable writers puts a barrier behind them ...
WaitForMemTableWriters(t) ==
  /\ pc[t] = "flush"
  /\ Goto(t, IF newest_memtable_writer = Null THEN AfterFlush(t) ELSE "linkBarrier")
  /\ UNCHANGED <<listVars, groupVars, stallVars, seqVars, dataVars, state, status, opt, cursor,
                 prev, result, ops>>

LinkBarrier(t) ==
  /\ pc[t] = "linkBarrier"
  /\ link_older' = [link_older EXCEPT ![Aux(t)] = newest_memtable_writer]
  /\ newest_memtable_writer' = Aux(t)
  /\ Goto(t, IF newest_memtable_writer = Null THEN "flushed" ELSE "barrier")
  /\ UNCHANGED <<newest_writer, link_newer, groupVars, stallVars, seqVars, dataVars, state, status,
                 opt, cursor, prev, result, ops>>

\* ... and empties the list when the barrier is its first.
Flushed(t) ==
  /\ pc[t] = "flushed" \/ (pc[t] = "barrier" /\ state[Aux(t)] = "MEMTABLE_LEADER")
  /\ newest_memtable_writer' = Null
  /\ link_older' = [link_older EXCEPT ![Aux(t)] = Null]
  /\ link_newer' = [link_newer EXCEPT ![Aux(t)] = Null]
  /\ state' = [state EXCEPT ![Aux(t)] = "INIT"]
  /\ Goto(t, AfterFlush(t))
  /\ UNCHANGED <<newest_writer, groupVars, stallVars, seqVars, dataVars, status, opt, cursor, prev,
                 result, ops>>

\* A thread inside EnterUnbatched and ExitUnbatched leaves the queue.
ExitUnbatched(t) ==
  LET h == HandOff(newest_writer, t, Null) IN
  /\ pc[t] = "alone"
  /\ IF newest_writer = t
     THEN newest_writer' = Null /\ UNCHANGED <<link_older, link_newer, state>>
     ELSE /\ link_newer' = h.newer /\ link_older' = h.older
          /\ state' = [state EXCEPT ![h.next] = "GROUP_LEADER"]
          /\ UNCHANGED newest_writer
  /\ Goto(t, "return")
  /\ UNCHANGED <<newest_memtable_writer, groupVars, stallVars, seqVars, dataVars, status, opt,
                 cursor, prev, result, ops>>

-----------------------------------------------------------------------------
Join(t) == FailNoSlowdown(t) \/ WaitForStallEnd(t) \/ LinkOne(t) \/ AwaitState(t)

Lead(t) ==
  \/ PreprocessWrite(t) \/ StallWalk(t) \/ StallWalkEnds(t) \/ EndWriteStall(t)
  \/ EnterAsBatchGroupLeader(t) \/ GraftRest(t) \/ WriteToWAL(t) \/ SkipWrite(t)

Insert(t) ==
  \/ InsertSerially(t) \/ LaunchParallelMemTableWriters(t) \/ InsertInto(t)
  \/ CompleteParallelMemTableWriter(t) \/ SetLastSequence(t) \/ MemTableInsertStatusCheck(t)

Exit(t) ==
  \/ ExitAsBatchGroupLeader(t) \/ CompleteFollowers(t) \/ CompletedAll(t)
  \/ InsertDummy(t) \/ DropFollower(t) \/ DropLeader(t) \/ LinkGroup(t) \/ RemoveDummy(t)
  \/ EnterAsMemTableWriter(t) \/ ExitAsMemTableWriter(t)
  \/ CompleteMemTableWriters(t) \/ CompleteMemTableLeader(t)

Unbatched(t) ==
  WaitForMemTableWriters(t) \/ LinkBarrier(t) \/ Flushed(t) \/ ExitUnbatched(t)

Step(t) ==
  /\ Join(t) \/ Lead(t) \/ Insert(t) \/ Exit(t) \/ Unbatched(t) \/ Return(t)
  /\ UNCHANGED db

\* Every write has returned and no more start.
Terminating == ops = MaxOps /\ (\A t \in Writers : pc[t] = "idle") /\ UNCHANGED vars

Arrive(t) == (Start(t) \/ BeginWriteStall(t)) /\ UNCHANGED db

Next == (\E t \in Writers : Arrive(t) \/ Step(t)) \/ Terminating

\* A thread that can take a step eventually does; writes need not start, and
\* stalls need not begin.
Spec == Init /\ [][Next]_vars /\ \A t \in Writers : WF_vars(Step(t))

-----------------------------------------------------------------------------
(* Properties.                                                                 *)

Statuses == {"ok", "error", "stall", "busy"}

\* The Writers that thread t has still to read or set, besides its own.
ToTouch(t) ==
  LET g == group[Owner(t)]
      from == IF cursor[t] = Null THEN {} ELSE ToSet(OlderChain(link_older, cursor[t]))
  IN  (CASE pc[t] \in {"complete", "drop", "walk"} -> from
         [] pc[t] = "completeMem" /\ cursor[t] # Null ->
              ToSet(NewerChain(link_newer, cursor[t], g.last_writer)) \cup {g.leader}
         [] pc[t] = "completeMem" /\ cursor[t] = Null -> {g.leader}
         [] pc[t] \in {"wal", "serial", "launch"} -> ToSet(Members(t))
         [] pc[t] \in {"insert", "count"} -> {Owner(t)}
         [] pc[t] \in {"publish", "check", "exit", "exitMem"} ->
              ToSet(NewerChain(link_newer, g.leader, g.last_writer))
         [] OTHER -> {}) \ {t}

\* No thread touches a Writer, or the WriteGroup of a Writer, that its owner may
\* already have destroyed: what a thread has still to touch waits, and nobody
\* has completed it.
NoTouchAfterCompletion ==
  \A t \in Writers : \A w \in ToTouch(t) :
    /\ w \in Writers /\ pc[w] \notin {"idle", "link", "asleep", "return"}
    /\ state[w] # "COMPLETED"

\* In each list the link_newer pointers that are set are the inverse of
\* link_older and belong to the oldest nodes: what CreateMissingNewerLinks
\* asserts, and what it relies on when it stops at the first pointer it finds.
NewerLinksMatch ==
  (\A t \in Writers : pc[t] # "graft") =>
    \A head \in {newest_writer, newest_memtable_writer} :
      LET s == OlderChain(link_older, head) IN
      \E k \in 1..(Len(s) + 1) : \A i \in 1..(Len(s) - 1) :
        link_newer[s[i + 1]] = IF i < k THEN Null ELSE s[i]

\* The groups that insert into the memtable, or are about to leave it.
GroupsAtWork ==
  {Owner(t) : t \in {u \in Writers :
     \/ pc[u] \in {"launch", "serial", "insert", "count", "publish", "check", "exitMem"}
     \/ pc[u] = "exit" /\ ~Pipelined
     \/ pc[u] \in {"wait", "await", "removeDummy"} /\ state[u] = "PARALLEL_WRITER"}}

\* The threads that hold the lead of the write queue.
QueueLeaders ==
  {t \in Writers : \/ pc[t] \in {"flush", "linkBarrier", "barrier", "flushed", "alone", "preprocess",
                                 "walk", "stalling", "build", "graft", "wal"}
                   \/ pc[t] = "wait" /\ state[t] = "GROUP_LEADER"
                   \/ pc[t] \in {"exit", "drop", "linkGroup", "removeDummy"} /\ Pipelined}
  \cup (IF Pipelined THEN {} ELSE GroupsAtWork)

\* The threads that hold the lead of the memtable list of pipelined writes.
MemTableLeaders ==
  {t \in Writers : \/ pc[t] \in {"wait", "await", "removeDummy"} /\ state[t] = "MEMTABLE_LEADER"
                   \/ pc[t] = "barrier" /\ state[Aux(t)] = "MEMTABLE_LEADER"
                   \/ pc[t] = "enterMem"}
  \cup (IF Pipelined THEN GroupsAtWork ELSE {})

\* At most one group at a time writes to the WAL and at most one to the memtable,
\* and a list that is not empty has a leader: nobody queues behind no one.
OneLeader ==
  /\ Cardinality(QueueLeaders) <= 1 /\ (newest_writer # Null => QueueLeaders # {})
  /\ Cardinality(MemTableLeaders) <= 1
  /\ newest_memtable_writer # Null =>
       MemTableLeaders # {} \/ \E t \in Writers : pc[t] = "flushed"

\* What readers may see is complete: every batch with a sequence number up to
\* last_sequence is in the memtable, or the DB is being stopped because the WAL
\* and the memtable disagree (MemTableInsertStatusCheck). PipelinedWriteImpl
\* does not promise it: it publishes a serial insertion that failed.
PublishedIsInserted ==
  ~Pipelined => \A w \in Writers :
    /\ opt[w].count > 0 /\ opt[w].mem /\ ~CallbackFailed(w) /\ sequence[w] \in 1..last_sequence
    => w \in inserted \/ bg_error \/ \E t \in Writers : pc[t] = "check"

\* A write that returns OK can be read: its batch is in the memtable and its
\* last sequence number is published.
OkMeansVisible ==
  \A t \in Writers : pc[t] = "return" /\ result[t] = "ok" /\ opt[t].batch /\ opt[t].mem
                       => t \in inserted /\ sequence[t] > 0 /\ LastEntry(t) <= last_sequence

\* A write with sync that returns OK is on stable storage.
OkMeansSynced ==
  \A t \in Writers : /\ pc[t] = "return" /\ result[t] = "ok"
                      /\ opt[t].batch /\ opt[t].sync /\ ~opt[t].disable_wal
                     => t \in synced

\* Every write returns: no thread waits for a wake-up nobody will send.
EveryWriteReturns == \A t \in Writers : pc[t] # "idle" ~> pc[t] = "idle"
=============================================================================
