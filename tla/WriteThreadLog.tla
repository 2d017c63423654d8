---------------------------- MODULE WriteThreadLog ----------------------------
(* WriteThread implements WriteLog: the refinement mapping.                     *)
EXTENDS WriteThread, SequenceNumbers

\* The entries of a write that go to the memtable.
Entries(w) == IF opt[w].mem /\ ~CallbackFailed(w) THEN opt[w].count ELSE 0

\* The thread that inserts for w has met an error. The write_group pointer of a
\* writer that has been completed dangles and is not followed.
GroupFailed(w) ==
  LET o == write_group[w] IN
  /\ o # Null /\ state[w] # "COMPLETED"
  /\ pc[o] \in {"publish", "check", "exit", "exitMem", "complete", "completeMem"}
  /\ IF Pipelined THEN group[o].status # "ok" ELSE status[o] # "ok"

Phase(w) ==
  CASE pc[w] = "idle" -> "idle"
    [] pc[w] = "return" -> IF result[w] = "ok" THEN "ok" ELSE "failed"
    [] pc[w] \notin {"idle", "return"} /\ sequence[w] = 0 -> "queued"
    [] pc[w] \notin {"idle", "return"} /\ sequence[w] > 0 ->
         IF w \in inserted THEN "inserted"
         ELSE IF status[w] # "ok" \/ GroupFailed(w) THEN "lost" ELSE "logged"

Allocated ==
  IF Pipelined THEN LastSequence
  ELSE Max({last_sequence} \cup {LastEntry(w) : w \in {v \in Writers : sequence[v] > 0 /\ Entries(v) > 0}})

Log ==
  INSTANCE WriteLog WITH
    phase <- [w \in Writers |-> Phase(w)],
    first <- [w \in Writers |-> IF Entries(w) > 0 THEN sequence[w] ELSE 0],
    count <- [w \in Writers |-> Entries(w)],
    allocated <- Allocated,
    published <- last_sequence

\* Every behaviour of the write queue is one that WriteLog allows: sequence
\* numbers are handed out once and in order, readers see a prefix of them, and
\* a write that returns OK is visible.
ImplementsWriteLog == Log!Spec

===============================================================================
