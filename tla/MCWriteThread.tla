--------------------------- MODULE MCWriteThread ---------------------------
(* Small instances of WriteThread.                                            *)
EXTENDS WriteThreadLog, TLC

CONSTANTS w1, w2, w3, w4

Four == {w1, w2, w3, w4}
Three == {w1, w2, w3}
Two == {w1, w2}

Swap == Permutations(Writers)

Plain == [NoOptions EXCEPT !.size = 1, !.count = 1]
Alone == [NoOptions EXCEPT !.batch = FALSE]
Empty == [Plain EXCEPT !.count = 0]
Double == [Plain EXCEPT !.count = 2]
Large == [Plain EXCEPT !.size = 5]
Sync == [Plain EXCEPT !.sync = TRUE]
NoSlowdown == [Plain EXCEPT !.no_slowdown = TRUE]
WalOnly == [Plain EXCEPT !.mem = FALSE]
Merge == [Plain EXCEPT !.merge = TRUE]
Rejected == [Plain EXCEPT !.callback = "fail"]
Solo == [Plain EXCEPT !.callback = "solo"]

Sizes == {Plain, Sync, Large}
Parallels == {Double, WalOnly, Rejected}
Pipes == {Double, WalOnly}
Blocking == {Alone, NoSlowdown, Empty}
Waiting == {Merge, NoSlowdown, Solo}

Opened(options, pipelined, concurrent, outcomes, stalls) ==
  [options |-> options, pipelined |-> pipelined, concurrent |-> concurrent,
   outcomes |-> outcomes, stalls |-> stalls]
MayFail == {"ok", "error"}

\* Without pipelining: parallel insertion.
ParallelDB == Opened(Parallels, FALSE, TRUE, MayFail, 0)
\* Pipelined, with parallel insertion ...
PipelinedDB == Opened(Pipes, TRUE, TRUE, MayFail, 0)
\* ... and with serial insertion and a write stall.
StalledDB == Opened(Blocking, TRUE, FALSE, {"ok"}, 1)

Mixed == {ParallelDB, PipelinedDB, StalledDB}
Regroup == {Opened(Sizes, FALSE, FALSE, {"ok"}, 0)}
Live == {Opened(Waiting, TRUE, TRUE, {"ok"}, 1)}

============================================================================
