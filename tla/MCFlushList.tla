---------------------------- MODULE MCFlushList ----------------------------
(* Instances of FlushList for TLC. *)
EXTENDS FlushList, TLC

\* Automatic recovery from failed table writes.
Retried == [auto |-> TRUE, kinds |-> {"sst", "sst_many"}, max |-> 3, mems |-> 4]
\* Every write may fail, with and without automatic recovery.
Kinds == {"wal", "sst", "sst_many", "manifest"}
Harsh == [auto |-> TRUE, kinds |-> Kinds, max |-> 2, mems |-> 3]
Manual == [auto |-> FALSE, kinds |-> Kinds, max |-> 2, mems |-> 3]
All == {Retried, Harsh, Manual}

\* A table write of a job with two memtables fails.
Several == {[auto |-> TRUE, kinds |-> {"sst_many"}, max |-> 1, mems |-> 3]}
=============================================================================
