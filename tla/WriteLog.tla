------------------------------ MODULE WriteLog ------------------------------
(* What DBImpl::Write promises, whatever the write queue does: writes receive   *)
(* their own sequence numbers in groups, go into the memtable in any order, and *)
(* become visible to readers in the order of their sequence numbers.            *)
(* WriteThreadLog shows that WriteThread implements this.                       *)
EXTENDS Integers, SequenceNumbers

CONSTANT Writers   \* the threads that write

VARIABLES
  phase,      \* how far the write of each thread has come
  first,      \* the sequence number of its first entry
  count,      \* how many entries it has
  allocated,  \* the largest sequence number given to a write
  published   \* the largest sequence number readers use

vars == <<phase, first, count, allocated, published>>

\* "lost": the batch has a sequence number and will not be in the memtable.
Phases == {"idle", "queued", "logged", "lost", "inserted", "ok", "failed"}

In(p) == {w \in Writers : phase[w] = p}

Last(w) == first[w] + count[w] - 1

Init ==
  /\ phase = [w \in Writers |-> "idle"]
  /\ first = [w \in Writers |-> 0] /\ count = [w \in Writers |-> 0]
  /\ allocated = 0 /\ published = 0

\* A thread begins a write.
Submit(w) ==
  /\ phase[w] = "idle"
  /\ phase' = [phase EXCEPT ![w] = "queued"]
  /\ \E c \in Counts : count' = [count EXCEPT ![w] = c]
  /\ UNCHANGED <<first, allocated, published>>

\* A group G of queued writes gets sequence numbers of its own, which follow the
\* last one, and is written to the WAL; what is known to have failed is lost.
Log(G) ==
  /\ G # {}
  /\ phase' \in [Writers -> Phases]
  /\ \A w \in G : phase'[w] \in {"logged", "lost"}
  /\ \A w \in Writers \ G : phase'[w] = phase[w]
  /\ first' \in [Writers -> 0..MaxSequence] /\ allocated' \in allocated..MaxSequence
  /\ \A w \in Writers \ G : first'[w] = first[w]
  /\ \A w \in G :
       IF count[w] = 0 THEN first'[w] = 0
       ELSE first'[w] > allocated /\ first'[w] + count[w] - 1 <= allocated'
  /\ \A v, w \in G : v # w /\ count[v] > 0 /\ count[w] > 0
       => first'[v] + count[v] <= first'[w] \/ first'[w] + count[w] <= first'[v]
  /\ UNCHANGED <<count, published>>

\* Logged batches S enter the memtable, and logged batches L turn out not to.
Insert(S, L) ==
  /\ S \cup L # {}
  /\ phase' = [w \in Writers |-> IF w \in S THEN "inserted" ELSE IF w \in L THEN "lost"
                                 ELSE phase[w]]
  /\ UNCHANGED <<first, count, allocated, published>>

\* Readers see more entries: nothing up to the published one is still on its way.
Publish ==
  /\ published' \in published..allocated
  /\ \A w \in Writers : phase[w] = "logged" /\ count[w] > 0 => first[w] > published'
  /\ UNCHANGED <<phase, first, count, allocated>>

\* A write is over: OK, when its entries are visible ...
Succeed(w) ==
  /\ \/ phase[w] = "inserted" /\ Last(w) <= published
     \/ phase[w] \in {"queued", "logged", "inserted"} /\ count[w] = 0
  /\ phase' = [phase EXCEPT ![w] = "ok"]
  /\ UNCHANGED <<first, count, allocated, published>>

\* ... or with an error, which says nothing about its entries.
Fail(w) ==
  /\ phase[w] \in {"queued", "logged", "lost", "inserted"}
  /\ phase' = [phase EXCEPT ![w] = "failed"]
  /\ UNCHANGED <<first, count, allocated, published>>

\* The call returns.
Return(w) ==
  /\ phase[w] \in {"ok", "failed"}
  /\ phase' = [phase EXCEPT ![w] = "idle"]
  /\ first' = [first EXCEPT ![w] = 0] /\ count' = [count EXCEPT ![w] = 0]
  /\ UNCHANGED <<allocated, published>>

Next ==
  \/ Publish
  \/ \E w \in Writers : Submit(w) \/ Succeed(w) \/ Fail(w) \/ Return(w)
  \/ \E G \in SUBSET In("queued") : Log(G)
  \/ \E S \in SUBSET In("logged") : \E L \in SUBSET (In("logged") \ S) : Insert(S, L)

Spec == Init /\ [][Next]_vars

-----------------------------------------------------------------------------
(* Properties.                                                                 *)

\* Every variable has its type, and no sequence number exceeds the largest one.
TypeOK ==
  /\ phase \in [Writers -> Phases]
  /\ first \in [Writers -> 0..MaxSequence] /\ count \in [Writers -> Nat]
  /\ allocated \in 0..MaxSequence /\ published \in 0..MaxSequence

\* The writes that hold sequence numbers.
Numbered == {w \in Writers : phase[w] \in {"logged", "lost", "inserted"} /\ count[w] > 0}

\* Nobody's entries share a sequence number.
OwnNumbers ==
  \A v, w \in Numbered : v # w => Last(v) < first[w] \/ Last(w) < first[v]

\* The entries of a write that has returned OK are visible, and a write that
\* begins afterwards gets larger sequence numbers: readers see writes in the
\* order in which they happened.
OkIsVisible ==
  \A w \in Writers : phase[w] = "ok" /\ count[w] > 0 => Last(w) <= published /\ first[w] > 0

\* What readers see is fixed: no entry with a sequence number up to the published
\* one enters the memtable afterwards.
SnapshotsAreFixed ==
  [][\A w \in Writers : phase[w] # "inserted" /\ phase'[w] = "inserted" /\ count[w] > 0
       => first[w] > published]_vars

=============================================================================
