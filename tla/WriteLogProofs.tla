--------------------------- MODULE WriteLogProofs ---------------------------
(* The promises of WriteLog, for any set of threads.                           *)
EXTENDS WriteLog, TLAPS

\* The entries of a write with sequence numbers lie between 1 and allocated.
NumbersAllocated == \A w \in Numbered : first[w] > 0 /\ Last(w) <= allocated

\* A batch that is still on its way is not published.
OnItsWay == \A w \in Writers : phase[w] = "logged" /\ count[w] > 0 => first[w] > published

\* What the promises need of each other.
IInv ==
  /\ TypeOK /\ OwnNumbers /\ OkIsVisible
  /\ published <= allocated /\ NumbersAllocated /\ OnItsWay

\* The initial state satisfies the invariant.
LEMMA InitInv == Init => IInv
  BY MaxSequenceAssumption
  DEF Init, IInv, TypeOK, OwnNumbers, OkIsVisible, NumbersAllocated, OnItsWay, Numbered, Last, Phases

\* A new write holds no sequence number.
LEMMA SubmitStep == ASSUME IInv, NEW w \in Writers, Submit(w) PROVE IInv'
  BY CountsAssumption
  DEF Submit, IInv, TypeOK, OwnNumbers, OkIsVisible, NumbersAllocated, OnItsWay, Numbered, Last,
      Phases

\* A group gets numbers nobody holds: they are larger than allocated.
LEMMA LogStep ==
  ASSUME IInv, NEW G \in SUBSET In("queued"), Log(G)
  PROVE  IInv'
<1>1. /\ \A w \in G : count[w] > 0 => first'[w] > allocated /\ first'[w] + count[w] - 1 <= allocated'
      /\ \A v, w \in G : v # w /\ count[v] > 0 /\ count[w] > 0
           => first'[v] + count[v] <= first'[w] \/ first'[w] + count[w] <= first'[v]
      /\ \A w \in Writers \ G : first'[w] = first[w]
      /\ first' \in [Writers -> 0..MaxSequence] /\ allocated' \in allocated..MaxSequence
  BY DEF Log
<1>2. /\ phase' \in [Writers -> Phases]
      /\ \A w \in G : phase'[w] \in {"logged", "lost"}
      /\ \A w \in Writers \ G : phase'[w] = phase[w]
      /\ count' = count /\ published' = published
      /\ G \subseteq Writers
  BY DEF Log, In
<1>3. TypeOK'
  BY <1>1, <1>2, MaxSequenceAssumption DEF IInv, TypeOK, Phases
<1>4. \A w \in Writers : w \in G => phase[w] = "queued"
  BY DEF In
<1>5. NumbersAllocated'
  BY <1>1, <1>2, <1>3, <1>4, MaxSequenceAssumption
  DEF IInv, TypeOK, NumbersAllocated, Numbered, Last
<1>6. OnItsWay'
  BY <1>1, <1>2, <1>3, MaxSequenceAssumption DEF IInv, TypeOK, OnItsWay
<1>7. OkIsVisible'
  BY <1>1, <1>2, <1>3, <1>4 DEF IInv, TypeOK, OkIsVisible, Last
<1>8. OwnNumbers'
  <2> SUFFICES ASSUME NEW v \in Writers, NEW w \in Writers, v # w,
                      v \in Numbered', w \in Numbered'
               PROVE  (Last(v) < first[w] \/ Last(w) < first[v])'
    BY DEF OwnNumbers, Numbered
  <2>1. \A u \in Writers : u \in Numbered' /\ u \notin G => u \in Numbered
    BY <1>2 DEF Numbered
  <2>2. CASE v \in G /\ w \in G
    BY <2>2, <1>1, <1>2, <1>3, MaxSequenceAssumption DEF IInv, TypeOK, Numbered, Last
  <2>3. CASE v \in G /\ w \notin G
    BY <2>1, <2>3, <1>1, <1>2, <1>3, MaxSequenceAssumption
    DEF IInv, TypeOK, NumbersAllocated, Numbered, Last
  <2>4. CASE v \notin G /\ w \in G
    BY <2>1, <2>4, <1>1, <1>2, <1>3, MaxSequenceAssumption
    DEF IInv, TypeOK, NumbersAllocated, Numbered, Last
  <2>5. CASE v \notin G /\ w \notin G
    BY <2>1, <2>5, <1>1, <1>2 DEF IInv, OwnNumbers, Last
  <2> QED BY <2>2, <2>3, <2>4, <2>5
<1> QED
  BY <1>1, <1>2, <1>3, <1>5, <1>6, <1>7, <1>8, MaxSequenceAssumption DEF IInv, TypeOK

\* An insertion moves no number.
LEMMA InsertStep ==
  ASSUME IInv, NEW S \in SUBSET In("logged"), NEW L \in SUBSET (In("logged") \ S), Insert(S, L)
  PROVE  IInv'
<1>1. TypeOK'
  BY DEF IInv, TypeOK, Insert, Phases
<1>2. \A w \in Writers : w \in Numbered' => w \in Numbered
  BY DEF Insert, In, Numbered
<1>3. OwnNumbers' /\ NumbersAllocated' /\ Numbered' \subseteq Writers
  BY <1>2 DEF IInv, OwnNumbers, NumbersAllocated, Insert, Last, Numbered
<1>4. OkIsVisible' /\ OnItsWay' /\ (published <= allocated)'
  BY DEF IInv, TypeOK, OkIsVisible, OnItsWay, Insert, Last, In
<1> QED
  BY <1>1, <1>3, <1>4 DEF IInv

\* Publishing moves no number, and passes nothing that is on its way.
LEMMA PublishStep == ASSUME IInv, Publish PROVE IInv'
<1>1. TypeOK' /\ (published <= allocated)' /\ OnItsWay'
  BY MaxSequenceAssumption DEF IInv, TypeOK, Publish, OnItsWay
<1>2. OwnNumbers' /\ NumbersAllocated'
  BY DEF IInv, OwnNumbers, NumbersAllocated, Numbered, Publish, Last
<1>3. OkIsVisible'
  BY MaxSequenceAssumption DEF IInv, TypeOK, OkIsVisible, Publish, Last
<1> QED
  BY <1>1, <1>2, <1>3 DEF IInv

\* A write that ends, well or not, gives up its numbers.
LEMMA EndStep ==
  ASSUME IInv, NEW w \in Writers, Succeed(w) \/ Fail(w) \/ Return(w)
  PROVE  IInv'
<1>1. TypeOK'
  BY MaxSequenceAssumption DEF IInv, TypeOK, Succeed, Fail, Return, Phases
<1>2. \A u \in Writers : u # w => first'[u] = first[u] /\ count'[u] = count[u] /\ phase'[u] = phase[u]
  BY DEF IInv, TypeOK, Succeed, Fail, Return
<1>3. w \notin Numbered' /\ phase'[w] # "logged"
  BY DEF IInv, TypeOK, Numbered, Succeed, Fail, Return
<1>4. allocated' = allocated /\ published' = published
  BY DEF Succeed, Fail, Return
<1>5. OwnNumbers' /\ NumbersAllocated'
  BY <1>2, <1>3, <1>4 DEF IInv, OwnNumbers, NumbersAllocated, Numbered, Last
<1>6. OnItsWay'
  BY <1>2, <1>3, <1>4 DEF IInv, OnItsWay
<1>7. OkIsVisible'
  <2>1. CASE Succeed(w)
    BY <2>1, MaxSequenceAssumption
    DEF IInv, TypeOK, OkIsVisible, NumbersAllocated, Numbered, Succeed, Last
  <2>2. CASE Fail(w) \/ Return(w)
    BY <2>2, <1>2, <1>4 DEF IInv, TypeOK, OkIsVisible, Fail, Return, Last
  <2> QED BY <2>1, <2>2
<1> QED
  BY <1>1, <1>4, <1>5, <1>6, <1>7 DEF IInv

\* Every step preserves the invariant.
LEMMA NextInv == IInv /\ [Next]_vars => IInv'
<1> SUFFICES ASSUME IInv, [Next]_vars PROVE IInv' OBVIOUS
<1>1. CASE UNCHANGED vars
  BY <1>1 DEF vars, IInv, TypeOK, OwnNumbers, OkIsVisible, NumbersAllocated, OnItsWay, Numbered, Last
<1>2. CASE Next
  BY <1>2, SubmitStep, LogStep, InsertStep, PublishStep, EndStep DEF Next
<1> QED BY <1>1, <1>2

\* IInv holds in every reachable state, whatever Writers, Counts and MaxSequence.
THEOREM Inductive == Spec => []IInv
  BY InitInv, NextInv, PTL DEF Spec

\* No two writes share a sequence number.
THEOREM NumbersAreOwn == Spec => []OwnNumbers
<1>1. IInv => OwnNumbers BY DEF IInv
<1> QED BY <1>1, Inductive, PTL

\* A write that has returned OK is visible.
THEOREM OkWritesAreVisible == Spec => []OkIsVisible
<1>1. IInv => OkIsVisible BY DEF IInv
<1> QED BY <1>1, Inductive, PTL

\* Nothing enters the memtable behind the back of a reader: a snapshot of the
\* published sequence number is fixed.
THEOREM SnapshotsStayFixed == Spec => SnapshotsAreFixed
<1> DEFINE Fixed ==
      \A w \in Writers : phase[w] # "inserted" /\ phase'[w] = "inserted" /\ count[w] > 0
        => first[w] > published
<1>1. IInv /\ [Next]_vars => [Fixed]_vars
  <2> SUFFICES ASSUME IInv, Next PROVE Fixed OBVIOUS
  <2> SUFFICES ASSUME NEW w \in Writers, phase[w] # "inserted", phase'[w] = "inserted", count[w] > 0
               PROVE  first[w] > published
    OBVIOUS
  <2>1. phase[w] = "logged"
    BY DEF IInv, TypeOK, Next, Submit, Log, Insert, Publish, Succeed, Fail, Return, In
  <2> QED BY <2>1 DEF IInv, OnItsWay
<1> QED BY <1>1, Inductive, PTL DEF Spec, SnapshotsAreFixed

=============================================================================
