------------------------- MODULE WriterStateProofs --------------------------
(* Proofs about WriterState, for groups of any size.                         *)
EXTENDS WriterStateSteps, FiniteSetTheorems, WellFoundedInduction

\* Most leaves are first-order; those that need arithmetic cite SMT.
USE ZenonT(30), SMTT(30)

\* Every non-empty set of natural numbers has a least element.
LEMMA LeastNatural ==
  ASSUME NEW T, T \subseteq Nat, T # {}
  PROVE  \E x \in T : \A y \in T : x <= y
<1>1. IsWellFoundedOn(OpToRel(<, Nat), Nat)
  BY NatLessThanWellFounded
<1>2. PICK x \in T : \A y \in T : ~ (<<y, x>> \in OpToRel(<, Nat))
  BY <1>1, WFMin
<1>3. \A y \in T : ~ (y < x)
  BY <1>2 DEF OpToRel
<1>. QED
  BY <1>3, SMTT(30)

\* The stride of a group is the integer square root of its size.
LEMMA StrideRoot ==
  /\ Stride \in 0..Size
  /\ Stride * Stride <= Size
  /\ (Stride + 1) * (Stride + 1) > Size
<1>0. Size \in Nat
  BY GroupAssumption, FS_CardinalityType DEF Size
<1> DEFINE T == {k \in Nat : (k + 1) * (k + 1) > Size}
<1>1. Size \in T
  <2>1. (Size + 1) * (Size + 1) = Size * Size + 2 * Size + 1
    BY <1>0, SMTT(30)
  <2>2. Size * Size >= 0
    BY <1>0, SMTT(30)
  <2>. QED BY <1>0, <2>1, <2>2, SMTT(30)
<1>2. PICK x \in T : \A y \in T : x <= y
  BY <1>1, LeastNatural
<1>3. x * x <= Size
  <2>1. CASE x = 0
    BY <2>1, <1>0, SMTT(30)
  <2>2. CASE x # 0
    <3>1. x - 1 \in Nat /\ x - 1 \notin T
      BY <1>2, <2>2, SMTT(30)
    <3>. QED BY <3>1, <1>0, SMTT(30)
  <2>. QED BY <2>1, <2>2
<1>4. x <= Size
  BY <1>1, <1>2
<1>5. \E k \in 0..Size : k * k <= Size /\ (k + 1) * (k + 1) > Size
  BY <1>0, <1>2, <1>3, <1>4, SMTT(30)
<1>. QED
  BY <1>5 DEF Stride

\* It is a natural number.
LEMMA StrideType == Stride \in Nat
<1>1. Size \in Nat
  BY GroupAssumption, FS_CardinalityType DEF Size
<1>. QED
  BY <1>1, StrideRoot, SMTT(30)

\* The members a caller wakes are woken by no other caller, and, but for the
\* caller itself, not by the leader.
LEMMA StridesDisjoint == StridesApart
<1>. SUFFICES ASSUME NEW c \in Callers
              PROVE  /\ c \in Members
                     /\ c # Leader
                     /\ c \in InStride(pos[c])
                     /\ LaunchTargets \cap InStride(pos[c]) = {c}
                     /\ \A d \in Callers : d # c => InStride(pos[c]) \cap InStride(pos[d]) = {}
  BY DEF StridesApart
<1>. USE GroupAssumption, StrideType
<1>0. Size \in Nat
  BY FS_CardinalityType DEF Size
<1>1. c \in Members /\ pos[c] \in 1..(Stride - 1) /\ ~(Size < MinParallelSize)
  BY DEF Callers
<1>2. ASSUME NEW a \in Nat, NEW b \in Nat, NEW j \in Nat, NEW k \in Nat,
             0 < a, a < Stride, 0 < b, b <= Stride,
             a + j * Stride = b + k * Stride
      PROVE  a = b
  <2>1. CASE j > k
    <3>1. (j - k) * Stride >= Stride
      BY <2>1, SMTT(30)
    <3>. QED BY <3>1, <1>2, SMTT(30)
  <2>2. CASE k > j
    <3>1. (k - j) * Stride >= Stride
      BY <2>2, SMTT(30)
    <3>. QED BY <3>1, <1>2, SMTT(30)
  <2>. QED BY <2>1, <2>2, <1>2, SMTT(30)
<1>3. c \in InStride(pos[c])
  <2>1. 0 \in 0..Size /\ pos[c] = pos[c] + 0 * Stride
    BY <1>0, <1>1, SMTT(30)
  <2>. QED BY <1>1, <2>1 DEF InStride
<1>4. ASSUME NEW d \in Callers, d # c PROVE InStride(pos[c]) \cap InStride(pos[d]) = {}
  <2>. SUFFICES ASSUME NEW m \in InStride(pos[c]), m \in InStride(pos[d]) PROVE FALSE
    OBVIOUS
  <2>1. d \in Members /\ pos[d] \in 1..(Stride - 1)
    BY DEF Callers
  <2>2. PICK j \in 0..Size : pos[m] = pos[c] + j * Stride
    BY DEF InStride
  <2>3. PICK k \in 0..Size : pos[m] = pos[d] + k * Stride
    BY DEF InStride
  <2>4. j \in Nat /\ k \in Nat /\ pos[c] \in Nat /\ pos[d] \in Nat
        /\ 0 < pos[c] /\ pos[c] < Stride /\ 0 < pos[d] /\ pos[d] <= Stride
    BY <1>0, <1>1, <2>1, SMTT(30)
  <2>5. pos[c] = pos[d]
    BY <1>2, <2>2, <2>3, <2>4
  <2>. QED BY <1>1, <1>4, <2>1, <2>5
<1>5. ASSUME NEW m \in InStride(pos[c]), m \in LaunchTargets PROVE m = c
  <2>1. PICK j \in 0..Size : pos[m] = pos[c] + j * Stride
    BY DEF InStride
  <2>2. m \in Members
    BY DEF InStride
  <2>3. CASE m = Leader
    BY <2>3, <2>1, <1>0, <1>1, SMTT(30)
  <2>4. CASE m \in Callers
    <3>1. pos[m] \in 1..(Stride - 1)
      BY <2>4 DEF Callers
    <3>2. pos[c] + j * Stride = pos[m] + 0 * Stride
      BY <2>1, <3>1, SMTT(30)
    <3>4. j \in Nat /\ 0 \in Nat /\ pos[c] \in Nat /\ pos[m] \in Nat
          /\ 0 < pos[c] /\ pos[c] < Stride /\ 0 < pos[m] /\ pos[m] <= Stride
      BY <1>0, <1>1, <2>2, <3>1, SMTT(30)
    <3>3. pos[c] = pos[m]
      BY <1>2, <3>2, <3>4
    <3>. QED BY <3>3, <2>2, <1>1
  <2>5. CASE m \in InStride(Stride)
    <3>1. PICK k \in 0..Size : pos[m] = Stride + k * Stride
      BY <2>5 DEF InStride
    <3>3. j \in Nat /\ k \in Nat /\ pos[c] \in Nat /\ Stride \in Nat
          /\ 0 < pos[c] /\ pos[c] < Stride /\ 0 < Stride /\ Stride <= Stride
          /\ pos[c] + j * Stride = Stride + k * Stride
      BY <1>0, <1>1, <2>1, <3>1, SMTT(30)
    <3>2. pos[c] = Stride
      BY <1>2, <3>3
    <3>. QED BY <3>2, <1>1, SMTT(30)
  <2>. QED BY <1>1, <1>5, <2>3, <2>4, <2>5 DEF LaunchTargets
<1>6. c \in LaunchTargets
  BY <1>1 DEF LaunchTargets
<1>. QED
  BY <1>1, <1>3, <1>4, <1>5, <1>6, SMTT(30)

\* Positions below Size are each taken: the injection pos is onto.
LEMMA EveryPositionTaken ==
  ASSUME \A m \in Members : pos[m] < Size, NEW r \in 0..(Size - 1)
  PROVE  \E c \in Members : pos[c] = r
<1>. USE GroupAssumption
<1>0. Size \in Nat /\ Size = Cardinality(Members)
  BY FS_CardinalityType DEF Size
<1> DEFINE T == 0..(Size - 1)
<1>1. pos \in [Members -> T]
  BY <1>0, SMTT(30)
<1>2. pos \in Injection(Members, T)
  BY <1>1 DEF Injection, IsInjective
<1>3. IsFiniteSet(T) /\ Cardinality(T) = Size
  BY <1>0, FS_Interval, SMTT(30)
<1>4. pos \in Surjection(Members, T)
  BY <1>0, <1>2, <1>3, FS_Injection
<1>. QED
  BY <1>4 DEF Surjection

\* Nobody of a large group is forgotten: when the positions are 0 to Size - 1, as
\* link_newer numbers them, every member is woken by the leader or by a caller,
\* whether or not the size is a square (SetMemWritersEachStride).
THEOREM EveryMemberIsWoken ==
  ASSUME \A m \in Members : pos[m] < Size
  PROVE  \A m \in Members : \/ m \in LaunchTargets
                            \/ \E c \in Callers : m \in InStride(pos[c])
<1>. SUFFICES ASSUME NEW m \in Members, ~(Size < MinParallelSize)
              PROVE  \/ m \in LaunchTargets
                     \/ \E c \in Callers : m \in InStride(pos[c])
  BY DEF LaunchTargets
<1>. USE GroupAssumption, ParameterAssumption
<1>0. Size \in Nat /\ Size > 0 /\ pos[m] \in Nat /\ pos[m] < Size
  BY FS_CardinalityType, SMTT(30) DEF Size
<1>1. Stride \in Nat /\ 0 < Stride /\ Stride <= Size
  BY <1>0, StrideRoot, SMTT(30)
\* The position divided by the stride: quotient q and remainder r.
<1>2. PICK q \in 0..Size, r \in 0..(Stride - 1) : pos[m] = r + q * Stride
  <2> DEFINE T == {j \in Nat : pos[m] < (j + 1) * Stride}
  <2>1. pos[m] \in T
    <3>1. (pos[m] + 1) * Stride = (pos[m] + 1) * (Stride - 1) + pos[m] + 1
      BY <1>0, <1>1, SMTT(30)
    <3>2. (pos[m] + 1) * (Stride - 1) >= 0
      BY <1>0, <1>1, SMTT(30)
    <3>. QED BY <1>0, <1>1, <3>1, <3>2, SMTT(30)
  <2>2. PICK q \in T : \A y \in T : q <= y
    BY <2>1, LeastNatural
  <2>3. q * Stride <= pos[m]
    <3>1. CASE q = 0
      BY <3>1, <1>0, <1>1, SMTT(30)
    <3>2. CASE q # 0
      <4>1. q - 1 \in Nat /\ q - 1 \notin T
        BY <2>2, <3>2, SMTT(30)
      <4>. QED BY <4>1, <1>0, <1>1, SMTT(30)
    <3>. QED BY <3>1, <3>2
  <2>4. q * Stride \in Nat /\ pos[m] < q * Stride + Stride
    BY <1>1, <2>2, SMTT(30)
  <2>5. q \in 0..Size
    BY <1>0, <2>1, <2>2, SMTT(30)
  <2> DEFINE r == pos[m] - q * Stride
  <2>6. r \in 0..(Stride - 1) /\ pos[m] = r + q * Stride
    BY <1>0, <1>1, <2>3, <2>4, SMTT(30)
  <2> HIDE DEF r
  <2>. QED BY <2>5, <2>6
<1>3. CASE r = 0 /\ q = 0
  <2>1. pos[m] = pos[Leader]
    BY <1>1, <1>2, <1>3, SMTT(30)
  <2>. QED BY <2>1 DEF LaunchTargets
<1>4. CASE r = 0 /\ q # 0
  <2>1. q - 1 \in 0..Size /\ pos[m] = Stride + (q - 1) * Stride
    BY <1>0, <1>1, <1>2, <1>4, SMTT(30)
  <2>2. m \in InStride(Stride)
    BY <2>1 DEF InStride
  <2>. QED BY <2>2 DEF LaunchTargets
<1>5. CASE r # 0
  <2>1. r \in 0..(Size - 1) /\ r \in 1..(Stride - 1)
    BY <1>0, <1>1, <1>2, <1>5, SMTT(30)
  <2>2. PICK c \in Members : pos[c] = r
    BY <2>1, EveryPositionTaken
  <2>3. c \in Callers
    BY <2>1, <2>2 DEF Callers
  <2>4. m \in InStride(pos[c])
    BY <1>2, <2>2 DEF InStride
  <2>. QED BY <2>3, <2>4
<1>. QED BY <1>2, <1>3, <1>4, <1>5

\* The invariant holds when the leader starts the parallel phase.
LEMMA InitInv == Init => IInv
<1>. SUFFICES ASSUME Init PROVE IInv
  OBVIOUS
<1>. USE GroupAssumption, ParameterAssumption
<1>0. Size \in Nat
  BY FS_CardinalityType DEF Size
<1>1. LaunchTargets \in SUBSET Members
  BY DEF LaunchTargets, Callers, InStride
<1>2. made_waitable \subseteq Members
  BY DEF Init
<1>3. state \in [Members -> States] /\ seen \in [Members -> States]
  BY DEF Init, States
<1>4. TypeOK
  BY <1>0, <1>1, <1>2, <1>3, SMTT(30) DEF Init, TypeOK, Statuses, Stages, WaitSteps, SetSteps
<1>5. ControlInv
  BY <1>1 DEF Init, ControlInv, WaitSteps, SetSteps
<1>6. Leader \in LaunchTargets
  BY DEF LaunchTargets
<1>7. StateInv
  BY <1>6 DEF Init, StateInv
<1>8. LockedInv /\ MutexInv /\ WakerInv
  BY DEF Init, LockedInv, MutexInv, WakerInv
<1>9. PendingInv
  BY <1>1 DEF Init, PendingInv, Pending, WaitsIn
<1>10. CallerInv
  <2>. SUFFICES ASSUME NEW c \in Callers, NEW m \in InStride(pos[c]) \ {c}
                PROVE  m \in Followers
    BY DEF Init, CallerInv, Followers, InStride
  <2>1. Leader \in LaunchTargets /\ LaunchTargets \cap InStride(pos[c]) = {c} /\ c # Leader
    BY <1>6, StridesDisjoint DEF StridesApart
  <2>. QED BY <2>1 DEF InStride, Followers
<1>11. CountInv
  <2>1. Uncounted = Members
    BY DEF Init, Uncounted
  <2>. QED BY <2>1 DEF Init, CountInv, Size, Followers
<1>. QED BY <1>4, <1>5, <1>7, <1>8, <1>9, <1>10, <1>11 DEF IInv

\* A member counts itself down; the last one takes on the exit duties.
LEMMA CountDownStep ==
  ASSUME IInv, NEW t \in Members, CountDown(t)
  PROVE  IInv'
<1>. USE LeaderMember DEF IInv
<1>a. /\ stage[t] = "count" /\ t \in Uncounted /\ exitBy = {} /\ Uncounted \subseteq Members
      /\ IsFiniteSet(Uncounted)
  BY GroupAssumption, FS_Subset DEF CountDown, CountInv, Uncounted
<1>b. /\ Uncounted' = Uncounted \ {t}
      /\ running = Cardinality(Uncounted) /\ running \in Nat \ {0} /\ running' = running - 1
      /\ running' = Cardinality(Uncounted')
  <2>1. Uncounted' = Uncounted \ {t}
    BY <1>a DEF CountDown, Uncounted, TypeOK
  <2>2. Cardinality(Uncounted \ {t}) = Cardinality(Uncounted) - 1 /\ Cardinality(Uncounted) \in Nat
    BY <1>a, FS_RemoveElement, FS_CardinalityType
  <2>3. Cardinality(Uncounted) # 0
    BY <1>a, FS_EmptySet
  <2>. QED BY <2>1, <2>2, <2>3 DEF CountDown, CountInv
<1>c. \A u \in Members : u # t => t \notin todo[u]
  BY <1>a, Untouched
<1>d. todo[t] = {} /\ step[t] \notin SetSteps /\ Size \in Nat
  BY <1>a, GroupAssumption, FS_CardinalityType DEF ControlInv, TypeOK, Size
<1>g. running' \in 0..Size
  <2>1. running \in 0..Size
    BY DEF TypeOK
  <2>2. running' = running - 1 /\ running # 0
    BY <1>b
  <2>. QED BY <1>d, <2>1, <2>2, SMTT(30)
<1>e. CASE running > 1
  <2>0. /\ stage' = [stage EXCEPT ![t] = "await"] /\ step' = [step EXCEPT ![t] = "spin"]
        /\ todo' = todo /\ exitBy' = exitBy
        /\ UNCHANGED <<state, made_waitable, mutex, seen, target, groupStatus, inserted, status>>
    <3>1. ~(running <= 1)
      BY <1>b, <1>e, SMTT(30)
    <3>. QED BY <3>1 DEF CountDown
  <2>1. TypeOK'
    BY <1>g, <2>0 DEF TypeOK, Stages, WaitSteps
  <2>2. ControlInv'
    BY <1>a, <1>d, <2>0, SMTT(30) DEF ControlInv, TypeOK, WaitSteps, SetSteps
  <2>3. StateInv'
    BY <1>a, <2>0 DEF StateInv, TypeOK
  <2>4. LockedInv'
    BY <1>a, <2>0, SMTT(30) DEF LockedInv, TypeOK, ControlInv, StateInv, Goal, WaitSteps
  <2>5. MutexInv'
    BY <1>d, <2>0, SMTT(30) DEF MutexInv, TypeOK, SetSteps
  <2>6. PendingInv'
    BY <1>c, <1>d, <2>0, SMTT(30) DEF PendingInv, TypeOK, Pending, WaitsIn, NewState
  <2>7. WakerInv'
    BY <1>d, <2>0 DEF WakerInv, TypeOK
  <2>8. CallerInv'
    BY <1>a, <2>0, SMTT(30) DEF CallerInv, TypeOK
  <2>9. CountInv'
    <3>1. \A m \in Members \ {t} : stage'[m] = stage[m]
      BY <2>0 DEF TypeOK
    <3>2. stage'[t] = "await"
      BY <2>0 DEF TypeOK
    <3>. QED BY <1>a, <1>b, <2>0, <3>1, <3>2 DEF CountInv, Followers
  <2>. QED BY <2>1, <2>2, <2>3, <2>4, <2>5, <2>6, <2>7, <2>8, <2>9
<1>f. CASE running <= 1
  <2>0. /\ stage' = [stage EXCEPT ![t] = "exit"] /\ step' = [step EXCEPT ![t] = "pick"]
        /\ todo' = [todo EXCEPT ![t] = Followers] /\ exitBy' = {t}
        /\ status' = [status EXCEPT ![t] = groupStatus]
        /\ UNCHANGED <<state, made_waitable, mutex, seen, target, groupStatus, inserted>>
    BY <1>a, <1>b, <1>f, SMTT(30) DEF CountDown
  <2>a. Uncounted \ {t} = {}
    <3>1. Cardinality(Uncounted \ {t}) = 0
      BY <1>b, <1>f, SMTT(30)
    <3>2. IsFiniteSet(Uncounted \ {t})
      BY <1>a, FS_RemoveElement
    <3>. QED BY <3>1, <3>2, FS_EmptySet
  <2>b. ASSUME NEW m \in Members \ {t}
        PROVE  stage[m] = "await" /\ state[m] \in {"PARALLEL_WRITER", "LOCKED_WAITING"}
    <3>1. stage[m] \notin {"launch", "join", "call", "insert", "report", "count"}
      BY <2>a, <2>b DEF Uncounted
    <3>2. stage[m] \notin {"exit", "exitLeader", "returned"}
      BY <1>a, <2>b DEF ControlInv, CountInv
    <3>3. stage[m] = "await"
      BY <2>b, <3>1, <3>2 DEF TypeOK, Stages
    <3>. QED BY <1>a, <2>b, <3>3 DEF StateInv
  <2>c. /\ \A m \in Members \ {t} : /\ stage'[m] = "await" /\ step'[m] = step[m]
                                     /\ todo'[m] = todo[m]
        /\ stage'[t] = "exit" /\ step'[t] = "pick" /\ todo'[t] = Followers
    BY <2>0, <2>b DEF TypeOK
  <2>1. TypeOK'
    BY <1>g, <2>0 DEF TypeOK, Stages, SetSteps, Followers
  <2>2. ControlInv'
    <3>1. ASSUME NEW m \in Members \ {t}
          PROVE  step'[m] \in WaitSteps /\ step'[m] \notin SetSteps /\ todo'[m] = {}
      BY <2>b, <2>c, <3>1 DEF ControlInv, WaitSteps, SetSteps
    <3>. QED BY <2>0, <2>c, <3>1, SMTT(30) DEF ControlInv, WaitSteps, SetSteps
  <2>3. StateInv'
    <3>1. state[t] = "PARALLEL_WRITER" /\ t \in Followers \cup {Leader}
      BY <1>a DEF StateInv, Followers
    <3>. QED BY <2>0, <2>b, <2>c, <3>1, SMTT(30)
         DEF StateInv
  <2>4. LockedInv'
    BY <1>a, <2>0, <2>b, <2>c, SMTT(30) DEF LockedInv, StateInv, TypeOK, Goal
  <2>5. MutexInv'
    BY <1>d, <2>0, <2>c, SMTT(30) DEF MutexInv, TypeOK, SetSteps
  <2>6. PendingInv'
    <3>1. \A m \in Members \ {t} : todo'[m] = {}
      BY <2>b, <2>c DEF ControlInv, WaitSteps, SetSteps
    <3>. QED BY <2>0, <2>b, <2>c, <3>1, SMTT(30) DEF PendingInv, TypeOK, Pending, WaitsIn, Followers
  <2>7. WakerInv'
    BY <1>d, <2>0, <2>c, SMTT(30) DEF WakerInv, TypeOK
  <2>8. CallerInv'
    BY <2>c, StridesDisjoint, SMTT(30) DEF CallerInv, StridesApart
  <2>9. CountInv'
    BY <1>a, <1>b, <2>0, <2>a, <2>b, <2>c DEF CountInv, Followers
  <2>. QED BY <2>1, <2>2, <2>3, <2>4, <2>5, <2>6, <2>7, <2>8, <2>9
<1>. QED BY <1>b, <1>e, <1>f, SMTT(30)

\* IInv is an inductive invariant of the parallel memtable phase.
THEOREM Inductive == Spec => []IInv
<1>1. IInv /\ [Next]_vars => IInv'
  <2>. SUFFICES ASSUME IInv, [Next]_vars PROVE IInv'
    OBVIOUS
  <2>1. CASE UNCHANGED vars
    BY <2>1, SMTT(30) DEF vars, IInv, TypeOK, ControlInv, StateInv, LockedInv, MutexInv, PendingInv,
                WakerInv, CallerInv, CountInv, Uncounted, Pending, WaitsIn, NewState, Goal
  <2>2. ASSUME NEW t \in Members, Wait(t) PROVE IInv'
    BY <2>2, StridesDisjoint, AwaitStateStep, BlockingLoadStep, BlockingCASStep, BlockingWaitStep
       DEF Wait
  <2>3. ASSUME NEW t \in Members, SetState(t) PROVE IInv'
    BY <2>3, StridesDisjoint, SetStateLoadStep, SetStateCASStep, SetStateLockStep,
       SetStateStoreStep, SetStateUnlockStep DEF SetState
  <2>4. ASSUME NEW t \in Members, Work(t) PROVE IInv'
    BY <2>4, InsertIntoStep, ReportErrorStep, CountDownStep DEF Work
  <2>. QED
    BY <2>1, <2>2, <2>3, <2>4, SpuriousWakeupStep DEF Next, Terminating
<1>. QED
  BY InitInv, <1>1, PTL DEF Spec

\* The variables keep their types; in particular running never drops below zero.
THEOREM TypeCorrect == Spec => []TypeOK
<1>1. IInv => TypeOK
  BY DEF IInv
<1>. QED
  BY Inductive, <1>1, PTL

\* No thread touches a Writer whose owner has returned from WriteImpl.
THEOREM NeverTouchAfterReturn == Spec => []NoTouchAfterReturn
<1>1. IInv => NoTouchAfterReturn
  <2>. SUFFICES ASSUME IInv, NEW t \in Members
                PROVE  /\ \A w \in todo[t] : stage[w] # "returned"
                       /\ stage[t] \in {"report", "count", "exit", "exitLeader"}
                            => stage[Leader] # "returned"
    BY DEF IInv, NoTouchAfterReturn, ControlInv, SetSteps
  <2>1. \A w \in todo[t] : stage[w] # "returned"
    BY SMTT(30) DEF IInv, PendingInv, WaitsIn, ControlInv, SetSteps
  <2>2. stage[t] \in {"report", "count", "exit", "exitLeader"} => stage[Leader] # "returned"
    BY <2>1, GroupAssumption DEF IInv, ControlInv, CountInv, Uncounted, Followers
  <2>. QED BY <2>1, <2>2
<1>. QED
  BY Inductive, <1>1, PTL

\* A wait ends only in a state of its goal mask.
THEOREM WaitsMeetTheirGoal == Spec => []WaitMeetsGoal
<1>1. IInv => WaitMeetsGoal
  BY DEF IInv, StateInv, WaitMeetsGoal
<1>. QED
  BY Inductive, <1>1, PTL

\* SetState uses a StateMutex only after its owner has constructed it.
THEOREM SetStateFindsMutex == Spec => []SetStateMutexMade
<1>1. IInv => SetStateMutexMade
  <2>. SUFFICES ASSUME IInv, NEW t \in Members,
                       step[t] \in {"setLock", "setStore", "setUnlock"}
                PROVE  target[t] \in made_waitable
    BY DEF SetStateMutexMade
  <2>1. target[t] \in todo[t] /\ target[t] \in Members
    BY DEF IInv, ControlInv, SetSteps, TypeOK
  <2>2. step[target[t]] \in {"wait", "asleep"}
    BY <2>1 DEF IInv, WakerInv, LockedInv, PendingInv, Pending
  <2>. QED BY <2>1, <2>2 DEF IInv, LockedInv
<1>. QED
  BY Inductive, <1>1, PTL

\* Nobody returns before every batch of the group has been through InsertInto.
THEOREM ReturnsAfterAllInserted == Spec => []CompletedAfterAllInserted
<1>1. IInv => CompletedAfterAllInserted
  <2>. SUFFICES ASSUME IInv PROVE CompletedAfterAllInserted
    OBVIOUS
  <2>1. Cardinality(exitBy) <= 1
    <3>1. CASE exitBy = {}
      BY <3>1, FS_EmptySet, SMTT(30)
    <3>2. CASE exitBy # {}
      BY <3>2, FS_Singleton, SMTT(30) DEF IInv, CountInv
    <3>. QED BY <3>1, <3>2
  <2>. QED BY <2>1 DEF IInv, CountInv, Uncounted, CompletedAfterAllInserted
<1>. QED
  BY Inductive, <1>1, PTL

\* Every step keeps the statuses right.
LEMMA ErrorStep ==
  ASSUME IInv, ErrorInv, NEW t \in Members, Wait(t) \/ SetState(t) \/ Work(t) \/ SpuriousWakeup(t)
  PROVE  ErrorInv'
<1>. USE LeaderMember DEF IInv
<1>0. stage[t] \in {"insert", "report", "count"} => exitBy = {}
  BY DEF CountInv, Uncounted
<1>1. CASE Wait(t)
  <2>1. /\ stage[t] \in {"join", "await"} /\ step'[t] \notin SetSteps \ {"pick"}
        /\ stage'[t] \notin {"report", "exit"}
        /\ state'[t] = "COMPLETED" => state[t] = "COMPLETED"
        /\ \A m \in Members \ {t} : stage'[m] = stage[m] /\ step'[m] = step[m] /\ state'[m] = state[m]
    BY <1>1, SMTT(30) DEF Wait, AwaitState, BlockingLoad, BlockingCAS, BlockingWait, Resume,
                TypeOK, ControlInv, WaitSteps, SetSteps
  <2>2. UNCHANGED <<status, groupStatus, inserted, exitBy, target>>
    BY <1>1 DEF Wait, AwaitState, BlockingLoad, BlockingCAS, BlockingWait
  <2>. QED BY <2>1, <2>2, SMTT(30) DEF ErrorInv
<1>2. CASE SetStateLoad(t)
  <2>1. PICK w \in todo[t] :
          /\ target' = [target EXCEPT ![t] = w]
          /\ status' = IF stage[t] = "exit" THEN [status EXCEPT ![w] = groupStatus] ELSE status
    BY <1>2 DEF SetStateLoad
  <2>2. w \in Members /\ stage[t] \in {"launch", "call", "exit", "exitLeader"}
    BY <1>2 DEF SetStateLoad, TypeOK, ControlInv, SetSteps
  <2>3. stage[t] = "exit" => \A m \in Members : inserted[m] = "error" => groupStatus = "error"
    BY DEF ErrorInv, ControlInv, CountInv, Uncounted
  <2>4. \A u \in Members : stage[u] = "exit" /\ stage[t] = "exit" => u = t
    BY SMTT(30) DEF ControlInv
  <2>. QED BY <1>2, <2>1, <2>2, <2>3, <2>4 DEF SetStateLoad, ErrorInv, TypeOK, SetSteps
<1>3. CASE SetStateCAS(t) \/ SetStateStore(t)
  <2>1. /\ target[t] \in Members /\ target[t] \in todo[t]
        /\ stage[t] = "exit" => target[t] # Leader /\ status[target[t]] = groupStatus
        /\ stage[t] = "exitLeader" => target[t] = Leader
    BY <1>3, SMTT(30) DEF SetStateCAS, SetStateStore, TypeOK, ControlInv, SetSteps, ErrorInv, Followers
  <2>2. /\ \A m \in Members : state'[m] = "COMPLETED" =>
             \/ state[m] = "COMPLETED"
             \/ m = target[t] /\ stage[t] \in {"exit", "exitLeader"}
        /\ \A m \in Members : stage'[m] = "report" => stage[m] = "report"
        /\ \A m \in Members : stage[m] = "report" => stage'[m] = "report"
    BY <1>3, <2>1, SMTT(30) DEF SetStateCAS, SetStateStore, SetStateDone, TypeOK, NewState, ControlInv, SetSteps
  <2>3. \A u \in Members : stage'[u] = "exit" /\ step'[u] \in SetSteps \ {"pick"}
           => stage[u] = "exit" /\ step[u] \in SetSteps \ {"pick"}
    BY <1>3, <2>1, SMTT(30) DEF SetStateCAS, SetStateStore, SetStateDone, TypeOK, ControlInv, SetSteps
  <2>. QED BY <1>3, <2>1, <2>2, <2>3, SMTT(30) DEF SetStateCAS, SetStateStore, ErrorInv, TypeOK
<1>4. CASE SetStateLock(t) \/ SetStateUnlock(t) \/ SpuriousWakeup(t)
  BY <1>4, SMTT(30) DEF SetStateLock, SetStateUnlock, SetStateDone, SpuriousWakeup, ErrorInv, TypeOK,
              ControlInv, SetSteps, WaitSteps
<1>5. CASE InsertInto(t)
  <2>1. \A u \in Members : stage[u] # "exit" /\ state[u] # "COMPLETED"
    BY <1>0, <1>5 DEF InsertInto, ControlInv, StateInv
  <2>. QED BY <1>0, <1>5, <2>1, SMTT(30) DEF InsertInto, ErrorInv, TypeOK, Statuses
<1>6. CASE ReportError(t)
  <2>1. \A u \in Members : stage[u] # "exit" /\ state[u] # "COMPLETED"
    BY <1>0, <1>6 DEF ReportError, ControlInv, StateInv
  <2>. QED BY <1>0, <1>6, <2>1 DEF ReportError, ErrorInv, TypeOK, Statuses
<1>7. CASE CountDown(t)
  <2>1. \A u \in Members : stage[u] # "exit" /\ state[u] # "COMPLETED"
    BY <1>0, <1>7 DEF CountDown, ControlInv, StateInv
  <2>2. inserted[t] = "error" => groupStatus = "error"
    BY <1>7 DEF CountDown, ErrorInv
  <2>. QED BY <1>0, <1>7, <2>1, <2>2, SMTT(30) DEF CountDown, ErrorInv, TypeOK, SetSteps
<1>. QED
  BY <1>1, <1>2, <1>3, <1>4, <1>5, <1>6, <1>7 DEF SetState, Work

\* An insert error reaches everyone who must not report success: the member
\* whose insert failed and every follower.
THEOREM ErrorsAreNotLost == Spec => []ErrorNotLost
<1>1. Init => ErrorInv
  BY GroupAssumption DEF Init, ErrorInv, SetSteps
<1>2. IInv /\ ErrorInv /\ [Next]_vars => ErrorInv'
  <2>. SUFFICES ASSUME IInv, ErrorInv, [Next]_vars PROVE ErrorInv'
    OBVIOUS
  <2>1. CASE UNCHANGED vars
    BY <2>1 DEF vars, ErrorInv
  <2>. QED BY <2>1, ErrorStep DEF Next, Terminating
<1>3. IInv /\ ErrorInv => ErrorNotLost
  <2>. SUFFICES ASSUME IInv, ErrorInv, NEW m \in Members, inserted[m] = "error",
                       NEW t \in Members, stage[t] = "returned", t # Leader \/ inserted[t] = "error"
                PROVE  status[t] = "error"
    BY DEF ErrorNotLost
  <2>1. groupStatus = "error"
    BY DEF IInv, ErrorInv, CountInv, Uncounted
  <2>. QED BY <2>1 DEF IInv, ErrorInv, StateInv
<1>. QED
  BY Inductive, <1>1, <1>2, <1>3, PTL DEF Spec
=============================================================================
