-------------------------- MODULE WriterStateSteps --------------------------
(* The steps of WriterState keep the inductive invariant: first those that   *)
(* wait, insert and read, then those in which one member sets the state of   *)
(* another.                                                                  *)
EXTENDS WriterState, TLAPS

\* Most leaves are first-order; those that need arithmetic cite SMT.
USE ZenonT(30), SMTT(30)

\* The members a caller wakes are woken by no other caller, and, but for the
\* caller itself, not by the leader.
StridesApart ==
  \A c \in Callers :
    /\ c \in Members
    /\ c # Leader
    /\ c \in InStride(pos[c])
    /\ LaunchTargets \cap InStride(pos[c]) = {c}
    /\ \A d \in Callers : d # c => InStride(pos[c]) \cap InStride(pos[d]) = {}

\* The leader is a member, and NoThread is not.
LEMMA LeaderMember == Leader \in Members /\ NoThread \notin Members
BY GroupAssumption

\* No two threads have the same Writer to set.
LEMMA OneSetter ==
  ASSUME IInv, StridesApart, NEW t \in Members, NEW u \in Members,
         NEW w \in todo[t], w \in todo[u]
  PROVE  t = u
<1>1. stage[t] \in {"launch", "call", "exit", "exitLeader"}
  BY DEF IInv, TypeOK, ControlInv
<1>2. stage[u] \in {"launch", "call", "exit", "exitLeader"}
  BY DEF IInv, TypeOK, ControlInv
<1>3. CASE stage[t] \in {"exit", "exitLeader"} \/ stage[u] \in {"exit", "exitLeader"}
  <2>1. exitBy # {}
    BY <1>3 DEF IInv, ControlInv
  <2>2. stage[t] \notin {"launch", "call"} /\ stage[u] \notin {"launch", "call"}
    BY <2>1 DEF IInv, CountInv, Uncounted
  <2>. QED BY <1>1, <1>2, <2>2 DEF IInv, ControlInv
<1>4. CASE stage[t] = "launch" /\ stage[u] = "call"
  BY <1>4, SMTT(30) DEF StridesApart, IInv, ControlInv, PendingInv, WaitsIn
<1>5. CASE stage[t] = "call" /\ stage[u] = "launch"
  BY <1>5, SMTT(30) DEF StridesApart, IInv, ControlInv, PendingInv, WaitsIn
<1>6. CASE stage[t] = "call" /\ stage[u] = "call"
  BY <1>6 DEF StridesApart, IInv, ControlInv
<1>7. CASE stage[t] = "launch" /\ stage[u] = "launch"
  BY <1>7 DEF IInv, ControlInv
<1>. QED BY <1>1, <1>2, <1>3, <1>4, <1>5, <1>6, <1>7

\* Nobody has to set the Writer of a thread that is not waiting for it, and a
\* Writer that still has to be set is not a caller's business if the caller sleeps.
LEMMA Untouched ==
  ASSUME IInv, NEW t \in Members, stage[t] \notin {"join", "await"}
  PROVE  \A u \in Members : u # t => t \notin todo[u]
BY DEF IInv, PendingInv, WaitsIn

\* The Writers that a sleeping caller will wake are on nobody's list.
LEMMA SleepingCaller ==
  ASSUME IInv, StridesApart, NEW t \in Members, NEW w \in todo[t],
         NEW c \in Callers, stage[c] = "join", w \in InStride(pos[c])
  PROVE  w = c
<1>1. stage[t] \in {"launch", "call", "exit", "exitLeader"}
  BY DEF IInv, TypeOK, ControlInv
<1>2. CASE stage[t] \in {"exit", "exitLeader"}
  BY <1>2, SMTT(30) DEF StridesApart, IInv, ControlInv, CountInv, Uncounted
<1>3. CASE stage[t] = "launch"
  BY <1>3, SMTT(30) DEF StridesApart, IInv, ControlInv
<1>4. CASE stage[t] = "call"
  BY <1>4 DEF StridesApart, IInv, ControlInv
<1>. QED BY <1>1, <1>2, <1>3, <1>4

\* A spurious wake-up keeps the invariant.
LEMMA SpuriousWakeupStep ==
  ASSUME IInv, NEW t \in Members, SpuriousWakeup(t)
  PROVE  IInv'
<1>. USE LeaderMember DEF IInv
<1>1. TypeOK'
  BY DEF TypeOK, States, Stages, WaitSteps, SetSteps, Statuses, SpuriousWakeup
<1>2. ControlInv'
  BY SMTT(30) DEF ControlInv, TypeOK, WaitSteps, SetSteps, SpuriousWakeup
<1>3. StateInv'
  BY DEF StateInv, TypeOK, ControlInv, SpuriousWakeup
<1>4. LockedInv'
  BY SMTT(30) DEF LockedInv, TypeOK, ControlInv, StateInv, Goal, SpuriousWakeup
<1>5. MutexInv'
  BY SMTT(30) DEF MutexInv, TypeOK, ControlInv, SpuriousWakeup
<1>6. PendingInv'
  BY SMTT(30) DEF PendingInv, TypeOK, ControlInv, Pending, WaitsIn, NewState, SpuriousWakeup
<1>7. WakerInv'
  BY DEF WakerInv, TypeOK, ControlInv, SpuriousWakeup
<1>8. CallerInv'
  BY DEF CallerInv, TypeOK, ControlInv, SpuriousWakeup
<1>9. CountInv'
  BY DEF CountInv, TypeOK, ControlInv, Uncounted, SpuriousWakeup
<1>. QED BY <1>1, <1>2, <1>3, <1>4, <1>5, <1>6, <1>7, <1>8, <1>9

\* SetState picks a Writer and loads its state.
LEMMA SetStateLoadStep ==
  ASSUME IInv, NEW t \in Members, SetStateLoad(t)
  PROVE  IInv'
<1>. USE LeaderMember DEF IInv
<1>1. TypeOK'
  BY SMTT(30) DEF TypeOK, States, Stages, WaitSteps, SetSteps, Statuses, SetStateLoad
<1>2. ControlInv'
  BY SMTT(30) DEF ControlInv, TypeOK, WaitSteps, SetSteps, SetStateLoad
<1>3. StateInv'
  BY DEF StateInv, TypeOK, ControlInv, SetStateLoad
<1>4. LockedInv'
  BY SMTT(30) DEF LockedInv, TypeOK, ControlInv, StateInv, Goal, SetStateLoad
<1>5. MutexInv'
  BY SMTT(30) DEF MutexInv, TypeOK, ControlInv, SetStateLoad
<1>6. PendingInv'
  BY SMTT(30) DEF PendingInv, TypeOK, ControlInv, Pending, WaitsIn, NewState, SetStateLoad
<1>7. WakerInv'
  BY SMTT(30) DEF WakerInv, TypeOK, ControlInv, SetStateLoad
<1>8. CallerInv'
  BY DEF CallerInv, TypeOK, ControlInv, SetStateLoad
<1>9. CountInv'
  BY SMTT(30) DEF CountInv, TypeOK, ControlInv, Uncounted, SetStateLoad
<1>. QED BY <1>1, <1>2, <1>3, <1>4, <1>5, <1>6, <1>7, <1>8, <1>9

\* SetState takes the mutex.
LEMMA SetStateLockStep ==
  ASSUME IInv, NEW t \in Members, SetStateLock(t)
  PROVE  IInv'
<1>. USE LeaderMember DEF IInv
<1>1. TypeOK'
  BY DEF TypeOK, States, Stages, WaitSteps, SetSteps, Statuses, SetStateLock
<1>2. ControlInv'
  BY SMTT(30) DEF ControlInv, TypeOK, WaitSteps, SetSteps, SetStateLock
<1>3. StateInv'
  BY DEF StateInv, TypeOK, ControlInv, SetStateLock
<1>4. LockedInv'
  BY SMTT(30) DEF LockedInv, TypeOK, ControlInv, StateInv, Goal, SetStateLock
<1>5. MutexInv'
  BY SMTT(30) DEF MutexInv, TypeOK, ControlInv, SetStateLock
<1>6. PendingInv'
  BY SMTT(30) DEF PendingInv, TypeOK, ControlInv, Pending, WaitsIn, NewState, SetStateLock
<1>7. WakerInv'
  BY DEF WakerInv, TypeOK, ControlInv, SetStateLock
<1>8. CallerInv'
  BY DEF CallerInv, TypeOK, ControlInv, SetStateLock
<1>9. CountInv'
  BY SMTT(30) DEF CountInv, TypeOK, ControlInv, Uncounted, SetStateLock
<1>. QED BY <1>1, <1>2, <1>3, <1>4, <1>5, <1>6, <1>7, <1>8, <1>9

\* The insertion of a batch.
LEMMA InsertIntoStep ==
  ASSUME IInv, NEW t \in Members, InsertInto(t)
  PROVE  IInv'
<1>. USE LeaderMember DEF IInv
<1>1. TypeOK'
  BY SMTT(30) DEF TypeOK, States, Stages, WaitSteps, SetSteps, Statuses, InsertInto
<1>2. ControlInv'
  BY SMTT(30) DEF ControlInv, TypeOK, WaitSteps, SetSteps, InsertInto
<1>3. StateInv'
  BY SMTT(30) DEF StateInv, TypeOK, ControlInv, InsertInto
<1>4. LockedInv'
  BY SMTT(30) DEF LockedInv, TypeOK, ControlInv, StateInv, Goal, InsertInto
<1>5. MutexInv'
  BY SMTT(30) DEF MutexInv, TypeOK, ControlInv, InsertInto
<1>6. PendingInv'
  BY SMTT(30) DEF PendingInv, TypeOK, ControlInv, Pending, WaitsIn, NewState, InsertInto
<1>7. WakerInv'
  BY DEF WakerInv, TypeOK, ControlInv, InsertInto
<1>8. CallerInv'
  BY SMTT(30) DEF CallerInv, TypeOK, ControlInv, InsertInto
<1>9. CountInv'
  <2>1. Uncounted' = Uncounted
    BY DEF Uncounted, TypeOK, InsertInto
  <2>2. exitBy' = exitBy /\ running' = running /\ state' = state
        /\ stage'[t] \in {"report", "count"} /\ \A m \in Members \ {t} : stage'[m] = stage[m]
    BY DEF InsertInto, TypeOK
  <2>4. stage[t] = "insert"
    BY DEF InsertInto
  <2>3. inserted'[t] # "notyet" /\ \A m \in Members \ {t} : inserted'[m] = inserted[m]
    BY DEF InsertInto, TypeOK, Statuses
  <2>. QED BY <2>1, <2>2, <2>3, <2>4 DEF CountInv, TypeOK, Followers
<1>. QED BY <1>1, <1>2, <1>3, <1>4, <1>5, <1>6, <1>7, <1>8, <1>9

\* The report of an error.
LEMMA ReportErrorStep ==
  ASSUME IInv, NEW t \in Members, ReportError(t)
  PROVE  IInv'
<1>. USE LeaderMember DEF IInv
<1>1. TypeOK'
  BY DEF TypeOK, States, Stages, WaitSteps, SetSteps, Statuses, ReportError
<1>2. ControlInv'
  BY SMTT(30) DEF ControlInv, TypeOK, WaitSteps, SetSteps, ReportError
<1>3. StateInv'
  BY SMTT(30) DEF StateInv, TypeOK, ControlInv, ReportError
<1>4. LockedInv'
  BY SMTT(30) DEF LockedInv, TypeOK, ControlInv, StateInv, Goal, ReportError
<1>5. MutexInv'
  BY SMTT(30) DEF MutexInv, TypeOK, ControlInv, ReportError
<1>6. PendingInv'
  BY SMTT(30) DEF PendingInv, TypeOK, ControlInv, Pending, WaitsIn, NewState, ReportError
<1>7. WakerInv'
  BY DEF WakerInv, TypeOK, ControlInv, ReportError
<1>8. CallerInv'
  BY SMTT(30) DEF CallerInv, TypeOK, ControlInv, ReportError
<1>9. CountInv'
  <2>1. Uncounted' = Uncounted
    BY DEF Uncounted, TypeOK, ReportError
  <2>2. exitBy' = exitBy /\ running' = running /\ state' = state
        /\ stage'[t] \in {"report", "count"} /\ \A m \in Members \ {t} : stage'[m] = stage[m]
    BY DEF ReportError, TypeOK
  <2>. QED BY <2>1, <2>2, SMTT(30) DEF CountInv, TypeOK, Followers, ReportError
<1>. QED BY <1>1, <1>2, <1>3, <1>4, <1>5, <1>6, <1>7, <1>8, <1>9

\* The end of a wait, whichever of the four ways it came about.
LEMMA ResumeStep ==
  ASSUME IInv, StridesApart, NEW t \in Members, step[t] \in WaitSteps, state[t] \in Goal(t),
         step[t] = "wait" => mutex[t] = NoThread, Resume(t),
         UNCHANGED <<state, made_waitable, mutex, seen, target, running, status,
                     groupStatus, inserted, exitBy>>
  PROVE  IInv'
<1>. USE LeaderMember DEF IInv
<1>a. \/ stage[t] = "join" /\ state[t] = "PARALLEL_WRITER"
      \/ stage[t] = "join" /\ state[t] = "PARALLEL_CALLER" /\ t \in Callers
      \/ stage[t] = "await" /\ state[t] = "COMPLETED"
  BY DEF ControlInv, StateInv, Goal, WaitSteps
<1>b. \A u \in Members : t \notin todo[u]
  <2>. SUFFICES ASSUME NEW u \in Members, t \in todo[u] PROVE FALSE
    OBVIOUS
  <2>1. u # t
    BY DEF ControlInv, WaitSteps, SetSteps
  <2>2. CASE Pending(u, t)
    BY <1>a, <2>1, <2>2 DEF PendingInv, WaitsIn
  <2>3. CASE ~Pending(u, t)
    BY <2>1, <2>3, SMTT(30) DEF PendingInv, Pending, MutexInv, TypeOK
  <2>. QED BY <2>2, <2>3
<1>c. /\ stage' = [stage EXCEPT ![t] = IF stage[t] = "await" THEN "returned"
                     ELSE IF state[t] = "PARALLEL_CALLER" THEN "call" ELSE "insert"]
      /\ step' = [step EXCEPT ![t] = IF state[t] = "PARALLEL_CALLER" THEN "pick" ELSE "none"]
      /\ todo' = [todo EXCEPT ![t] = IF state[t] = "PARALLEL_CALLER" THEN InStride(pos[t]) ELSE {}]
  BY <1>a DEF Resume, TypeOK
<1>d. \A f : InStride(f) \in SUBSET Members
  BY DEF InStride
<1>1. TypeOK'
  BY <1>c, <1>d DEF TypeOK, Stages, SetSteps
<1>2. ControlInv'
  BY <1>a, <1>c, SMTT(30) DEF ControlInv, TypeOK, WaitSteps, SetSteps
<1>3. StateInv'
  BY <1>a, <1>c, SMTT(30) DEF StridesApart, StateInv, TypeOK
<1>4. LockedInv'
  BY <1>a, <1>c DEF LockedInv, TypeOK, Goal
<1>5. MutexInv'
  BY <1>a, <1>c, SMTT(30) DEF MutexInv, TypeOK, ControlInv, WaitSteps
<1>6. PendingInv'
  <2>1. ASSUME NEW u \in Members, u # t, NEW w \in todo[u]
        PROVE  /\ w # u => stage'[w] = WaitsIn(u)'
               /\ w # u /\ Pending(u, w)' =>
                    state'[w] \in {"LOCKED_WAITING", IF WaitsIn(u)' = "join" THEN "INIT" ELSE "PARALLEL_WRITER"}
               /\ ~Pending(u, w)' => w # u /\ step'[w] = "wait" /\ state'[w] = NewState(u)'
    BY <1>b, <1>c, <2>1, SMTT(30) DEF PendingInv, TypeOK, Pending, WaitsIn, NewState
  <2>2. CASE state[t] = "PARALLEL_CALLER"
    BY <1>a, <1>b, <1>c, <1>d, <2>1, <2>2, SMTT(30) DEF PendingInv, CallerInv, TypeOK, Pending, WaitsIn
  <2>3. CASE state[t] # "PARALLEL_CALLER"
    BY <1>a, <1>b, <1>c, <2>1, <2>3, SMTT(30) DEF PendingInv, TypeOK
  <2>. QED BY <2>2, <2>3
<1>7. WakerInv'
  BY <1>a, <1>c DEF WakerInv, TypeOK
<1>8. CallerInv'
  BY <1>a, <1>c, SMTT(30) DEF CallerInv, TypeOK
<1>9. CountInv'
  <2>1. Uncounted' = Uncounted
    BY <1>a, <1>c DEF Uncounted, TypeOK
  <2>. QED BY <1>a, <1>c, <2>1, SMTT(30) DEF CountInv, StateInv, TypeOK, Followers
<1>. QED BY <1>1, <1>2, <1>3, <1>4, <1>5, <1>6, <1>7, <1>8, <1>9

\* The spinning part of a wait.
LEMMA AwaitStateStep ==
  ASSUME IInv, StridesApart, NEW t \in Members, AwaitState(t)
  PROVE  IInv'
<1>. USE LeaderMember DEF IInv
<1>a. CASE state[t] \in Goal(t)
  BY <1>a, ResumeStep DEF AwaitState, WaitSteps, LockedInv, Goal
<1>b. CASE state[t] \notin Goal(t)
  <2>0. /\ stage' = stage /\ todo' = todo /\ made_waitable' = made_waitable \cup {t}
        /\ step' = [step EXCEPT ![t] = "load"] /\ seen' = seen
    BY <1>b DEF AwaitState
  <2>1. TypeOK'
    BY <1>b, <2>0 DEF TypeOK, States, Stages, WaitSteps, SetSteps, Statuses, AwaitState
  <2>2. ControlInv'
    BY <1>b, <2>0, SMTT(30) DEF ControlInv, TypeOK, WaitSteps, SetSteps, AwaitState
  <2>3. StateInv'
    BY <1>b, <2>0 DEF StateInv, TypeOK, ControlInv, WaitSteps, AwaitState
  <2>4. LockedInv'
    BY <1>b, <2>0, SMTT(30) DEF LockedInv, TypeOK, ControlInv, StateInv, Goal, WaitSteps, AwaitState
  <2>5. MutexInv'
    BY <1>b, <2>0, SMTT(30) DEF MutexInv, TypeOK, ControlInv, SetSteps, AwaitState
  <2>6. PendingInv'
    BY <1>b, <2>0, SMTT(30) DEF PendingInv, TypeOK, ControlInv, Pending, WaitsIn, NewState, AwaitState
  <2>7. WakerInv'
    BY <1>b, <2>0 DEF WakerInv, TypeOK, ControlInv, AwaitState
  <2>8. CallerInv'
    BY <1>b, <2>0 DEF CallerInv, TypeOK, ControlInv, AwaitState
  <2>9. CountInv'
    BY <1>b, <2>0, SMTT(30) DEF CountInv, TypeOK, ControlInv, StateInv, Uncounted, WaitSteps, AwaitState
  <2>. QED BY <2>1, <2>2, <2>3, <2>4, <2>5, <2>6, <2>7, <2>8, <2>9
<1>. QED BY <1>a, <1>b

\* The load that precedes the CAS of a blocking wait.
LEMMA BlockingLoadStep ==
  ASSUME IInv, StridesApart, NEW t \in Members, BlockingLoad(t)
  PROVE  IInv'
<1>. USE LeaderMember DEF IInv
<1>a. CASE state[t] \in Goal(t)
  BY <1>a, ResumeStep DEF BlockingLoad, WaitSteps, LockedInv, Goal
<1>b. CASE state[t] \notin Goal(t)
  <2>0. /\ stage' = stage /\ todo' = todo
        /\ step' = [step EXCEPT ![t] = "cas"] /\ seen' = [seen EXCEPT ![t] = state[t]]
        /\ state[t] = IF stage[t] = "join" THEN "INIT" ELSE "PARALLEL_WRITER"
    BY <1>b DEF BlockingLoad, ControlInv, StateInv, LockedInv, WaitSteps, Goal
  <2>1. TypeOK'
    BY <1>b, <2>0 DEF TypeOK, States, Stages, WaitSteps, SetSteps, Statuses, BlockingLoad
  <2>2. ControlInv'
    BY <1>b, <2>0, SMTT(30) DEF ControlInv, TypeOK, WaitSteps, SetSteps, BlockingLoad
  <2>3. StateInv'
    BY <1>b, <2>0 DEF StateInv, TypeOK, ControlInv, WaitSteps, BlockingLoad
  <2>4. LockedInv'
    BY <1>b, <2>0, SMTT(30) DEF LockedInv, TypeOK, ControlInv, StateInv, Goal, WaitSteps, BlockingLoad
  <2>5. MutexInv'
    BY <1>b, <2>0, SMTT(30) DEF MutexInv, TypeOK, ControlInv, SetSteps, BlockingLoad
  <2>6. PendingInv'
    BY <1>b, <2>0, SMTT(30) DEF PendingInv, TypeOK, ControlInv, Pending, WaitsIn, NewState, BlockingLoad
  <2>7. WakerInv'
    BY <1>b, <2>0 DEF WakerInv, TypeOK, ControlInv, BlockingLoad
  <2>8. CallerInv'
    BY <1>b, <2>0 DEF CallerInv, TypeOK, ControlInv, BlockingLoad
  <2>9. CountInv'
    BY <1>b, <2>0, SMTT(30) DEF CountInv, TypeOK, ControlInv, StateInv, Uncounted, WaitSteps, BlockingLoad
  <2>. QED BY <2>1, <2>2, <2>3, <2>4, <2>5, <2>6, <2>7, <2>8, <2>9
<1>. QED BY <1>a, <1>b

\* The CAS to STATE_LOCKED_WAITING.
LEMMA BlockingCASStep ==
  ASSUME IInv, StridesApart, NEW t \in Members, BlockingCAS(t)
  PROVE  IInv'
<1>. USE LeaderMember DEF IInv
<1>a. CASE state[t] \in Goal(t)
  BY <1>a, ResumeStep DEF BlockingCAS, WaitSteps, LockedInv, Goal
<1>b. CASE state[t] \notin Goal(t)
  <2>0. /\ stage[t] \in {"join", "await"} /\ state[t] = seen[t]
        /\ stage' = stage /\ todo' = todo
        /\ step' = [step EXCEPT ![t] = "wait"]
        /\ state' = [state EXCEPT ![t] = "LOCKED_WAITING"]
    BY <1>b, SMTT(30) DEF BlockingCAS, ControlInv, StateInv, LockedInv, WaitSteps, Goal
  <2>1. TypeOK'
    BY <1>b, <2>0 DEF TypeOK, States, Stages, WaitSteps, SetSteps, Statuses, BlockingCAS
  <2>2. ControlInv'
    BY <1>b, <2>0, SMTT(30) DEF ControlInv, TypeOK, WaitSteps, SetSteps, BlockingCAS
  <2>3. StateInv'
    BY <1>b, <2>0, SMTT(30) DEF StateInv, TypeOK, ControlInv, WaitSteps, BlockingCAS
  <2>4. LockedInv'
    BY <1>b, <2>0, SMTT(30) DEF LockedInv, TypeOK, ControlInv, StateInv, Goal, WaitSteps, BlockingCAS
  <2>5. MutexInv'
    BY <1>b, <2>0, SMTT(30) DEF MutexInv, TypeOK, ControlInv, SetSteps, BlockingCAS
  <2>6. PendingInv'
    BY <1>b, <2>0, SMTT(30) DEF PendingInv, TypeOK, ControlInv, Pending, WaitsIn, NewState, BlockingCAS
  <2>7. WakerInv'
    BY <1>b, <2>0 DEF WakerInv, TypeOK, ControlInv, BlockingCAS
  <2>8. CallerInv'
    BY <1>b, <2>0, SMTT(30) DEF CallerInv, TypeOK, ControlInv, BlockingCAS
  <2>9. CountInv'
    BY <1>b, <2>0, SMTT(30) DEF CountInv, TypeOK, ControlInv, StateInv, Uncounted, WaitSteps, BlockingCAS
  <2>. QED BY <2>1, <2>2, <2>3, <2>4, <2>5, <2>6, <2>7, <2>8, <2>9
<1>. QED BY <1>a, <1>b

\* The wait on the condition variable.
LEMMA BlockingWaitStep ==
  ASSUME IInv, StridesApart, NEW t \in Members, BlockingWait(t)
  PROVE  IInv'
<1>. USE LeaderMember DEF IInv
<1>a. CASE state[t] \in Goal(t)
  BY <1>a, ResumeStep DEF BlockingWait, WaitSteps, LockedInv, Goal
<1>b. CASE state[t] \notin Goal(t)
  <2>0. /\ state[t] = "LOCKED_WAITING" /\ stage' = stage /\ todo' = todo
        /\ step' = [step EXCEPT ![t] = "asleep"]
    BY <1>b DEF BlockingWait, LockedInv
  <2>1. TypeOK'
    BY <1>b, <2>0 DEF TypeOK, States, Stages, WaitSteps, SetSteps, Statuses, BlockingWait
  <2>2. ControlInv'
    BY <1>b, <2>0, SMTT(30) DEF ControlInv, TypeOK, WaitSteps, SetSteps, BlockingWait
  <2>3. StateInv'
    BY <1>b, <2>0 DEF StateInv, TypeOK, ControlInv, WaitSteps, BlockingWait
  <2>4. LockedInv'
    BY <1>b, <2>0, SMTT(30) DEF LockedInv, TypeOK, ControlInv, StateInv, Goal, WaitSteps, BlockingWait
  <2>5. MutexInv'
    BY <1>b, <2>0, SMTT(30) DEF MutexInv, TypeOK, ControlInv, SetSteps, BlockingWait
  <2>6. PendingInv'
    BY <1>b, <2>0, SMTT(30) DEF PendingInv, TypeOK, ControlInv, Pending, WaitsIn, NewState, BlockingWait
  <2>7. WakerInv'
    BY <1>b, <2>0 DEF WakerInv, TypeOK, ControlInv, BlockingWait
  <2>8. CallerInv'
    BY <1>b, <2>0 DEF CallerInv, TypeOK, ControlInv, BlockingWait
  <2>9. CountInv'
    BY <1>b, <2>0, SMTT(30) DEF CountInv, TypeOK, ControlInv, StateInv, Uncounted, WaitSteps, BlockingWait
  <2>. QED BY <2>1, <2>2, <2>3, <2>4, <2>5, <2>6, <2>7, <2>8, <2>9
<1>. QED BY <1>a, <1>b

-----------------------------------------------------------------------------
\* The Writers that t has still to set after its current one.
Left(t) == todo[t] \ {target[t]}

\* What is left of a list of Writers when SetState has dealt with one of them,
\* and where the thread goes from there.
LEMMA SetStateDoneStep ==
  ASSUME IInv, StridesApart, NEW t \in Members, step[t] \in SetSteps \ {"pick"}, SetStateDone(t)
  PROVE  /\ stage' \in [Members -> Stages] /\ todo' \in [Members -> SUBSET Members]
         /\ step' \in [Members -> {"none"} \cup WaitSteps \cup SetSteps]
         /\ \A m \in Members \ {t} : /\ stage'[m] = stage[m] /\ step'[m] = step[m]
                                    /\ todo'[m] = todo[m]
         /\ \/ /\ Left(t) # {}
               /\ stage'[t] = stage[t] /\ todo'[t] = Left(t) /\ step'[t] = "pick"
            \/ /\ Left(t) = {} /\ stage[t] \in {"launch", "call"}
               /\ stage'[t] = "insert" /\ todo'[t] = {} /\ step'[t] = "none"
            \/ /\ Left(t) = {} /\ stage[t] = "exit" /\ t # Leader
               /\ stage'[t] = "exitLeader" /\ todo'[t] = {Leader} /\ step'[t] = "pick"
            \/ /\ Left(t) = {} /\ stage[t] \in {"exit", "exitLeader"}
               /\ stage[t] = "exit" => t = Leader
               /\ stage'[t] = "returned" /\ todo'[t] = {} /\ step'[t] = "none"
<1>. USE GroupAssumption
<1>0. stage[t] \in {"launch", "call", "exit", "exitLeader"}
  BY DEF IInv, ControlInv
<1>1. todo' \in [Members -> SUBSET Members] /\ todo'[t] = IF Left(t) = {} /\ stage[t] = "exit" /\ t # Leader
                                                        THEN {Leader} ELSE Left(t)
  BY DEF IInv, TypeOK, SetStateDone, Left
<1>2. step' = [step EXCEPT ![t] = IF todo'[t] = {} THEN "none" ELSE "pick"]
  BY DEF SetStateDone
<1>3. step' \in [Members -> {"none"} \cup WaitSteps \cup SetSteps]
  BY <1>2 DEF IInv, TypeOK, SetSteps
<1>4. /\ stage' \in [Members -> Stages]
      /\ stage'[t] = IF Left(t) # {} THEN stage[t]
                     ELSE IF stage[t] \in {"launch", "call"} THEN "insert"
                     ELSE IF stage[t] = "exit" /\ t # Leader THEN "exitLeader" ELSE "returned"
  BY <1>0 DEF IInv, TypeOK, SetStateDone, Stages, Left
<1>5. \A m \in Members \ {t} : stage'[m] = stage[m] /\ step'[m] = step[m] /\ todo'[m] = todo[m]
  BY <1>2 DEF IInv, TypeOK, SetStateDone
<1>6. step'[t] = IF todo'[t] = {} THEN "none" ELSE "pick"
  BY <1>2 DEF IInv, TypeOK
<1>. QED BY <1>0, <1>1, <1>3, <1>4, <1>5, <1>6

\* SetState has stored the new state of its Writer, or is about to do so in the
\* step that removes the Writer from the list: what holds of that Writer.
LEMMA TargetFacts ==
  ASSUME IInv, StridesApart, NEW t \in Members, step[t] \in SetSteps \ {"pick"}
  PROVE  /\ target[t] \in todo[t]
         /\ stage[t] \in {"launch", "call", "exit", "exitLeader"}
         /\ \A u \in Members \ {t} : target[t] \notin todo[u]
         /\ \A c \in Callers : stage[c] = "join" => target[t] \notin InStride(pos[c]) \ {c}
         /\ NewState(t) = "COMPLETED" <=> stage[t] \in {"exit", "exitLeader"}
         /\ NewState(t) = "PARALLEL_CALLER" <=> stage[t] = "launch" /\ target[t] \in Callers
         /\ NewState(t) \in {"COMPLETED", "PARALLEL_CALLER", "PARALLEL_WRITER"}
<1>1. target[t] \in todo[t] /\ stage[t] \in {"launch", "call", "exit", "exitLeader"}
  BY DEF IInv, ControlInv
<1>2. \A u \in Members \ {t} : target[t] \notin todo[u]
  BY <1>1, OneSetter
<1>3. \A c \in Callers : stage[c] = "join" => target[t] \notin InStride(pos[c]) \ {c}
  BY <1>1, SleepingCaller
<1>. QED BY <1>1, <1>2, <1>3 DEF NewState

\* SetState leaves a Writer whose new state is stored, in the step of the CAS or of
\* the unlock, and goes on to the next one.
LEMMA LeaveTarget ==
  ASSUME IInv, StridesApart, NEW t \in Members, step[t] \in {"setCas", "setUnlock"}, SetStateDone(t),
         NEW w, w = target[t],
         state' = [state EXCEPT ![w] = NewState(t)],
         w # t => /\ stage[w] = WaitsIn(t)
                  /\ step[w] \in {"spin", "load", "cas", "wait"}
                  /\ step[w] = "wait" => state[w] = NewState(t),
         mutex' \in [Members -> Members \cup {NoThread}], MutexInv',
         UNCHANGED <<made_waitable, seen, target, running, status, groupStatus,
                     inserted, exitBy>>
  PROVE  IInv'
<1>. USE LeaderMember DEF IInv
<1>0. step[t] \in SetSteps \ {"pick"}
  BY DEF SetSteps
<1>a. /\ w \in todo[t] /\ w \in Members
      /\ stage[t] \in {"launch", "call", "exit", "exitLeader"}
      /\ \A u \in Members \ {t} : w \notin todo[u]
      /\ \A c \in Callers : stage[c] = "join" => w \notin InStride(pos[c]) \ {c}
  BY <1>0, TargetFacts DEF TypeOK
<1>b. /\ NewState(t) = "COMPLETED" <=> stage[t] \in {"exit", "exitLeader"}
      /\ NewState(t) = "PARALLEL_CALLER" <=> stage[t] = "launch" /\ w \in Callers
      /\ NewState(t) \in {"COMPLETED", "PARALLEL_CALLER", "PARALLEL_WRITER"}
  BY <1>0, TargetFacts
<1>c. /\ stage' \in [Members -> Stages] /\ todo' \in [Members -> SUBSET Members]
      /\ step' \in [Members -> {"none"} \cup WaitSteps \cup SetSteps]
  BY <1>0, SetStateDoneStep
<1>d. \A m \in Members \ {t} : stage'[m] = stage[m] /\ step'[m] = step[m] /\ todo'[m] = todo[m]
  BY <1>0, SetStateDoneStep
<1>e. \/ /\ Left(t) # {}
         /\ stage'[t] = stage[t] /\ todo'[t] = Left(t) /\ step'[t] = "pick"
      \/ /\ Left(t) = {} /\ stage[t] \in {"launch", "call"}
         /\ stage'[t] = "insert" /\ todo'[t] = {} /\ step'[t] = "none"
      \/ /\ Left(t) = {} /\ stage[t] = "exit" /\ t # Leader
         /\ stage'[t] = "exitLeader" /\ todo'[t] = {Leader} /\ step'[t] = "pick"
      \/ /\ Left(t) = {} /\ stage[t] \in {"exit", "exitLeader"}
         /\ stage[t] = "exit" => t = Leader
         /\ stage'[t] = "returned" /\ todo'[t] = {} /\ step'[t] = "none"
  BY <1>0, SetStateDoneStep
<1>f. \A m \in Members : state'[m] = IF m = w THEN NewState(t) ELSE state[m]
  BY <1>a DEF TypeOK
<1>g. w = t => stage[t] # "exitLeader" /\ (stage[t] = "exit" => t # Leader)
  BY <1>a, SMTT(30) DEF ControlInv, Followers
<1>h. exitBy # {} => stage[t] \in {"exit", "exitLeader"} /\ exitBy = {t}
  BY <1>a DEF CountInv, Uncounted, ControlInv
<1>i. stage[t] \in {"exit", "exitLeader"} => exitBy = {t}
  BY DEF ControlInv
<1>j. Left(t) = todo[t] \ {w}
  BY DEF Left
<1>1. TypeOK'
  <2>1. state' \in [Members -> States]
    BY <1>b DEF TypeOK, States
  <2>. QED BY <2>1, <1>c DEF TypeOK
<1>2. ControlInv'
  <2>1. ASSUME NEW u \in Members \ {t} PROVE
        /\ stage'[u] \in {"join", "await"} <=> step'[u] \in WaitSteps
        /\ stage'[u] \in {"launch", "call", "exit", "exitLeader"} <=> step'[u] \in SetSteps
        /\ step'[u] \notin SetSteps => todo'[u] = {}
        /\ step'[u] \in SetSteps \ {"pick"} => target[u] \in todo'[u]
    BY <1>d, <2>1 DEF ControlInv
  <2>. QED BY <1>1, <1>a, <1>d, <1>e, <1>j, <2>1, SMTT(30) DEF ControlInv, WaitSteps, SetSteps, Followers, TypeOK
<1>3. StateInv'
  <2>. SUFFICES ASSUME NEW m \in Members PROVE
        /\ stage'[m] = "launch" =>
             state'[m] = IF m \in todo'[m] THEN "GROUP_LEADER" ELSE "PARALLEL_WRITER"
        /\ stage'[m] = "join" =>
             state'[m] \in {"INIT", "LOCKED_WAITING", "PARALLEL_WRITER", "PARALLEL_CALLER"}
        /\ stage'[m] = "call" =>
             state'[m] = IF m \in todo'[m] THEN "PARALLEL_CALLER" ELSE "PARALLEL_WRITER"
        /\ stage'[m] \in {"insert", "report", "count"} => state'[m] = "PARALLEL_WRITER"
        /\ stage'[m] = "await" =>
             state'[m] \in {"PARALLEL_WRITER", "LOCKED_WAITING", "COMPLETED"}
        /\ stage'[m] = "exit" =>
             state'[m] = IF m \in todo'[m] \cup {Leader} THEN "PARALLEL_WRITER" ELSE "COMPLETED"
        /\ stage'[m] = "exitLeader" => state'[m] = "COMPLETED"
        /\ stage'[m] = "returned" /\ exitBy # {m} => state'[m] = "COMPLETED"
        /\ state'[m] = "PARALLEL_CALLER" => m \in Callers
        /\ state'[m] = "COMPLETED" => exitBy # {}
    BY DEF StateInv
  <2>1. CASE m # t /\ m # w
    BY <1>1, <1>d, <1>f, <2>1, SMTT(30) DEF StateInv, TypeOK
  <2>2. CASE m # t /\ m = w
    BY <1>1, <1>a, <1>b, <1>d, <1>f, <1>i, <2>2 DEF StateInv, WaitsIn, TypeOK
  <2>0. Leader \notin Callers
    BY DEF StridesApart
  <2>3. CASE m = t /\ m = w
    <3>1. t \notin Left(t) /\ state'[t] = NewState(t)
      BY <1>f, <1>j, <2>3
    <3>2. CASE stage[t] = "launch"
      <4>1. state'[t] = "PARALLEL_WRITER" /\ stage'[t] \in {"launch", "insert"} /\ t \notin todo'[t]
        BY <1>b, <1>e, <2>0, <2>3, <3>1, <3>2 DEF ControlInv
      <4>. QED BY <2>3, <4>1
    <3>3. CASE stage[t] = "call"
      <4>1. state'[t] = "PARALLEL_WRITER" /\ stage'[t] \in {"call", "insert"} /\ t \notin todo'[t]
        BY <1>b, <1>e, <3>1, <3>3
      <4>. QED BY <2>3, <4>1
    <3>4. CASE stage[t] = "exit"
      <4>1. state'[t] = "COMPLETED" /\ stage'[t] \in {"exit", "exitLeader"} /\ t # Leader
            /\ exitBy = {t} /\ (stage'[t] = "exit" => t \notin todo'[t])
        BY <1>b, <1>e, <1>g, <1>i, <2>3, <3>1, <3>4
      <4>. QED BY <2>3, <4>1
    <3>. QED BY <1>a, <1>g, <2>3, <3>2, <3>3, <3>4
  <2>4. CASE m = t /\ m # w
    BY <1>1, <1>a, <1>e, <1>f, <1>i, <1>j, <2>4, SMTT(30) DEF StateInv, ControlInv, TypeOK
  <2>. QED BY <2>1, <2>2, <2>3, <2>4
<1>4. LockedInv'
  <2>1. step'[t] \in {"pick", "none"}
    BY <1>e
  <2>2. state[w] # "LOCKED_WAITING" /\ state'[w] # "LOCKED_WAITING"
    BY <1>a, <1>b, <1>f, SMTT(30) DEF LockedInv
  <2>. QED BY <1>1, <1>a, <1>b, <1>d, <1>f, <2>1, <2>2, SMTT(30) DEF LockedInv, Goal, WaitsIn, TypeOK
<1>5. PendingInv'
  <2>1. ASSUME NEW u \in Members \ {t}, NEW x \in todo'[u] PROVE
        /\ x # u => stage'[x] = WaitsIn(u)'
        /\ x # u /\ Pending(u, x)' =>
             state'[x] \in {"LOCKED_WAITING", IF WaitsIn(u)' = "join" THEN "INIT" ELSE "PARALLEL_WRITER"}
        /\ ~Pending(u, x)' => x # u /\ step'[x] = "wait" /\ state'[x] = NewState(u)'
    <3>1. x \in todo[u] /\ x \in Members /\ x # w
      BY <1>a, <1>d, SMTT(30) DEF TypeOK
    <3>2. x # t
      BY <1>a, <3>1, SMTT(30) DEF PendingInv, WaitsIn
    <3>3. WaitsIn(u)' = WaitsIn(u) /\ NewState(u)' = NewState(u) /\ (Pending(u, x)' <=> Pending(u, x))
      BY <1>d, <2>1 DEF WaitsIn, NewState, Pending
    <3>4. stage'[x] = stage[x] /\ step'[x] = step[x] /\ state'[x] = state[x]
      BY <1>d, <1>f, <3>1, <3>2
    <3>5. /\ x # u => stage[x] = WaitsIn(u)
          /\ x # u /\ Pending(u, x) =>
               state[x] \in {"LOCKED_WAITING", IF WaitsIn(u) = "join" THEN "INIT" ELSE "PARALLEL_WRITER"}
          /\ ~Pending(u, x) => x # u /\ step[x] = "wait" /\ state[x] = NewState(u)
      BY <3>1 DEF PendingInv
    <3>. QED BY <3>3, <3>4, <3>5
  <2>2. ASSUME NEW x \in todo'[t] PROVE
        /\ Pending(t, x)'
        /\ x # t => stage'[x] = WaitsIn(t)'
        /\ x # t =>
             state'[x] \in {"LOCKED_WAITING", IF WaitsIn(t)' = "join" THEN "INIT" ELSE "PARALLEL_WRITER"}
    <3>1. Pending(t, x)'
      BY <1>e DEF Pending
    <3>2. CASE x \in Left(t)
      <4>1. x \in todo[t] /\ x # w /\ x \in Members /\ Pending(t, x)
        BY <1>j, <3>2 DEF TypeOK, Pending
      <4>2. Left(t) # {} /\ stage'[t] = stage[t]
        BY <1>e, <3>2
      <4>. QED BY <1>1, <1>d, <1>f, <3>1, <4>1, <4>2, SMTT(30) DEF PendingInv, WaitsIn, TypeOK
    <3>3. CASE x \notin Left(t)
      <4>1. x = Leader /\ stage[t] = "exit" /\ t # Leader /\ stage'[t] = "exitLeader"
        BY <1>e, <3>3
      <4>2. w # Leader
        BY <1>a, <4>1 DEF ControlInv, Followers
      <4>. QED BY <1>d, <1>f, <3>1, <4>1, <4>2 DEF CountInv, Followers, WaitsIn
    <3>. QED BY <3>2, <3>3
  <2>. QED BY <1>1, <2>1, <2>2, SMTT(30) DEF PendingInv, TypeOK
<1>6. WakerInv'
  BY <1>1, <1>a, <1>d, <1>e, <1>f, SMTT(30) DEF WakerInv, ControlInv, SetSteps, TypeOK
<1>7. CallerInv'
  <2>. SUFFICES ASSUME NEW c \in Callers, stage'[c] = "join", NEW m \in InStride(pos[c]) \ {c}
                PROVE  stage'[m] = "join" /\ state'[m] \in {"INIT", "LOCKED_WAITING"}
    BY DEF CallerInv
  <2>1. c \in Members /\ c # t /\ stage[c] = "join" /\ m \in Members
    BY <1>a, <1>d, <1>e DEF StridesApart, InStride
  <2>2. stage[m] = "join" /\ state[m] \in {"INIT", "LOCKED_WAITING"} /\ m # w
    BY <1>a, <2>1 DEF CallerInv
  <2>. QED BY <1>a, <1>d, <1>f, <2>1, <2>2
<1>8. CountInv'
  <2>1. Uncounted' = Uncounted
    BY <1>a, <1>d, <1>e DEF Uncounted
  <2>2. \A u \in Followers : stage'[u] = "exit" =>
          stage'[Leader] = "await" /\ state'[Leader] \in {"PARALLEL_WRITER", "LOCKED_WAITING"}
    <3>. SUFFICES ASSUME NEW u \in Followers, stage'[u] = "exit" PROVE
          stage'[Leader] = "await" /\ state'[Leader] \in {"PARALLEL_WRITER", "LOCKED_WAITING"}
      OBVIOUS
    <3>1. u \in Members /\ stage[u] = "exit"
      BY <1>a, <1>d, <1>e DEF Followers
    <3>2. u = t
      BY <1>h, <3>1 DEF ControlInv
    <3>3. w # Leader /\ Leader # t
      BY <1>a, <3>1, <3>2 DEF ControlInv, Followers
    <3>. QED BY <1>1, <1>d, <1>f, <3>1, <3>3 DEF CountInv, TypeOK
  <2>3. \A m \in Members : stage'[m] = "returned" => exitBy # {}
    BY <1>d, <1>e, <1>i DEF CountInv
  <2>4. \A m \in Members : inserted[m] = "notyet"
          => stage'[m] \in {"launch", "join", "call", "insert"}
    BY <1>d, <1>e DEF CountInv
  <2>. QED BY <2>1, <2>2, <2>3, <2>4 DEF CountInv
<1>. QED BY <1>1, <1>2, <1>3, <1>4, <1>5, <1>6, <1>7, <1>8

\* SetState by CAS, the owner being awake; or the discovery that it sleeps.
LEMMA SetStateCASStep ==
  ASSUME IInv, StridesApart, NEW t \in Members, SetStateCAS(t)
  PROVE  IInv'
<1>. USE LeaderMember DEF IInv
<1>a. CASE seen[t] = "LOCKED_WAITING" \/ state[target[t]] # seen[t]
  <2>0. /\ step' = [step EXCEPT ![t] = "setLock"]
        /\ state' = state /\ stage' = stage /\ todo' = todo
    BY <1>a DEF SetStateCAS
  <2>1. TypeOK'
    BY <1>a, <2>0 DEF TypeOK, States, Stages, WaitSteps, SetSteps, SetStateCAS
  <2>2. ControlInv'
    BY <1>a, <2>0, SMTT(30) DEF ControlInv, TypeOK, WaitSteps, SetSteps, SetStateCAS
  <2>3. StateInv'
    BY <1>a, <2>0 DEF StateInv, TypeOK, ControlInv, WaitsIn, SetStateCAS
  <2>4. LockedInv'
    BY <1>a, <2>0, SMTT(30) DEF LockedInv, TypeOK, ControlInv, StateInv, Goal, WaitSteps, SetSteps, SetStateCAS
  <2>5. MutexInv'
    BY <1>a, <2>0, SMTT(30) DEF MutexInv, TypeOK, ControlInv, SetSteps, SetStateCAS
  <2>6. PendingInv'
    BY <1>a, <2>0, SMTT(30) DEF PendingInv, TypeOK, ControlInv, Pending, WaitsIn, NewState, SetStateCAS
  <2>7. WakerInv'
    BY <1>a, <2>0 DEF WakerInv, TypeOK, ControlInv, SetStateCAS
  <2>8. CallerInv'
    BY <1>a, <2>0 DEF CallerInv, TypeOK, ControlInv, SetStateCAS
  <2>9. CountInv'
    BY <1>a, <2>0, SMTT(30) DEF CountInv, TypeOK, ControlInv, StateInv, Uncounted, WaitSteps, SetStateCAS
  <2>. QED BY <2>1, <2>2, <2>3, <2>4, <2>5, <2>6, <2>7, <2>8, <2>9
<1>b. CASE seen[t] # "LOCKED_WAITING" /\ state[target[t]] = seen[t]
  <2>0. /\ step[t] = "setCas" /\ step[t] \in SetSteps \ {"pick"}
        /\ state' = [state EXCEPT ![target[t]] = NewState(t)]
        /\ SetStateDone(t)
        /\ UNCHANGED <<made_waitable, mutex, seen, target, running, status, groupStatus,
                       inserted, exitBy>>
    BY <1>b DEF SetStateCAS, SetSteps
  <2>1. target[t] # t => /\ stage[target[t]] = WaitsIn(t)
                         /\ step[target[t]] \in {"spin", "load", "cas"}
    <3>. SUFFICES ASSUME target[t] # t PROVE /\ stage[target[t]] = WaitsIn(t)
                                            /\ step[target[t]] \in {"spin", "load", "cas"}
      OBVIOUS
    <3>1. target[t] \in todo[t] /\ target[t] \in Members
      BY <2>0, TargetFacts DEF TypeOK
    <3>2. /\ stage[target[t]] = WaitsIn(t)
          /\ state[target[t]] = IF WaitsIn(t) = "join" THEN "INIT" ELSE "PARALLEL_WRITER"
      BY <1>b, <2>0, <3>1 DEF PendingInv, Pending
    <3>3. step[target[t]] \in WaitSteps
      BY <3>1, <3>2 DEF ControlInv, WaitsIn
    <3>4. step[target[t]] \notin {"wait", "asleep"}
      BY <3>1, <3>2 DEF LockedInv, Goal, WaitsIn
    <3>. QED BY <3>2, <3>3, <3>4 DEF WaitSteps
  <2>2. MutexInv'
    <3>1. /\ \A m \in Members \ {t} : step'[m] = step[m]
          /\ step'[t] \in {"pick", "none"}
      BY <2>0, SetStateDoneStep
    <3>2. \A m \in Members : step'[m] \in {"setStore", "setUnlock"} <=>
                              step[m] \in {"setStore", "setUnlock"}
      BY <2>0, <3>1
    <3>3. mutex' = mutex /\ target' = target
      BY <2>0
    <3>. QED BY <3>2, <3>3, SMTT(30) DEF MutexInv
  <2>3. mutex' \in [Members -> Members \cup {NoThread}]
    BY <2>0 DEF TypeOK
  <2>. QED BY <2>0, <2>1, <2>2, <2>3, LeaveTarget
<1>. QED BY <1>a, <1>b

\* SetState stores the new state of a sleeping owner and notifies it.
LEMMA SetStateStoreStep ==
  ASSUME IInv, StridesApart, NEW t \in Members, SetStateStore(t)
  PROVE  IInv'
<1>. USE LeaderMember DEF IInv
<1>0. step[t] = "setStore" /\ step[t] \in SetSteps \ {"pick"}
  BY DEF SetStateStore, SetSteps
<1>g. PICK w \in Members : w = target[t]
  BY DEF TypeOK
<1>a. /\ w \in todo[t] /\ w \in Members
      /\ stage[t] \in {"launch", "call", "exit", "exitLeader"}
      /\ \A u \in Members \ {t} : w \notin todo[u]
      /\ \A c \in Callers : stage[c] = "join" => w \notin InStride(pos[c]) \ {c}
  BY <1>0, <1>g, TargetFacts DEF TypeOK
<1>b. /\ NewState(t) = "COMPLETED" <=> stage[t] \in {"exit", "exitLeader"}
      /\ NewState(t) = "PARALLEL_CALLER" <=> stage[t] = "launch" /\ w \in Callers
      /\ NewState(t) \in {"COMPLETED", "PARALLEL_CALLER", "PARALLEL_WRITER"}
  BY <1>0, <1>g, TargetFacts
<1>c. state[w] = "LOCKED_WAITING" /\ step[w] \in {"wait", "asleep"} /\ w # t
  BY <1>0, <1>a, <1>g DEF WakerInv, LockedInv
<1>d. stage[w] = WaitsIn(t)
  BY <1>a, <1>c DEF PendingInv
<1>e. step' = [step EXCEPT ![t] = "setUnlock", ![w] = "wait"]
  BY <1>a, <1>c, <1>g DEF SetStateStore, TypeOK
<1>f. /\ step'[t] = "setUnlock" /\ step'[w] = "wait"
      /\ \A m \in Members \ {t, w} : step'[m] = step[m]
      /\ \A m \in Members : state'[m] = IF m = w THEN NewState(t) ELSE state[m]
      /\ UNCHANGED <<made_waitable, mutex, stage, seen, todo, target, running, status,
                     groupStatus, inserted, exitBy>>
  BY <1>a, <1>c, <1>e, <1>g, SMTT(30) DEF SetStateStore, TypeOK
<1>1. TypeOK'
  <2>1. state' \in [Members -> States]
    BY <1>b, <1>g DEF SetStateStore, TypeOK, States
  <2>2. step' \in [Members -> {"none"} \cup WaitSteps \cup SetSteps]
    BY <1>e DEF TypeOK, WaitSteps, SetSteps
  <2>. QED BY <1>f, <2>1, <2>2 DEF TypeOK
<1>2. ControlInv'
  <2>1. \A m \in Members : /\ step'[m] \in WaitSteps <=> step[m] \in WaitSteps
                           /\ step'[m] \in SetSteps <=> step[m] \in SetSteps
                           /\ step'[m] = "pick" <=> step[m] = "pick"
    BY <1>0, <1>a, <1>c, <1>f DEF WaitSteps, SetSteps
  <2>. QED BY <1>f, <2>1 DEF ControlInv
<1>3. StateInv'
  <2>1. stage[w] \in {"join", "await"} /\ (stage[w] = "await" <=> stage[t] \in {"exit", "exitLeader"})
    BY <1>a, <1>d DEF WaitsIn
  <2>2. stage[t] \in {"exit", "exitLeader"} => exitBy # {}
    BY DEF ControlInv
  <2>. QED BY <1>a, <1>b, <1>f, <2>1, <2>2, SMTT(30) DEF StateInv
<1>4. LockedInv'
  <2>1. NewState(t) \in Goal(w)'
    BY <1>1, <1>a, <1>b, <1>d, <1>f DEF Goal, WaitsIn, TypeOK
  <2>2. \A m \in Members : Goal(m)' = Goal(m)
    BY <1>f DEF Goal
  <2>. QED BY <1>1, <1>0, <1>a, <1>b, <1>c, <1>f, <2>1, <2>2, SMTT(30) DEF LockedInv, TypeOK
<1>5. MutexInv'
  BY <1>0, <1>1, <1>a, <1>c, <1>f, <1>g, SMTT(30) DEF MutexInv, TypeOK
<1>6. PendingInv'
  BY <1>0, <1>a, <1>c, <1>f, <1>g, SMTT(30) DEF PendingInv, Pending, WaitsIn, NewState, TypeOK
<1>7. WakerInv'
  BY <1>1, <1>0, <1>a, <1>c, <1>f, <1>g, SMTT(30) DEF WakerInv, ControlInv, SetSteps, TypeOK
<1>8. CallerInv'
  BY <1>a, <1>f DEF CallerInv, InStride
<1>9. CountInv'
  <2>1. Uncounted' = Uncounted
    BY <1>f DEF Uncounted
  <2>2. \A u \in Followers : stage[u] = "exit" => w # Leader
    BY <1>a DEF CountInv, ControlInv, Uncounted, Followers
  <2>. QED BY <1>f, <2>1, <2>2 DEF CountInv
<1>. QED BY <1>1, <1>2, <1>3, <1>4, <1>5, <1>6, <1>7, <1>8, <1>9

\* SetState releases the mutex and goes on to its next Writer.
LEMMA SetStateUnlockStep ==
  ASSUME IInv, StridesApart, NEW t \in Members, SetStateUnlock(t)
  PROVE  IInv'
<1>. USE LeaderMember DEF IInv
<1>0. /\ step[t] = "setUnlock" /\ step[t] \in SetSteps \ {"pick"} /\ SetStateDone(t)
      /\ mutex' = [mutex EXCEPT ![target[t]] = NoThread]
      /\ UNCHANGED <<state, made_waitable, seen, target, running, status, groupStatus,
                     inserted, exitBy>>
  BY DEF SetStateUnlock, SetSteps
<1>1. target[t] # t /\ step[target[t]] = "wait" /\ state[target[t]] = NewState(t)
      /\ stage[target[t]] = WaitsIn(t) /\ target[t] \in Members
  BY <1>0, TargetFacts DEF PendingInv, Pending, TypeOK
<1>2. MutexInv'
  <2>1. /\ \A m \in Members \ {t} : step'[m] = step[m]
        /\ step'[t] \in {"pick", "none"}
    BY <1>0, SetStateDoneStep
  <2>2. \A m \in Members : mutex'[m] = IF m = target[t] THEN NoThread ELSE mutex[m]
    BY <1>0, <1>1 DEF TypeOK
  <2>3. mutex[target[t]] = t
    BY <1>0, <1>1 DEF MutexInv
  <2>. SUFFICES ASSUME NEW v \in Members, NEW u \in Members
                PROVE  mutex'[v] = u <=> target'[u] = v /\ step'[u] \in {"setStore", "setUnlock"}
    BY DEF MutexInv
  <2>4. CASE u = t
    BY <1>0, <1>1, <2>1, <2>2, <2>3, <2>4, SMTT(30) DEF MutexInv, TypeOK
  <2>5. CASE u # t /\ v = target[t]
    BY <1>0, <1>1, <2>1, <2>2, <2>3, <2>5, SMTT(30) DEF MutexInv, TypeOK
  <2>6. CASE u # t /\ v # target[t]
    BY <1>0, <1>1, <2>1, <2>2, <2>6, SMTT(30) DEF MutexInv, TypeOK
  <2>. QED BY <2>4, <2>5, <2>6
<1>3. mutex' \in [Members -> Members \cup {NoThread}]
  BY <1>0 DEF TypeOK
<1>4. state' = [state EXCEPT ![target[t]] = NewState(t)]
  BY <1>0, <1>1 DEF TypeOK
<1>. QED BY <1>0, <1>1, <1>2, <1>3, <1>4, LeaveTarget

=============================================================================
