---------------------------- MODULE WriterState ----------------------------
(***************************************************************************)
(* How the threads of one parallel write group wait for one another.      *)
(*                                                                         *)
(* A thread in DB::Write owns a Writer on its stack.  It waits for the     *)
(* Writer's one-byte state to change: first by spinning (AwaitState), then *)
(* by installing STATE_LOCKED_WAITING with a CAS and sleeping on a mutex   *)
(* and a condition variable built lazily inside the Writer                 *)
(* (BlockingAwaitState).  Another thread changes the state with SetState:  *)
(* a CAS if the owner spins, a store under the Writer's mutex if it        *)
(* sleeps.  As soon as it sees its goal the owner may return, and then the *)
(* Writer, with its mutex and condition variable, is gone.                 *)
(*                                                                         *)
(* The module follows one group through the parallel memtable phase of     *)
(* DBImpl::WriteImpl: the leader launches the members                      *)
(* (LaunchParallelMemTableWriters, SetMemWritersEachStride), each inserts  *)
(* its batch and counts itself down (CompleteParallelMemTableWriter), and  *)
(* the last one performs the exit duties (ExitAsBatchGroupLeader or        *)
(* ExitAsBatchGroupFollower).  The hand-over of the queue to the next      *)
(* group is in module WriteThread.                                         *)
(***************************************************************************)
EXTENDS Integers, FiniteSets

CONSTANTS
  Members,          \* the Writers of the group, one thread each
  NoThread,         \* not a thread: nobody holds the mutex
  Leader,           \* the Writer whose thread built the group
  pos,              \* position in the group, oldest (the leader) first
  MinParallelSize,  \* group size from which callers share the launch
  InsertMayFail,    \* can a memtable insert return an error?
  MadeAtStart       \* the values made_waitable may have when the phase begins

Followers == Members \ {Leader}

ASSUME GroupAssumption ==
  /\ IsFiniteSet(Members)
  /\ Leader \in Members
  /\ NoThread \notin Members
  /\ Followers # {}
  /\ pos \in [Members -> Nat]
  /\ pos[Leader] = 0
  /\ \A m, n \in Members : pos[m] = pos[n] => m = n

ASSUME ParameterAssumption ==
  /\ MinParallelSize \in Nat \ 0..2
  /\ InsertMayFail \in BOOLEAN
  /\ MadeAtStart \subseteq SUBSET {Leader}

VARIABLES
  state,            \* Writer::state
  made_waitable,    \* the Writers with made_waitable: mutex and cv exist
  mutex,            \* the thread holding Writer::StateMutex(), or NoThread
  stage,            \* where in WriteImpl the thread that owns the Writer is
  step,             \* where it is inside AwaitState or SetState
  seen,             \* what its last load of a state returned
  todo,             \* the Writers on which it has still to call SetState
  target,           \* the Writer of its current SetState
  running,          \* WriteGroup::running
  status,           \* Writer::status: ok, or an insert error
  groupStatus,      \* WriteGroup::status
  inserted,         \* what InsertInto returned for the Writer's batch
  exitBy            \* the Writers whose thread took on the exit duties

vars == <<state, made_waitable, mutex, stage, step, seen, todo, target,
          running, status, groupStatus, inserted, exitBy>>

States == {"INIT", "GROUP_LEADER", "PARALLEL_WRITER", "PARALLEL_CALLER",
           "COMPLETED", "LOCKED_WAITING"}

Statuses == {"ok", "error"}

\* Where the owner of a Writer is in WriteImpl.
Stages == {"launch", "join", "call", "insert", "report", "count", "await", "exit",
           "exitLeader", "returned"}

\* Where it is in AwaitState, and in SetState.
WaitSteps == {"spin", "load", "cas", "wait", "asleep"}

SetSteps == {"pick", "setCas", "setLock", "setStore", "setUnlock"}

-----------------------------------------------------------------------------
(* Which Writers a thread must wake.                                       *)

Size == Cardinality(Members)

\* static_cast<size_t>(std::sqrt(group_size))
Stride == CHOOSE k \in 0..Size : k * k <= Size /\ (k + 1) * (k + 1) > Size

\* Every Stride-th member, from position first on (SetMemWritersEachStride).
InStride(first) ==
  {m \in Members : \E k \in 0..Size : pos[m] = first + k * Stride}

Callers ==
  IF Size < MinParallelSize THEN {} ELSE {m \in Members : pos[m] \in 1..(Stride - 1)}

\* Variant: the leader forgets to do a caller's share of the work.
LaunchTargetsNoShare ==
  IF Size < MinParallelSize THEN Members ELSE {Leader} \cup Callers

\* The leader wakes everyone of a small group.  Of a large one it wakes itself,
\* the callers, and every Stride-th member after them.
LaunchTargets ==
  IF Size < MinParallelSize THEN Members
                            ELSE {Leader} \cup Callers \cup InStride(Stride)

-----------------------------------------------------------------------------
Init ==
  /\ state = [m \in Members |-> IF m = Leader THEN "GROUP_LEADER" ELSE "INIT"]
  /\ made_waitable \in MadeAtStart
  /\ mutex = [m \in Members |-> NoThread]
  /\ stage = [m \in Members |-> IF m = Leader THEN "launch" ELSE "join"]
  /\ step = [m \in Members |-> IF m = Leader THEN "pick" ELSE "spin"]
  /\ seen = [m \in Members |-> "INIT"]
  /\ todo = [m \in Members |-> IF m = Leader THEN LaunchTargets ELSE {}]
  /\ target = [m \in Members |-> m]
  /\ running = Size
  /\ status = [m \in Members |-> "ok"]
  /\ groupStatus = "ok"
  /\ inserted = [m \in Members |-> "notyet"]
  /\ exitBy = {}

-----------------------------------------------------------------------------
(* AwaitState and BlockingAwaitState.  A follower waits in JoinBatchGroup  *)
(* ("join"); every member but the last waits again in                      *)
(* CompleteParallelMemTableWriter ("await").                               *)

Goal(t) ==
  IF stage[t] = "join"
    THEN {"GROUP_LEADER", "PARALLEL_WRITER", "PARALLEL_CALLER", "COMPLETED"}
    ELSE {"COMPLETED"}

\* The wait is over and WriteImpl goes on according to Writer::state.
Resume(t) ==
  /\ stage' = [stage EXCEPT ![t] =
       CASE state[t] = "PARALLEL_CALLER" -> "call"
         [] state[t] = "PARALLEL_WRITER" -> "insert"
         [] OTHER -> "returned"]
  /\ step' = [step EXCEPT ![t] = IF state[t] = "PARALLEL_CALLER" THEN "pick" ELSE "none"]
  /\ todo' = [todo EXCEPT ![t] =
       IF state[t] = "PARALLEL_CALLER" THEN InStride(pos[t]) ELSE {}]

\* Variant: the thread blocks without constructing its mutex.
AwaitStateNoCreate(t) ==
  /\ step[t] = "spin"
  /\ \/ /\ state[t] \in Goal(t)
        /\ Resume(t)
     \/ /\ state[t] \notin Goal(t)
        /\ step' = [step EXCEPT ![t] = "load"]
        /\ UNCHANGED <<stage, todo>>
  /\ UNCHANGED <<state, made_waitable, mutex, seen, target, running, status,
                 groupStatus, inserted, exitBy>>

\* The spinning loops: the goal is met, or the thread gives up spinning and
\* constructs its mutex.
AwaitState(t) ==
  /\ step[t] = "spin"
  /\ \/ /\ state[t] \in Goal(t)
        /\ Resume(t)
        /\ UNCHANGED made_waitable
     \/ /\ state[t] \notin Goal(t)
        /\ made_waitable' = made_waitable \cup {t}
        /\ step' = [step EXCEPT ![t] = "load"]
        /\ UNCHANGED <<stage, todo>>
  /\ UNCHANGED <<state, mutex, seen, target, running, status, groupStatus,
                 inserted, exitBy>>

BlockingLoad(t) ==
  /\ step[t] = "load"
  /\ \/ /\ state[t] \in Goal(t)
        /\ Resume(t)
        /\ UNCHANGED seen
     \/ /\ state[t] \notin Goal(t)
        /\ seen' = [seen EXCEPT ![t] = state[t]]
        /\ step' = [step EXCEPT ![t] = "cas"]
        /\ UNCHANGED <<stage, todo>>
  /\ UNCHANGED <<state, made_waitable, mutex, target, running, status,
                 groupStatus, inserted, exitBy>>

\* compare_exchange_strong(state, STATE_LOCKED_WAITING); a failed CAS means that
\* the waker has changed the state.
BlockingCAS(t) ==
  /\ step[t] = "cas"
  /\ \/ /\ state[t] = seen[t]
        /\ state' = [state EXCEPT ![t] = "LOCKED_WAITING"]
        /\ step' = [step EXCEPT ![t] = "wait"]
        /\ UNCHANGED <<stage, todo>>
     \/ /\ state[t] # seen[t]
        /\ Resume(t)
        /\ UNCHANGED state
  /\ UNCHANGED <<made_waitable, mutex, seen, target, running, status,
                 groupStatus, inserted, exitBy>>

\* StateCV().wait(guard, predicate): with the mutex taken, leave if the state is
\* no longer LOCKED_WAITING, else release the mutex and sleep.
BlockingWait(t) ==
  /\ step[t] = "wait"
  /\ mutex[t] = NoThread
  /\ \/ /\ state[t] # "LOCKED_WAITING"
        /\ Resume(t)
     \/ /\ state[t] = "LOCKED_WAITING"
        /\ step' = [step EXCEPT ![t] = "asleep"]
        /\ UNCHANGED <<stage, todo>>
  /\ UNCHANGED <<state, made_waitable, mutex, seen, target, running, status,
                 groupStatus, inserted, exitBy>>

\* The condition variable may wake its waiter without a notification.
SpuriousWakeup(t) ==
  /\ step[t] = "asleep"
  /\ step' = [step EXCEPT ![t] = "wait"]
  /\ UNCHANGED <<state, made_waitable, mutex, stage, seen, todo, target, running,
                 status, groupStatus, inserted, exitBy>>

-----------------------------------------------------------------------------
(* SetState.  The thread t calls it on every Writer of todo[t]: the launch, *)
(* the wake-ups of a caller, the completions of the exit duties.            *)

NewState(t) ==
  CASE stage[t] \in {"exit", "exitLeader"} -> "COMPLETED"
    [] stage[t] = "launch" /\ target[t] \in Callers -> "PARALLEL_CALLER"
    [] OTHER -> "PARALLEL_WRITER"

\* What follows the last SetState of a stage.  ExitAsBatchGroupFollower completes
\* the leader after everybody else, because the leader owns the WriteGroup.
SetStateDone(t) ==
  LET left == todo[t] \ {target[t]}
      last == left = {}
  IN /\ stage' = [stage EXCEPT ![t] =
          CASE ~last -> stage[t]
            [] last /\ stage[t] \in {"launch", "call"} -> "insert"
            [] last /\ stage[t] = "exit" /\ t # Leader -> "exitLeader"
            [] OTHER -> "returned"]
     /\ todo' = [todo EXCEPT ![t] =
          IF last /\ stage[t] = "exit" /\ t # Leader THEN {Leader} ELSE left]
     /\ step' = [step EXCEPT ![t] = IF todo'[t] = {} THEN "none" ELSE "pick"]

\* Variant: the exit duties forget to hand the group's status to a follower.
SetStateLoadNoStatus(t) ==
  /\ step[t] = "pick"
  /\ \E w \in todo[t] :
       /\ target' = [target EXCEPT ![t] = w]
       /\ seen' = [seen EXCEPT ![t] = state[w]]
  /\ step' = [step EXCEPT ![t] = "setCas"]
  /\ UNCHANGED <<state, made_waitable, mutex, stage, todo, running, status,
                 groupStatus, inserted, exitBy>>

\* Pick the next Writer and load its state.  ExitAsBatchGroupLeader first gives a
\* follower the status of the group.
SetStateLoad(t) ==
  /\ step[t] = "pick"
  /\ \E w \in todo[t] :
       /\ target' = [target EXCEPT ![t] = w]
       /\ seen' = [seen EXCEPT ![t] = state[w]]
       /\ status' = IF stage[t] = "exit"
                      THEN [status EXCEPT ![w] = groupStatus] ELSE status
  /\ step' = [step EXCEPT ![t] = "setCas"]
  /\ UNCHANGED <<state, made_waitable, mutex, stage, todo, running, groupStatus,
                 inserted, exitBy>>

SetStateCAS(t) ==
  /\ step[t] = "setCas"
  /\ \/ /\ seen[t] # "LOCKED_WAITING"
        /\ state[target[t]] = seen[t]
        /\ state' = [state EXCEPT ![target[t]] = NewState(t)]
        /\ SetStateDone(t)
     \/ /\ \/ seen[t] = "LOCKED_WAITING"
           \/ state[target[t]] # seen[t]
        /\ step' = [step EXCEPT ![t] = "setLock"]
        /\ UNCHANGED <<state, stage, todo>>
  /\ UNCHANGED <<made_waitable, mutex, seen, target, running, status, groupStatus,
                 inserted, exitBy>>

SetStateLock(t) ==
  /\ step[t] = "setLock"
  /\ mutex[target[t]] = NoThread
  /\ mutex' = [mutex EXCEPT ![target[t]] = t]
  /\ step' = [step EXCEPT ![t] = "setStore"]
  /\ UNCHANGED <<state, made_waitable, stage, seen, todo, target, running, status,
                 groupStatus, inserted, exitBy>>

\* Variant: the mutex is released before the condition variable is notified.
SetStateStoreThenUnlock(t) ==
  /\ step[t] = "setStore"
  /\ state' = [state EXCEPT ![target[t]] = NewState(t)]
  /\ mutex' = [mutex EXCEPT ![target[t]] = NoThread]
  /\ step' = [step EXCEPT ![t] = "setUnlock",
                          ![target[t]] = IF step[target[t]] = "asleep"
                                           THEN "wait" ELSE @]
  /\ UNCHANGED <<made_waitable, stage, seen, todo, target, running, status,
                 groupStatus, inserted, exitBy>>

\* Store the state and notify_one, with the mutex held.
SetStateStore(t) ==
  /\ step[t] = "setStore"
  /\ state' = [state EXCEPT ![target[t]] = NewState(t)]
  /\ step' = [step EXCEPT ![t] = "setUnlock",
                          ![target[t]] = IF step[target[t]] = "asleep"
                                           THEN "wait" ELSE @]
  /\ UNCHANGED <<made_waitable, mutex, stage, seen, todo, target, running, status,
                 groupStatus, inserted, exitBy>>

SetStateUnlock(t) ==
  /\ step[t] = "setUnlock"
  /\ mutex' = [mutex EXCEPT ![target[t]] = NoThread]
  /\ SetStateDone(t)
  /\ UNCHANGED <<state, made_waitable, seen, target, running, status, groupStatus,
                 inserted, exitBy>>

-----------------------------------------------------------------------------
(* The work between the waits.                                              *)

\* WriteBatchInternal::InsertInto of the Writer's own batch.
InsertInto(t) ==
  /\ stage[t] = "insert"
  /\ \E s \in IF InsertMayFail THEN Statuses ELSE {"ok"} :
       /\ inserted' = [inserted EXCEPT ![t] = s]
       /\ status' = [status EXCEPT ![t] = s]
       /\ stage' = [stage EXCEPT ![t] = IF s = "ok" THEN "count" ELSE "report"]
  /\ UNCHANGED <<state, made_waitable, mutex, step, seen, todo, target, running,
                 groupStatus, exitBy>>

\* CompleteParallelMemTableWriter, first half: a failed member stores its error
\* in the group while it holds the leader's StateMutex.
ReportError(t) ==
  /\ stage[t] = "report"
  /\ mutex[Leader] = NoThread
  /\ groupStatus' = status[t]
  /\ stage' = [stage EXCEPT ![t] = "count"]
  /\ UNCHANGED <<state, made_waitable, mutex, step, seen, todo, target, running,
                 status, inserted, exitBy>>

\* Variant: off by one in the test for the last parallel worker.
CountDownEarly(t) ==
  /\ stage[t] = "count"
  /\ running' = running - 1
  /\ \/ /\ running > 2
        /\ stage' = [stage EXCEPT ![t] = "await"]
        /\ step' = [step EXCEPT ![t] = "spin"]
        /\ UNCHANGED <<todo, status, exitBy>>
     \/ /\ running <= 2
        /\ stage' = [stage EXCEPT ![t] = "exit"]
        /\ step' = [step EXCEPT ![t] = "pick"]
        /\ todo' = [todo EXCEPT ![t] = Followers]
        /\ status' = [status EXCEPT ![t] = groupStatus]
        /\ exitBy' = exitBy \cup {t}
  /\ UNCHANGED <<state, made_waitable, mutex, seen, target, groupStatus, inserted>>

\* CompleteParallelMemTableWriter, second half: count down; the last member
\* takes the status of the group and completes the others.
CountDown(t) ==
  /\ stage[t] = "count"
  /\ running' = running - 1
  /\ \/ /\ running > 1
        /\ stage' = [stage EXCEPT ![t] = "await"]
        /\ step' = [step EXCEPT ![t] = "spin"]
        /\ UNCHANGED <<todo, status, exitBy>>
     \/ /\ running <= 1
        /\ stage' = [stage EXCEPT ![t] = "exit"]
        /\ step' = [step EXCEPT ![t] = "pick"]
        /\ todo' = [todo EXCEPT ![t] = Followers]
        /\ status' = [status EXCEPT ![t] = groupStatus]
        /\ exitBy' = exitBy \cup {t}
  /\ UNCHANGED <<state, made_waitable, mutex, seen, target, groupStatus, inserted>>

-----------------------------------------------------------------------------
Wait(t) ==
  AwaitState(t) \/ BlockingLoad(t) \/ BlockingCAS(t) \/ BlockingWait(t)

SetState(t) ==
  \/ SetStateLoad(t) \/ SetStateCAS(t) \/ SetStateLock(t)
  \/ SetStateStore(t) \/ SetStateUnlock(t)

Work(t) == InsertInto(t) \/ ReportError(t) \/ CountDown(t)

Returned == \A t \in Members : stage[t] = "returned"

\* Every thread has returned from WriteImpl.
Terminating == Returned /\ UNCHANGED vars

Next ==
  \/ \E t \in Members : Wait(t) \/ SetState(t) \/ Work(t) \/ SpuriousWakeup(t)
  \/ Terminating

Spec == Init /\ [][Next]_vars

\* Every running thread is scheduled; nothing is assumed of spurious wake-ups.
Fairness == \A t \in Members : WF_vars(Wait(t) \/ SetState(t) \/ Work(t))

FairSpec == Spec /\ Fairness

-----------------------------------------------------------------------------
\* Every variable has its type; running never drops below zero.
TypeOK ==
  /\ state \in [Members -> States]
  /\ made_waitable \subseteq Members
  /\ mutex \in [Members -> Members \cup {NoThread}]
  /\ stage \in [Members -> Stages]
  /\ step \in [Members -> {"none"} \cup WaitSteps \cup SetSteps]
  /\ seen \in [Members -> States]
  /\ todo \in [Members -> SUBSET Members]
  /\ target \in [Members -> Members]
  /\ running \in 0..Size
  /\ status \in [Members -> Statuses]
  /\ groupStatus \in Statuses
  /\ inserted \in [Members -> {"notyet"} \cup Statuses]
  /\ exitBy \in SUBSET Members

\* No thread touches a Writer whose owner has returned: while a thread is inside
\* SetState(w) the Writer w, its mutex and its condition variable exist, and so
\* do the Writers it has still to reach.  The WriteGroup, which is on the stack
\* of the leader, exists while a member uses it.
NoTouchAfterReturn ==
  \A t \in Members :
    /\ step[t] \in {"setCas", "setLock", "setStore", "setUnlock"}
         => stage[target[t]] # "returned"
    /\ \A w \in todo[t] : stage[w] # "returned"
    /\ stage[t] \in {"report", "count", "exit", "exitLeader"}
         => stage[Leader] # "returned"

\* assert((state & goal_mask) != 0) at the end of BlockingAwaitState and of
\* AwaitState: a thread that stopped waiting has reached its goal, although it
\* only checked that the state had changed.
WaitMeetsGoal ==
  \A t \in Members :
    /\ stage[t] = "insert" => state[t] = "PARALLEL_WRITER"
    /\ stage[t] = "call" => state[t] \in {"PARALLEL_CALLER", "PARALLEL_WRITER"}
    /\ stage[t] = "returned" /\ exitBy # {t} => state[t] = "COMPLETED"

\* The waker touches the mutex of a Writer only if the owner has constructed it
\* (assert(made_waitable) in Writer::StateMutex), as far as SetState goes.
SetStateMutexMade ==
  \A t \in Members :
    step[t] \in {"setLock", "setStore", "setUnlock"} => target[t] \in made_waitable

\* Nobody returns before every member has been through InsertInto, and one
\* thread alone takes on the exit duties.
CompletedAfterAllInserted ==
  /\ (\E t \in Members : stage[t] = "returned")
       => \A m \in Members : inserted[m] # "notyet"
  /\ Cardinality(exitBy) <= 1

\* A failed insert is never reported as a success: the member itself and every
\* follower return an error.
ErrorNotLost ==
  (\E m \in Members : inserted[m] = "error") =>
    \A t \in Members :
      stage[t] = "returned" /\ (t # Leader \/ inserted[t] = "error")
        => status[t] = "error"

\* Every thread returns from WriteImpl: no wake-up is lost between the CAS to
\* STATE_LOCKED_WAITING and the notification.
EveryoneReturns == <>Returned

-----------------------------------------------------------------------------
(* The inductive invariant behind the safety properties.  It says, for      *)
(* every Writer that some thread has still to set, that its owner is        *)
(* waiting for exactly that change.                                         *)

\* Where a thread can be, and which Writers it may have on its list there.
ControlInv ==
  \A t \in Members :
    /\ stage[t] \in {"join", "await"} <=> step[t] \in WaitSteps
    /\ stage[t] \in {"launch", "call", "exit", "exitLeader"} <=> step[t] \in SetSteps
    /\ step[t] \notin SetSteps => todo[t] = {}
    /\ step[t] \in SetSteps \ {"pick"} => target[t] \in todo[t]
    /\ stage[t] = "join" => t # Leader
    /\ stage[t] = "launch" => t = Leader /\ todo[t] \subseteq LaunchTargets
    /\ stage[t] = "call" => t \in Callers /\ todo[t] \subseteq InStride(pos[t])
    /\ stage[t] = "exit" => exitBy = {t} /\ todo[t] \subseteq Followers
    /\ stage[t] = "exitLeader" => exitBy = {t} /\ t # Leader /\ todo[t] = {Leader}

\* The state byte of a Writer, by the stage of its owner.
StateInv ==
  \A m \in Members :
    /\ stage[m] = "launch" =>
         state[m] = IF m \in todo[m] THEN "GROUP_LEADER" ELSE "PARALLEL_WRITER"
    /\ stage[m] = "join" =>
         state[m] \in {"INIT", "LOCKED_WAITING", "PARALLEL_WRITER", "PARALLEL_CALLER"}
    /\ stage[m] = "call" =>
         state[m] = IF m \in todo[m] THEN "PARALLEL_CALLER" ELSE "PARALLEL_WRITER"
    /\ stage[m] \in {"insert", "report", "count"} => state[m] = "PARALLEL_WRITER"
    /\ stage[m] = "await" =>
         state[m] \in {"PARALLEL_WRITER", "LOCKED_WAITING", "COMPLETED"}
    /\ stage[m] = "exit" =>
         state[m] = IF m \in todo[m] \cup {Leader} THEN "PARALLEL_WRITER" ELSE "COMPLETED"
    /\ stage[m] = "exitLeader" => state[m] = "COMPLETED"
    /\ stage[m] = "returned" /\ exitBy # {m} => state[m] = "COMPLETED"
    /\ state[m] = "PARALLEL_CALLER" => m \in Callers
    /\ state[m] = "COMPLETED" => exitBy # {}

\* The waiting side of the protocol: STATE_LOCKED_WAITING is installed exactly
\* while the owner is on its mutex.
LockedInv ==
  \A m \in Members :
    /\ state[m] = "LOCKED_WAITING" => step[m] \in {"wait", "asleep"}
    /\ step[m] = "asleep" => state[m] = "LOCKED_WAITING"
    /\ step[m] = "wait" => state[m] \in {"LOCKED_WAITING"} \cup Goal(m)
    /\ step[m] = "cas" => seen[m] = IF stage[m] = "join" THEN "INIT" ELSE "PARALLEL_WRITER"
    /\ step[m] \in {"load", "cas", "wait", "asleep"} => m \in made_waitable

\* A mutex is held exactly by the waker that is about to store or to release it.
MutexInv ==
  \A w, t \in Members :
    mutex[w] = t <=> target[t] = w /\ step[t] \in {"setStore", "setUnlock"}

\* t has still to store the new state of w.
Pending(t, w) == w \in todo[t] /\ ~(target[t] = w /\ step[t] = "setUnlock")

\* The stage in which the owner of a Writer waits for what t is setting.
WaitsIn(t) == IF stage[t] \in {"launch", "call"} THEN "join" ELSE "await"

\* Every Writer that a thread has still to set waits for just that.
PendingInv ==
  \A t \in Members : \A w \in todo[t] :
    /\ w # t => stage[w] = WaitsIn(t)
    /\ w # t /\ Pending(t, w) =>
         state[w] \in {"LOCKED_WAITING", IF WaitsIn(t) = "join" THEN "INIT" ELSE "PARALLEL_WRITER"}
    /\ ~Pending(t, w) => w # t /\ step[w] = "wait" /\ state[w] = NewState(t)

\* The waking side of the protocol: between its load and its CAS the waker can
\* only be surprised by STATE_LOCKED_WAITING.
WakerInv ==
  \A t \in Members :
    /\ step[t] = "setCas" => state[target[t]] \in {seen[t], "LOCKED_WAITING"}
    /\ step[t] \in {"setLock", "setStore"} => state[target[t]] = "LOCKED_WAITING"

\* The members a caller will wake are untouched until the caller is awake.
CallerInv ==
  \A c \in Callers : stage[c] = "join" =>
    \A m \in InStride(pos[c]) \ {c} :
      stage[m] = "join" /\ state[m] \in {"INIT", "LOCKED_WAITING"}

\* The members that have not yet counted themselves down.
Uncounted ==
  {m \in Members : stage[m] \in {"launch", "join", "call", "insert", "report", "count"}}

\* running counts them; the exit duties begin when nobody is left.
CountInv ==
  /\ running = Cardinality(Uncounted)
  /\ exitBy # {} => Uncounted = {} /\ \E t \in Members : exitBy = {t}
  /\ \A t \in Members : stage[t] = "returned" => exitBy # {}
  /\ \A t \in Followers : stage[t] = "exit" =>
       stage[Leader] = "await" /\ state[Leader] \in {"PARALLEL_WRITER", "LOCKED_WAITING"}
  /\ \A m \in Members : inserted[m] = "notyet"
       => stage[m] \in {"launch", "join", "call", "insert"}

\* The status of the group and of its members: an insert error is in its own
\* Writer at once and in the group before its thread counts down; whoever is
\* completed has been given the status of the group, which is final by then.
ErrorInv ==
  /\ \A m \in Members :
       /\ inserted[m] = "error" => status[m] = "error"
       /\ inserted[m] = "error" => stage[m] = "report" \/ groupStatus = "error"
       /\ stage[m] = "report" => inserted[m] = "error"
       /\ m \in exitBy \/ (m # Leader /\ state[m] = "COMPLETED") => status[m] = groupStatus
  /\ \A t \in Members :
       stage[t] = "exit" /\ step[t] \in SetSteps \ {"pick"} => status[target[t]] = groupStatus

\* The inductive invariant.
IInv ==
  /\ TypeOK /\ ControlInv /\ StateInv /\ LockedInv /\ MutexInv /\ PendingInv
  /\ WakerInv /\ CallerInv /\ CountInv

=============================================================================
