-------------------------- MODULE PoolAndLatchProofs --------------------------
(***************************************************************************)
(* Proofs about PoolAndLatch, for any number of tasks and workers: the     *)
(* composition is a use of the pool and a use of the latch, so that what   *)
(* was proved about each of them holds in it (WithPool, WithLatch), and    *)
(* the latch and the tasks outlive who uses them.                          *)
(***************************************************************************)
EXTENDS PoolAndLatch, KWorkerPoolProofs

LP == INSTANCE KCountdownLatchProofs WITH
        Counter <- Task, Waiter <- {Creator}, InitialCount <- Cardinality(Task),
        holder <- latchHolder, asleep <- latchAsleep,
        pc <- latchPC, count <- latchCount

USE PoolAssumption DEF Thread

LEMMA PoolStepsOrStutters == [PLNext]_allVars => [Next]_vars
<1> SUFFICES ASSUME [PLNext]_allVars PROVE [Next]_vars OBVIOUS
<1> USE DEF allVars
<1>1. CASE OwnerStep
  BY <1>1 DEF OwnerStep, Posts, Waits, IsWoken, ReleasesPool, ReleasesLatch,
              Next, ClientChoice
<1>2. CASE PoolStep
  BY <1>2 DEF PoolStep, Next
<1>3. CASE Woken
  BY <1>3 DEF Woken, Next
<1>4. CASE Over \/ UNCHANGED allVars
  BY <1>4 DEF Over
<1>5. ASSUME NEW w \in Worker, TaskStep(w) \/ WorkerLoop(w) PROVE [Next]_vars
  BY <1>5 DEF TaskStep, CountsDown, Returns, WorkerLoop, Next, WorkerStep
<1> QED BY <1>1, <1>2, <1>3, <1>4, <1>5 DEF PLNext

LEMMA LatchStepsOrStutters ==
  TypeOK /\ [PLNext]_allVars => [L!Next]_L!vars
<1> SUFFICES ASSUME TypeOK, [PLNext]_allVars PROVE [L!Next]_L!vars
  OBVIOUS
<1> USE DEF allVars, latchVars, L!vars, L!cvVars, L!Next, L!Thread
<1>1. CASE OwnerStep
  BY <1>1 DEF OwnerStep, Posts, Waits, IsWoken, ReleasesPool, ReleasesLatch
<1>2. CASE PoolStep \/ Over \/ UNCHANGED allVars
  BY <1>2 DEF PoolStep, Over
<1>3. CASE Woken
  BY <1>3 DEF Woken
<1>4. ASSUME NEW w \in Worker, TaskStep(w) \/ WorkerLoop(w) PROVE [L!Next]_L!vars
  <2>1. pc[w] = "exec" => current[w] \in Task
    BY DEF TypeOK, VariableTypes, LocalState
  <2> QED BY <1>4, <2>1 DEF TaskStep, CountsDown, Returns, WorkerLoop
<1> QED BY <1>1, <1>2, <1>3, <1>4 DEF PLNext

(* The program uses the pool as any client may.                            *)
THEOREM WithPool == PLSpec => Spec
<1>1. PLInit => Init BY DEF PLInit
<1> QED BY <1>1, PoolStepsOrStutters, PTL DEF PLSpec, Spec

(* The tasks and the owner use the latch as any threads may.               *)
THEOREM WithLatch == PLSpec => L!Spec
<1>1. PLInit => L!Init BY DEF PLInit
<1> QED BY <1>1, WithPool, TypeCorrect, LatchStepsOrStutters, PTL DEF PLSpec, L!Spec

-----------------------------------------------------------------------------
(* The theorems about the latch, for this latch.                           *)

LEMMA SameLatch == L!Spec => LP!Spec
<1> USE DEF L!Thread, LP!Thread, L!cvVars, LP!cvVars, L!vars, LP!vars,
            L!Goto, LP!Goto
<1>1. ASSUME NEW t
      PROVE  /\ L!Call(t) <=> LP!Call(t)
             /\ L!CounterStep(t) <=> LP!CounterStep(t)
             /\ L!WaiterStep(t) <=> LP!WaiterStep(t)
             /\ L!Spurious(t) <=> LP!Spurious(t)
  <2>1. L!Call(t) <=> LP!Call(t) BY DEF L!Call, LP!Call
  <2>2. L!Enter(t) <=> LP!Enter(t)
    BY DEF L!Enter, LP!Enter, L!CriticalSectionEnter, LP!CriticalSectionEnter
  <2>3. L!CountDown(t) <=> LP!CountDown(t)
    BY DEF L!CountDown, LP!CountDown, L!Decrement, LP!Decrement,
           L!CriticalSectionExit, LP!CriticalSectionExit
  <2>4. L!CountDownNotify(t) <=> LP!CountDownNotify(t)
    BY DEF L!CountDownNotify, LP!CountDownNotify, L!Announce, LP!Announce,
           L!NotifyAll, LP!NotifyAll
  <2>5. L!WaitSleep(t) <=> LP!WaitSleep(t)
    BY DEF L!WaitSleep, LP!WaitSleep, L!WaitBlock, LP!WaitBlock,
           L!KCountDownLatchCVPredicate, LP!KCountDownLatchCVPredicate
  <2>6. L!WaitWake(t) <=> LP!WaitWake(t)
    BY DEF L!WaitWake, LP!WaitWake, L!WaitReturn, LP!WaitReturn,
           L!CriticalSectionEnter, LP!CriticalSectionEnter
  <2>7. L!WaitExit(t) <=> LP!WaitExit(t)
    BY DEF L!WaitExit, LP!WaitExit, L!CriticalSectionExit, LP!CriticalSectionExit,
           L!KCountDownLatchCVPredicate, LP!KCountDownLatchCVPredicate
  <2>8. L!Spurious(t) <=> LP!Spurious(t)
    BY DEF L!Spurious, LP!Spurious, L!SpuriousWakeup, LP!SpuriousWakeup
  <2> QED BY <2>1, <2>2, <2>3, <2>4, <2>5, <2>6, <2>7, <2>8
          DEF L!CounterStep, LP!CounterStep, L!WaiterStep, LP!WaiterStep
<1>2. L!Finished => UNCHANGED LP!vars BY DEF L!Finished
<1>3. [L!Next]_L!vars => [LP!Next]_LP!vars BY <1>1, <1>2 DEF L!Next, LP!Next
<1>4. L!Init => LP!Init BY DEF L!Init, LP!Init, L!CVInit, LP!CVInit
<1> QED BY <1>3, <1>4, PTL DEF L!Spec, LP!Spec

LEMMA WaitedForAll ==
  PLSpec => [](Waited => \A k \in Task : latchPC[k] \in {"notify", "returned"})
<1>1. /\ LP!IsFiniteSet(Task) /\ Task \cap {Creator} = {}
      /\ None \notin Task \cup {Creator} /\ Cardinality(Task) \in Nat \ {0}
  BY TasksAssumption, FS_CardinalityType, FS_EmptySet
  DEF LP!IsFiniteSet, IsFiniteSet
<1>2. PLSpec => []LP!WaitReturnsAtZero
  BY <1>1, WithLatch, SameLatch, LP!WaitIsNotShort, PTL
<1>3. ASSUME LP!WaitReturnsAtZero, Waited, NEW k \in Task
      PROVE  latchPC[k] \in {"notify", "returned"}
  <2>1. Cardinality(LP!Counted) >= Cardinality(Task)
    BY <1>3 DEF Waited, LP!WaitReturnsAtZero, LP!Cardinality, Cardinality
  <2>2. LP!Counted \subseteq Task BY DEF LP!Counted
  <2>3. LP!Counted = Task
    BY <2>1, <2>2, TasksAssumption, FS_Subset, FS_CardinalityType
  <2> QED BY <2>3 DEF LP!Counted
<1>4. LP!WaitReturnsAtZero =>
        (Waited => \A k \in Task : latchPC[k] \in {"notify", "returned"})
  BY <1>3
<1> QED BY <1>2, <1>4, PTL

-----------------------------------------------------------------------------
(* The invariant of the composition.                                       *)

(* A task calls the latch while it executes, and is done when it returned. *)
CallsWhileExecuting ==
  \A k \in Task : latchPC[k] # "idle" =>
    k \in Executing \/ (latchPC[k] = "returned" /\ k \in done)

(* The owner gives the latch up after its wait, or without any pool.       *)
OwnerIsThrough ==
  ~latchOwned => Waited \/ (latchPC[Creator] = "idle" /\ pc[Creator] = "gone")

(* It keeps the pool until then, or there was never a task.                *)
OwnerKeepsPool == Waited \/ Creator \in poolRefs \/ InFlight = {}

PLInv == /\ CallsWhileExecuting /\ OwnerIsThrough
         /\ OwnerKeepsPool /\ dropped = {}

(* What the proof uses of the two parts.                                   *)
Parts ==
  /\ IInv
  /\ latchPC \in [Task \cup {Creator} -> LP!CounterPC \cup LP!WaiterPC]
  /\ Waited => \A k \in Task : latchPC[k] \in {"notify", "returned"}

LEMMA PartsHold == PLSpec => []Parts
<1>1. /\ LP!IsFiniteSet(Task) /\ Task \cap {Creator} = {}
      /\ None \notin Task \cup {Creator} /\ Cardinality(Task) \in Nat \ {0}
  BY TasksAssumption, FS_CardinalityType, FS_EmptySet
  DEF LP!IsFiniteSet, IsFiniteSet
<1>2. PLSpec => []LP!TypeOK
  BY <1>1, WithLatch, SameLatch, LP!LatchTypeCorrect, PTL
<1>3. PLSpec => []IInv BY WithPool, Invariant, PTL
<1>4. /\ IInv /\ LP!TypeOK
      /\ Waited => \A k \in Task : latchPC[k] \in {"notify", "returned"}
      => Parts
  BY DEF Parts, LP!TypeOK, LP!Thread
<1> QED BY <1>2, <1>3, <1>4, WaitedForAll, PTL

(* A task that executes goes on doing so until it is done.                 *)
LEMMA StillExecuting ==
  ASSUME IInv, [Next]_vars, done' = done
  PROVE  Executing \subseteq Executing'
<1>1. CASE UNCHANGED vars
  BY <1>1 DEF vars, Executing
<1>2. CASE Next
  <2>1. Moves BY <1>2, TaskMoves DEF IInv
  <2> QED BY <2>1 DEF Moves, IInv, EachTaskOnce, OnePlace
<1> QED BY <1>1, <1>2

(* When the wait is over no task is left in the list.                      *)
LEMMA NothingIsLeft ==
  ASSUME Parts, CallsWhileExecuting, Waited
  PROVE  tasks = <<>> /\ Task = done \cup Executing
<1> VariableTypes /\ OnePlace BY DEF Parts, IInv, TypeOK, EachTaskOnce
<1>1. Task \subseteq done \cup Executing
  BY DEF Parts, CallsWhileExecuting
<1>2. done \cup Executing \subseteq Task
  BY DEF VariableTypes, Executing
<1>3. Range(tasks) \subseteq Task
  BY DEF VariableTypes, Range
<1>4. Range(tasks) = {}
  BY <1>1, <1>3 DEF OnePlace
<1>5. tasks = <<>>
  <2> SUFFICES ASSUME tasks # <<>> PROVE FALSE OBVIOUS
  <2>1. tasks \in Seq(Task) /\ Head(tasks) \in Range(tasks)
    BY RangeOfTail DEF VariableTypes, Parts, IInv, EachTaskOnce, OneHolder
  <2> QED BY <1>4, <2>1
<1> QED BY <1>1, <1>2, <1>5

LEMMA InitPLInv == PLInit => PLInv
<1> SUFFICES ASSUME PLInit PROVE PLInv OBVIOUS
<1>1. \A k \in Task : latchPC[k] = "idle"
  BY DEF PLInit, L!Init, L!Thread
<1> QED
  BY <1>1 DEF PLInit, Init, PLInv, CallsWhileExecuting, OwnerIsThrough, OwnerKeepsPool

(* A step of the pool alone that finishes no task.                         *)
LEMMA CallsStay ==
  ASSUME Parts, CallsWhileExecuting, [Next]_vars, latchPC' = latchPC, done' = done
  PROVE  CallsWhileExecuting'
BY StillExecuting DEF Parts, CallsWhileExecuting

LEMMA NextCalls ==
  ASSUME Parts, CallsWhileExecuting, PLNext
  PROVE  CallsWhileExecuting'
<1> USE DEF allVars, latchVars
<1>1. [Next]_vars BY PoolStepsOrStutters
<1>2. CASE done' = done /\ latchPC' = latchPC
  BY <1>1, <1>2, CallsStay
<1>3. CASE UNCHANGED vars /\ \A k \in Task : latchPC'[k] = latchPC[k]
  BY <1>3 DEF CallsWhileExecuting, vars, taskVars, Executing
<1>4. ASSUME NEW w \in Worker, CountsDown(w) PROVE CallsWhileExecuting'
  <2>1. current[w] \in Task /\ current[w] \in Executing
    BY <1>4 DEF CountsDown, Parts, IInv, TypeOK, VariableTypes, LocalState, Executing
  <2>2. done' = done /\ Executing' = Executing
    BY <1>4 DEF CountsDown, vars, taskVars, Executing
  <2>3. \A k \in Task \ {current[w]} : latchPC'[k] = latchPC[k]
    BY <1>4, <2>1 DEF CountsDown, L!Call, L!CounterStep, L!Enter, L!CountDown,
      L!CountDownNotify, L!Goto, Parts
  <2>4. ASSUME NEW k \in Task, latchPC'[k] # "idle"
        PROVE  k \in Executing \/ (latchPC'[k] = "returned" /\ k \in done)
    BY <2>1, <2>3, <2>4 DEF CallsWhileExecuting
  <2> QED BY <2>2, <2>4 DEF CallsWhileExecuting
<1>5. ASSUME NEW w \in Worker, Returns(w) PROVE CallsWhileExecuting'
  <2>1. /\ latchPC[current[w]] = "returned" /\ latchPC' = latchPC
        /\ current' = [current EXCEPT ![w] = None] /\ done' = done \cup {current[w]}
    BY <1>5 DEF Returns, ExecuteTask, ClearTask
  <2>2. Executing \ {current[w]} \subseteq Executing'
    BY <2>1 DEF Executing, Parts, IInv, TypeOK, VariableTypes
  <2> QED BY <2>1, <2>2 DEF CallsWhileExecuting
<1>6. CASE Waits \/ IsWoken \/ Woken
  <2>1. CASE UNCHANGED vars
    <3>1. \A k \in Task : latchPC'[k] = latchPC[k]
      BY <1>6 DEF Waits, IsWoken, Woken, L!Call, L!WaiterStep, L!Enter, L!WaitSleep,
        L!WaitWake, L!WaitExit, L!Spurious, L!Goto, Parts
    <3> QED BY <1>3, <2>1, <3>1
  <2>2. ASSUME NEW w \in Worker, Spurious(w), UNCHANGED <<latchVars, latchOwned>>
        PROVE  CallsWhileExecuting'
    BY <1>2, <2>2 DEF Spurious, taskVars
  <2> QED BY <1>6, <2>1, <2>2 DEF Waits, IsWoken, Woken
<1>7. CASE Posts \/ ReleasesPool \/ ReleasesLatch \/ PoolStep \/ Over
  <2>1. latchPC' = latchPC
    BY <1>7 DEF Posts, ReleasesPool, ReleasesLatch, PoolStep, Over
  <2>2. done' = done
    BY <1>7 DEF Posts, PostTask, RetainUserData, ReleasesPool, Release, ReleasesLatch, PoolStep, Over, vars,
      taskVars, NewStep, PoolCall, SpawnWorker, SpawnFails, NewReturns,
      PostEnter, PostAdd, PostNotify, ShutEnter, ShutSet, ShutNotify, ShutJoin,
      ShutJoined, ShutDone, Free
  <2> QED BY <1>2, <2>1, <2>2
<1>8. ASSUME NEW w \in Worker, WorkerLoop(w) PROVE CallsWhileExecuting'
  BY <1>2, <1>8 DEF WorkerLoop, WorkerEnter, WorkerSleep, WorkerWake, WorkerTake, taskVars
<1> QED BY <1>4, <1>5, <1>6, <1>7, <1>8 DEF PLNext, OwnerStep, TaskStep

(* A client that has given the pool up does not come back.                 *)
LEMMA GoneStays ==
  ASSUME IInv, [Next]_vars, pc[Creator] = "gone"
  PROVE  pc'[Creator] = "gone"
<1> pc \in [Thread -> ClientPC \cup WorkerPC] /\ Creator \notin Worker
  BY DEF IInv, TypeOK, VariableTypes
<1> USE DEF Goto
<1>1. CASE UNCHANGED pc
  BY <1>1
<1>2. ASSUME NEW t \in Thread, NEW l,
             pc[t] # "gone" \/ t \in Worker, pc' = [pc EXCEPT ![t] = l]
      PROVE  pc'[Creator] = "gone"
  BY <1>2
<1>3. CASE NewStep
  <2>1. CASE NewReturns BY <2>1 DEF NewReturns, DropPoolRef
  <2>2. ASSUME NEW w \in Worker, SpawnWorker(w) \/ SpawnFails(w)
        PROVE  pc'[Creator] = "gone"
    BY <2>2 DEF SpawnWorker, SpawnFails
  <2> QED BY <1>3, <2>1, <2>2 DEF NewStep
<1>4. ASSUME NEW t \in Thread, PoolCall(t) PROVE pc'[Creator] = "gone"
  BY <1>1, <1>2, <1>4 DEF PoolCall, PostEnter, PostAdd, PostNotify, ShutEnter, ShutSet,
     ShutNotify, ShutJoin, ShutJoined, ShutDone, Free
<1>5. ASSUME NEW t \in Thread, NEW k \in Task, PostTask(t, k)
      PROVE  pc'[Creator] = "gone"
  BY <1>5 DEF PostTask, InUserCode
<1>6. ASSUME NEW w \in Worker, WorkerStep(w) \/ Spurious(w)
      PROVE  pc'[Creator] = "gone"
  BY <1>6 DEF WorkerStep, WorkerEnter, WorkerSleep, WorkerWake, WorkerTake,
     ExecuteTask, DropPoolRef, Spurious
<1>7. ASSUME NEW c \in Client, ClientChoice(c) PROVE pc'[Creator] = "gone"
  BY <1>7 DEF ClientChoice, Release, DropPoolRef, Shutdown, Retain
<1> QED BY <1>1, <1>3, <1>4, <1>5, <1>6, <1>7 DEF Next, Terminated, vars

LEMMA OwnerInLatch ==
  ASSUME Parts, PLNext
  PROVE  /\ Waited => Waited'
         /\ latchPC[Creator] = "idle" /\ pc[Creator] = "gone" =>
              latchPC'[Creator] = "idle"
<1> USE DEF Waited, Parts, latchVars, L!Goto
<1>1. CASE UNCHANGED latchPC
  BY <1>1
<1>2. ASSUME NEW w \in Worker, CountsDown(w)
      PROVE  latchPC'[Creator] = latchPC[Creator]
  <2>1. current[w] \in Task /\ current[w] # Creator
    BY <1>2 DEF CountsDown, IInv, TypeOK, VariableTypes, LocalState
  <2> QED BY <1>2, <2>1 DEF CountsDown, L!Call, L!CounterStep, L!Enter, L!CountDown,
                            L!CountDownNotify
<1>3. CASE Waits
  BY <1>3 DEF Waits, L!Call
<1>4. CASE IsWoken
  BY <1>4 DEF IsWoken, L!WaiterStep, L!Enter, L!WaitSleep, L!WaitWake, L!WaitExit
<1> QED
  BY <1>1, <1>2, <1>3, <1>4
  DEF PLNext, OwnerStep, Posts, ReleasesPool, ReleasesLatch, PoolStep, Woken, Over,
      allVars, TaskStep, Returns, WorkerLoop, L!Spurious

LEMMA NextOwner ==
  ASSUME Parts, OwnerIsThrough, PLNext
  PROVE  OwnerIsThrough'
<1>1. CASE ReleasesLatch
  BY <1>1, OwnerInLatch DEF ReleasesLatch, OwnerIsThrough, vars, Waited, latchVars
<1>2. CASE latchOwned' = latchOwned
  <2>1. pc[Creator] = "gone" => pc'[Creator] = "gone"
    BY PoolStepsOrStutters, GoneStays DEF Parts
  <2> QED BY <1>2, <2>1, OwnerInLatch DEF OwnerIsThrough
<1> QED
  BY <1>1, <1>2 DEF PLNext, OwnerStep, Posts, Waits, IsWoken, ReleasesPool, PoolStep,
     Woken, Over, allVars, TaskStep, CountsDown, Returns, WorkerLoop

(* Only KWorkerPoolPostTask brings tasks into the pool.                    *)
LEMMA NoNewTask ==
  ASSUME IInv, [Next]_vars, Posting' \subseteq Posting, InFlight = {}
  PROVE  InFlight' = {}
<1>1. CASE UNCHANGED vars
  BY <1>1 DEF vars, InFlight, Posting, Executing
<1>2. CASE Next
  <2>1. Moves BY <1>2, TaskMoves DEF IInv
  <2>2. InFlight' = Posting' \cup Range(tasks)' \cup Executing' BY DEF InFlight
  <2> QED BY <2>1, <2>2 DEF Moves, InFlight, Unposted
<1> QED BY <1>1, <1>2

LEMMA NothingPostedYet ==
  ASSUME IInv, pool = "building"
  PROVE  InFlight = {}
<1>1. /\ tasks = <<>> /\ \A t \in Thread : posting[t] = None
      /\ \A w \in Worker : current[w] = None
  BY DEF IInv, Building, TypeOK, LocalState, PostPC
<1> QED BY <1>1 DEF InFlight, Posting, Executing, Range

LEMMA NextKeeps ==
  ASSUME Parts, OwnerKeepsPool, PLNext
  PROVE  OwnerKeepsPool'
<1> IInv /\ VariableTypes BY DEF Parts, IInv, TypeOK
<1>1. CASE Waited BY <1>1, OwnerInLatch DEF OwnerKeepsPool
<1>2. CASE Posts
  <2>1. Creator \in poolRefs
    BY <1>2 DEF Posts, PostTask, InUserCode, IInv, RefsInv, RefsUsers
  <2> QED BY <1>2, <2>1 DEF Posts, PostTask, OwnerKeepsPool
<1>3. CASE NewReturns /\ latchPC' = latchPC
  <2>1. InFlight = {} BY <1>3, NothingPostedYet DEF NewReturns, IInv, Building
  <2>2. InFlight' = InFlight
    BY <1>3 DEF NewReturns, InFlight, Posting, Executing
  <2> QED BY <2>1, <2>2 DEF OwnerKeepsPool
<1>4. CASE Posting' \subseteq Posting /\ (Creator \in poolRefs => Creator \in poolRefs')
  BY <1>1, <1>4, NoNewTask, PoolStepsOrStutters DEF OwnerKeepsPool
<1>5. CASE posting' = posting /\ (Creator \in poolRefs => Creator \in poolRefs')
  BY <1>4, <1>5 DEF Posting
<1>6. CASE PoolStep
  <2>1. CASE NewReturns BY <1>3, <1>6, <2>1 DEF PoolStep, latchVars
  <2>2. ASSUME NEW t \in Thread, PostAdd(t) PROVE OwnerKeepsPool'
    <3>1. Posting' \subseteq Posting
      BY <2>2 DEF PostAdd, Posting, VariableTypes
    <3> QED BY <1>4, <2>2, <3>1 DEF PostAdd, poolVars
  <2>3. ASSUME NEW w \in Worker, SpawnWorker(w) \/ SpawnFails(w) PROVE OwnerKeepsPool'
    BY <1>5, <2>3 DEF SpawnWorker, SpawnFails, poolVars
  <2>4. ASSUME NEW t \in Thread, PoolCall(t), ~PostAdd(t) PROVE OwnerKeepsPool'
    BY <1>5, <2>4 DEF PoolCall, PostEnter, PostNotify, ShutEnter, ShutSet, ShutNotify,
      ShutJoin, ShutJoined, ShutDone, Free, poolVars
  <2> QED BY <1>6, <2>1, <2>2, <2>3, <2>4 DEF PoolStep, NewStep
<1>7. ASSUME NEW w \in Worker, Returns(w) PROVE OwnerKeepsPool'
  BY <1>5, <1>7 DEF Returns, ExecuteTask, DropPoolRef, Parts, IInv, TypeOK, LocalState
<1>8. ASSUME NEW w \in Worker, WorkerLoop(w) \/ CountsDown(w) PROVE OwnerKeepsPool'
  BY <1>5, <1>8 DEF WorkerLoop, WorkerEnter, WorkerSleep, WorkerWake, WorkerTake,
    CountsDown, vars, poolVars
<1>9. CASE Waits \/ IsWoken \/ ReleasesPool \/ ReleasesLatch \/ Woken \/ Over
  BY <1>1, <1>5, <1>9 DEF Waits, IsWoken, ReleasesPool, ReleasesLatch, Woken, Over,
    Spurious, allVars, vars, poolVars
<1> QED BY <1>2, <1>6, <1>7, <1>8, <1>9 DEF PLNext, OwnerStep, TaskStep

LEMMA NextDropped ==
  ASSUME Parts, PLInv, PLNext
  PROVE  dropped' = {}
<1> IInv /\ VariableTypes BY DEF Parts, IInv, TypeOK
<1>1. ASSUME NEW t \in Thread, Free(t) PROVE dropped' = {}
  <2>1. poolRefs = {} BY <1>1 DEF Free, IInv, RefsInv, RefsUsers
  <2>2. CASE Waited
    BY <1>1, <2>2, NothingIsLeft DEF Free, PLInv, Range
  <2>3. CASE InFlight = {}
    BY <1>1, <2>3 DEF Free, PLInv, InFlight
  <2> QED BY <2>1, <2>2, <2>3 DEF PLInv, OwnerKeepsPool
<1>2. CASE dropped' = dropped BY <1>2 DEF PLInv
<1>3. ASSUME NEW t \in Thread, PoolCall(t), ~Free(t) PROVE dropped' = dropped
  BY <1>3 DEF PoolCall, PostEnter, PostAdd, PostNotify, ShutEnter, ShutSet, ShutNotify,
    ShutJoin, ShutJoined, ShutDone, taskVars
<1>4. CASE NewStep
  BY <1>2, <1>4 DEF NewStep, NewReturns, SpawnWorker, SpawnFails, taskVars
<1>5. ASSUME NEW w \in Worker, TaskStep(w) \/ WorkerLoop(w) PROVE dropped' = dropped
  BY <1>5 DEF TaskStep, CountsDown, Returns, ExecuteTask, WorkerLoop, WorkerEnter,
    WorkerSleep, WorkerWake, WorkerTake, vars, taskVars
<1>6. CASE OwnerStep
  BY <1>2, <1>6 DEF OwnerStep, Posts, PostTask, Waits, IsWoken, ReleasesPool, Release,
    ReleasesLatch, vars, taskVars
<1>7. CASE Woken \/ Over
  BY <1>2, <1>7 DEF Woken, Spurious, Over, allVars, vars, taskVars
<1> QED BY <1>1, <1>2, <1>3, <1>4, <1>5, <1>6, <1>7 DEF PLNext, PoolStep

LEMMA CompositionInvariant == PLSpec => [](Parts /\ PLInv)
<1>1. Parts /\ PLInv /\ [PLNext]_allVars => PLInv'
  <2> SUFFICES ASSUME Parts, PLInv, [PLNext]_allVars PROVE PLInv' OBVIOUS
  <2>1. CASE PLNext
    <3> USE <2>1 DEF PLInv
    <3> QED BY NextCalls, NextOwner, NextKeeps, NextDropped
  <2>2. CASE UNCHANGED allVars
    <3> USE <2>2 DEF PLInv, allVars, vars, latchVars, taskVars, poolVars
    <3>1. Executing' = Executing /\ InFlight' = InFlight
      BY DEF Executing, InFlight, Posting
    <3> QED BY <3>1 DEF CallsWhileExecuting, OwnerIsThrough, OwnerKeepsPool, Waited
  <2> QED BY <2>1, <2>2
<1> QED BY <1>1, InitPLInv, PartsHold, PTL DEF PLSpec

(* The latch is kept for its users by the pool's references on user_data,  *)
(* whatever the order in which the owner gives up the pool and the latch.  *)
THEOREM LatchIsKeptForItsUsers == PLSpec => []LatchOutlivesItsUsers
<1>1. Parts /\ PLInv => LatchOutlivesItsUsers
  <2> SUFFICES ASSUME Parts, PLInv, LatchFreed, NEW t \in L!Thread
               PROVE  latchPC[t] \in {"idle", "returned"}
    BY DEF LatchOutlivesItsUsers
  <2>1. CASE t = Creator
    BY <2>1 DEF LatchFreed, PLInv, OwnerIsThrough, Waited
  <2>2. CASE t \in Task
    <3>1. t \notin InFlight
      BY <2>2 DEF LatchFreed, Parts, IInv, UserDataBalanced
    <3> QED BY <2>2, <3>1 DEF PLInv, CallsWhileExecuting, InFlight
  <2> QED BY <2>1, <2>2 DEF L!Thread
<1> QED BY <1>1, CompositionInvariant, PTL

(* The wait for the latch is a wait for all tasks: the pool that the owner *)
(* gives up afterwards has none left to drop.                              *)
THEOREM WaitIsForAllTasks == PLSpec => []NoTaskIsDropped
<1>1. Parts /\ PLInv => NoTaskIsDropped
  BY NothingIsLeft DEF PLInv, NoTaskIsDropped
<1> QED BY <1>1, CompositionInvariant, PTL

=============================================================================
