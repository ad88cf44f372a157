---------------------------- MODULE PoolAndLatch ----------------------------
(***************************************************************************)
(* A worker pool and a countdown latch used together, as the unit test of  *)
(* the worker pool does: the owner posts every task with the latch as its  *)
(* user_data, each task counts the latch down, and the owner waits for the *)
(* latch before it gives back its references on the pool and on the latch. *)
(* The test does that in this order; the other one is allowed here, and    *)
(* only then may the latch lose its last reference on a worker.            *)
(***************************************************************************)
EXTENDS KWorkerPool

(* One task at least: KCountdownLatchNew makes no latch for a count of zero. *)
ASSUME TasksAssumption == IsFiniteSet(Task) /\ Task # {}

VARIABLES latchHolder, latchAsleep, latchPC, latchCount,
          latchOwned   \* the owner has a reference on the latch

L == INSTANCE KCountdownLatch WITH
       Counter <- Task, Waiter <- {Creator}, InitialCount <- Cardinality(Task),
       holder <- latchHolder, asleep <- latchAsleep,
       pc <- latchPC, count <- latchCount

latchVars == <<latchHolder, latchAsleep, latchPC, latchCount>>
allVars == <<vars, latchVars, latchOwned>>

PLInit == Init /\ L!Init /\ latchOwned = TRUE

(* The last reference on the latch is the owner's, or that of a task.      *)
LatchFreed == ~latchOwned /\ \A k \in Task : userRefs[k] <= 0

Waited == latchPC[Creator] = "returned"

-----------------------------------------------------------------------------
(* The owner.                                                              *)

Posts ==
  /\ \E k \in Task : PostTask(Creator, k)
  /\ UNCHANGED <<latchVars, latchOwned>>

Waits ==
  /\ pc[Creator] = "idle" /\ Unposted = {}
  /\ L!Call(Creator)
  /\ UNCHANGED <<vars, latchOwned>>

IsWoken == L!WaiterStep(Creator) /\ UNCHANGED <<vars, latchOwned>>

ReleasesPool ==
  /\ Waited
  /\ Release(Creator)
  /\ UNCHANGED <<latchVars, latchOwned>>

(* Also when there is no pool.                                             *)
ReleasesLatch ==
  /\ latchOwned
  /\ \/ Waited /\ pc[Creator] \in {"idle", "gone"}
     \/ latchPC[Creator] = "idle" /\ pc[Creator] = "gone"
  /\ latchOwned' = FALSE
  /\ UNCHANGED <<vars, latchVars>>

OwnerStep == Posts \/ Waits \/ IsWoken \/ ReleasesPool \/ ReleasesLatch

-----------------------------------------------------------------------------
(* The task k on worker w: it counts down, then it returns to              *)
(* KWorkerPoolTaskExecute.                                                 *)

CountsDown(w) ==
  /\ pc[w] = "exec"
  /\ L!Call(current[w]) \/ L!CounterStep(current[w])
  /\ UNCHANGED <<vars, latchOwned>>

Returns(w) ==
  /\ pc[w] = "exec" /\ latchPC[current[w]] = "returned"
  /\ ExecuteTask(w)
  /\ UNCHANGED <<latchVars, latchOwned>>

TaskStep(w) == CountsDown(w) \/ Returns(w)

(* The library, between the tasks.                                         *)
PoolStep ==
  /\ NewStep \/ \E t \in Thread : PoolCall(t)
  /\ UNCHANGED <<latchVars, latchOwned>>

WorkerLoop(w) ==
  /\ WorkerEnter(w) \/ WorkerSleep(w) \/ WorkerWake(w) \/ WorkerTake(w)
  /\ UNCHANGED <<latchVars, latchOwned>>

Woken ==
  \/ L!Spurious(Creator) /\ UNCHANGED <<vars, latchOwned>>
  \/ \E w \in Worker : Spurious(w) /\ UNCHANGED <<latchVars, latchOwned>>

Over == Quiet /\ ~latchOwned /\ UNCHANGED allVars

PLNext ==
  \/ OwnerStep \/ PoolStep \/ Woken \/ Over
  \/ \E w \in Worker : TaskStep(w) \/ WorkerLoop(w)

PLSpec == PLInit /\ [][PLNext]_allVars

(* The owner is a program without choices, the threads run, and they are   *)
(* not woken for nothing for ever.                                         *)
PLFairSpec ==
  /\ PLSpec
  /\ WF_allVars(OwnerStep)
  /\ WF_allVars(NewStep /\ UNCHANGED <<latchVars, latchOwned>>)
  /\ \A t \in Thread :
       WF_allVars(PoolCall(t) /\ UNCHANGED <<latchVars, latchOwned>>)
  /\ \A w \in Worker : WF_allVars(TaskStep(w) \/ WorkerLoop(w))
  /\ <>[][~Woken]_allVars

-----------------------------------------------------------------------------
(* Properties.                                                             *)

(* KCountDownLatchCountDown goes on to KConditionVariableNotifyAll when    *)
(* the owner may have been woken already and have given the latch back:    *)
(* the reference of the task keeps it until the call has returned.         *)
LatchOutlivesItsUsers ==
  LatchFreed => \A t \in L!Thread : latchPC[t] \in {"idle", "returned"}

(* When KCountDownLatchWait returns no task is left in the pool, so none   *)
(* of them is dropped when the owner releases it.                          *)
NoTaskIsDropped ==
  /\ Waited => tasks = <<>> /\ Task = done \cup Executing
  /\ dropped = {}

(* The owner gets a pool and gives it back, and then all threads, the pool *)
(* and the latch are gone.                                                 *)
AllIsCollected == pool = "ready" ~> pool = "freed" /\ LatchFreed

=============================================================================
