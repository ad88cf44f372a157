----------------------------- MODULE KWorkerPool -----------------------------
(***************************************************************************)
(* The worker pool of kworker_pool.c: a fixed set of threads that take     *)
(* tasks from a list guarded by a condition variable.  Client threads post *)
(* tasks, shut the pool down and drop their references; the thread that    *)
(* drops the last reference runs KWorkerPoolDeInit.  Tasks may themselves  *)
(* post.                                                                   *)
(*                                                                         *)
(* One action is one critical section, one blocking call, or one stretch   *)
(* of code that touches nothing shared.                                    *)
(***************************************************************************)
EXTENDS KConditionVariable, Integers, Sequences, FiniteSets, Functions

CONSTANTS Client,          \* threads that use the pool
          Worker,          \* threads the pool is asked to create
          Task,            \* the tasks that may be posted, each at most once
          Creator,         \* the client that calls KWorkerPoolNew
          ShutdownCaller,  \* clients that may call KWorkerPoolShutdown
          PoolTask         \* tasks whose user_data is the pool itself

ASSUME PoolAssumption ==
  /\ Client \cap Worker = {}
  /\ Creator \in Client
  /\ ShutdownCaller \subseteq Client
  /\ PoolTask \subseteq Task
  /\ Client \cap Task = {}
  /\ None \notin Client \cup Worker \cup Task
  /\ IsFiniteSet(Worker) /\ Worker # {}

Thread == Client \cup Worker

VARIABLES pc,         \* where each thread is
          pool,       \* "building" inside KWorkerPoolNew, "ready", "freed"
          poolRefs,   \* who holds a reference on the pool object
          workers,    \* pool->workers
          tasks,      \* pool->tasks
          shutdown,   \* pool->shutdown
          running,    \* is_running of each worker
          current,    \* the task each worker took, or None
          posting,    \* the task each thread is posting, or None
          joined,     \* workers whose KThread has is_joined set
          joinIndex,  \* position of KArrayIterate in KWorkerPoolShutdown
          joining,    \* the worker each thread waits for in pthread_join
          userRefs,   \* references the pool holds on each task's user_data
          done,       \* tasks that were executed
          dropped,    \* tasks released without being executed
          backlog     \* history: what was queued when shutdown was set

poolVars == <<pool, poolRefs>>
taskVars == <<userRefs, done, dropped>>
joinVars == <<workers, joined, joinIndex, joining>>
vars == <<cvVars, pc, poolVars, joinVars, tasks, shutdown, running, current,
          posting, taskVars, backlog>>

Posting   == {posting[t] : t \in Thread} \ {None}
Executing == {current[w] : w \in Worker} \ {None}
InFlight  == Posting \cup Range(tasks) \cup Executing
Unposted  == Task \ (InFlight \cup done \cup dropped)

PoolPC == {"post_enter", "post_add", "post_notify", "shut_enter", "shut_set",
           "shut_notify", "shut_join", "shut_wait", "free"}
ClientPC == {"absent", "new", "idle", "gone"} \cup PoolPC
WorkerPC == {"unborn", "failed", "loop", "test", "wait", "exec", "exited"}
              \cup PoolPC

Goto(t, label) == pc' = [pc EXCEPT ![t] = label]

Init ==
  /\ CVInit
  /\ pc = [t \in Thread |-> IF t \in Worker THEN "unborn"
                            ELSE IF t = Creator THEN "new" ELSE "absent"]
  /\ pool = "building" /\ poolRefs = {Creator}
  /\ workers = <<>> /\ joined = {} /\ joinIndex = [t \in Thread |-> 0]
  /\ joining = [t \in Thread |-> None]
  /\ tasks = <<>> /\ shutdown = FALSE
  /\ running = [w \in Worker |-> TRUE]
  /\ current = [w \in Worker |-> None]
  /\ posting = [t \in Thread |-> None]
  /\ userRefs = [k \in Task |-> 0]
  /\ done = {} /\ dropped = {} /\ backlog = {}

-----------------------------------------------------------------------------
(* References on the pool.  Dropping the last one continues in             *)
(* KWorkerPoolDeInit, whose first act is KWorkerPoolShutdown.              *)

DropPoolRef(t, ref, label) ==
  /\ poolRefs' = poolRefs \ {ref}
  /\ Goto(t, IF poolRefs' = {} THEN "shut_enter" ELSE label)

(* A client hands the pool to another one with KWorkerPoolRetain.          *)
Retain(c, d) ==
  /\ pc[c] = "idle" /\ pc[d] = "absent"
  /\ poolRefs' = poolRefs \cup {d}
  /\ Goto(d, "idle")
  /\ UNCHANGED <<cvVars, pool, joinVars, tasks, shutdown, running, current,
                 posting, taskVars, backlog>>

(* KWorkerPoolRelease by a client, which does not use the pool afterwards. *)
Release(c) ==
  /\ pc[c] = "idle"
  /\ DropPoolRef(c, c, "gone")
  /\ UNCHANGED <<cvVars, pool, joinVars, tasks, shutdown, running, current,
                 posting, taskVars, backlog>>

-----------------------------------------------------------------------------
(* KWorkerPoolNew: the loop that creates the threads, and the length check *)
(* after it.  A pthread_create that fails leaves the loop running.         *)

SpawnWorker(w) ==
  /\ pc[Creator] = "new" /\ pc[w] = "unborn"
  /\ Goto(w, "loop")
  /\ workers' = Append(workers, w)
  /\ UNCHANGED <<cvVars, poolVars, joined, joinIndex, joining, tasks, shutdown,
                 running, current, posting, taskVars, backlog>>

SpawnFails(w) ==
  /\ pc[Creator] = "new" /\ pc[w] = "unborn"
  /\ Goto(w, "failed")
  /\ UNCHANGED <<cvVars, poolVars, joinVars, tasks, shutdown, running, current,
                 posting, taskVars, backlog>>

NewReturns ==
  /\ pc[Creator] = "new"
  /\ \A w \in Worker : pc[w] # "unborn"
  /\ \/ /\ Len(workers) = Cardinality(Worker)
        /\ pool' = "ready"
        /\ Goto(Creator, "idle")
        /\ UNCHANGED poolRefs
     \/ /\ Len(workers) # Cardinality(Worker)
        /\ DropPoolRef(Creator, Creator, "gone")
        /\ UNCHANGED pool
  /\ UNCHANGED <<cvVars, joinVars, tasks, shutdown, running, current, posting,
                 taskVars, backlog>>

-----------------------------------------------------------------------------
(* KWorkerPoolPostTask, called by a client or by the task a worker runs.   *)

InUserCode(t) == IF t \in Worker THEN pc[t] = "exec" ELSE pc[t] = "idle"

(* Only who holds a reference on an object may retain it for a task.       *)
OwnsPoolRef(t) == t \in Worker => current[t] \in PoolTask

(* The task object is built and user_data retained outside the lock.       *)
BorrowUserData(k) == userRefs' = userRefs
RetainUserData(k) == userRefs' = [userRefs EXCEPT ![k] = @ + 1]

PostTask(t, k) ==
  /\ InUserCode(t) /\ k \in Unposted
  /\ k \in PoolTask => OwnsPoolRef(t)
  /\ posting' = [posting EXCEPT ![t] = k]
  /\ RetainUserData(k)
  /\ poolRefs' = IF k \in PoolTask THEN poolRefs \cup {k} ELSE poolRefs
  /\ Goto(t, "post_enter")
  /\ UNCHANGED <<cvVars, pool, joinVars, tasks, shutdown, running, current,
                 done, dropped, backlog>>

PostEnter(t) ==
  /\ pc[t] = "post_enter"
  /\ CriticalSectionEnter(t)
  /\ Goto(t, "post_add")
  /\ UNCHANGED <<poolVars, joinVars, tasks, shutdown, running, current,
                 posting, taskVars, backlog>>

(* KListAddObject puts the task at the tail of the list.                   *)
EnqueueAtHead(k) == tasks' = <<k>> \o tasks
Enqueue(k) == tasks' = Append(tasks, k)

(* Nothing here looks at shutdown.                                         *)
PostAdd(t) ==
  /\ pc[t] = "post_add"
  /\ Enqueue(posting[t])
  /\ posting' = [posting EXCEPT ![t] = None]
  /\ CriticalSectionExit(t)
  /\ Goto(t, "post_notify")
  /\ UNCHANGED <<poolVars, joinVars, shutdown, running, current, taskVars,
                 backlog>>

(* The notification comes after the critical section.                      *)
WakeNobody == UNCHANGED cvVars
WakeAWorker == NotifyOne

PostNotify(t) ==
  /\ pc[t] = "post_notify"
  /\ WakeAWorker
  /\ Goto(t, IF t \in Worker THEN "exec" ELSE "idle")
  /\ UNCHANGED <<poolVars, joinVars, tasks, shutdown, running, current,
                 posting, taskVars, backlog>>

-----------------------------------------------------------------------------
(* KWorkerPoolWorkerMain.                                                  *)

PredicateWithoutShutdown == tasks = <<>>
KWorkerPoolCVPredicate == tasks = <<>> /\ ~shutdown

(* The critical section begins by reading shutdown.                        *)
WorkerEnter(w) ==
  /\ pc[w] = "loop"
  /\ CriticalSectionEnter(w)
  /\ running' = [running EXCEPT ![w] = @ /\ ~shutdown]
  /\ Goto(w, "test")
  /\ UNCHANGED <<poolVars, joinVars, tasks, shutdown, current, posting,
                 taskVars, backlog>>

WorkerSleep(w) ==
  /\ pc[w] = "test"
  /\ KWorkerPoolCVPredicate
  /\ WaitBlock(w)
  /\ Goto(w, "wait")
  /\ UNCHANGED <<poolVars, joinVars, tasks, shutdown, running, current,
                 posting, taskVars, backlog>>

WorkerWake(w) ==
  /\ pc[w] = "wait"
  /\ WaitReturn(w)
  /\ Goto(w, "test")
  /\ UNCHANGED <<poolVars, joinVars, tasks, shutdown, running, current,
                 posting, taskVars, backlog>>

(* Where the worker goes at the end of an iteration of its loop: is_running *)
(* is what it read when the iteration began.                               *)
LeaveAtOnce(w) == IF shutdown THEN "exited" ELSE "loop"
AfterIteration(w) == IF running[w] THEN "loop" ELSE "exited"

(* KListRemoveObjectAtIndex(tasks, 0): NULL when the list is empty.        *)
PeekOnly == tasks' = tasks
RemoveFirst == tasks' = Tail(tasks)

WorkerTake(w) ==
  /\ pc[w] = "test"
  /\ ~KWorkerPoolCVPredicate
  /\ CriticalSectionExit(w)
  /\ \/ /\ tasks # <<>>
        /\ current' = [current EXCEPT ![w] = Head(tasks)]
        /\ RemoveFirst
        /\ Goto(w, "exec")
     \/ /\ tasks = <<>>
        /\ Goto(w, AfterIteration(w))
        /\ UNCHANGED <<current, tasks>>
  /\ UNCHANGED <<poolVars, joinVars, shutdown, running, posting, taskVars,
                 backlog>>

(* KWorkerPoolTaskExecute returns from the task, releases user_data and    *)
(* clears the task, so that its DeInit finds nothing to release.           *)
KeepTask(w) == UNCHANGED current
ClearTask(w) == current' = [current EXCEPT ![w] = None]
ReleaseTwice(k) == userRefs' = [userRefs EXCEPT ![k] = @ - 2]
ReleaseUserData(k) == userRefs' = [userRefs EXCEPT ![k] = @ - 1]

ExecuteTask(w) ==
  LET k == current[w] IN
  /\ pc[w] = "exec"
  /\ ClearTask(w)
  /\ ReleaseUserData(k)
  /\ done' = done \cup {k}
  /\ \/ k \in PoolTask /\ DropPoolRef(w, k, AfterIteration(w))
     \/ k \notin PoolTask /\ Goto(w, AfterIteration(w)) /\ UNCHANGED poolRefs
  /\ UNCHANGED <<cvVars, pool, joinVars, tasks, shutdown, running, posting,
                 dropped, backlog>>

-----------------------------------------------------------------------------
(* KWorkerPoolShutdown, called by a client or from KWorkerPoolDeInit.  A   *)
(* thread is in the latter exactly when no reference is left.              *)

Shutdown(c) ==
  /\ c \in ShutdownCaller /\ pc[c] = "idle"
  /\ Goto(c, "shut_enter")
  /\ UNCHANGED <<cvVars, poolVars, joinVars, tasks, shutdown, running, current,
                 posting, taskVars, backlog>>

ShutEnter(t) ==
  /\ pc[t] = "shut_enter"
  /\ CriticalSectionEnter(t)
  /\ Goto(t, "shut_set")
  /\ UNCHANGED <<poolVars, joinVars, tasks, shutdown, running, current,
                 posting, taskVars, backlog>>

ShutSet(t) ==
  /\ pc[t] = "shut_set"
  /\ shutdown' = TRUE
  /\ backlog' = IF shutdown THEN backlog ELSE Range(tasks)
  /\ CriticalSectionExit(t)
  /\ Goto(t, "shut_notify")
  /\ UNCHANGED <<poolVars, joinVars, tasks, running, current, posting,
                 taskVars>>

WakeOneOfThem == NotifyOne
WakeEveryWorker == NotifyAll

ShutNotify(t) ==
  /\ pc[t] = "shut_notify"
  /\ WakeEveryWorker
  /\ joinIndex' = [joinIndex EXCEPT ![t] = 1]
  /\ Goto(t, "shut_join")
  /\ UNCHANGED <<poolVars, workers, joined, joining, tasks, shutdown, running,
                 current, posting, taskVars, backlog>>

(* KWorkerJoinIterator always asks for the next element.                   *)
StopIterating(t) == Len(workers) + 1
NextIndex(t) == joinIndex[t] + 1

(* KThreadJoin of the next worker of the array, unless it was joined.      *)
ShutJoin(t) ==
  LET w == workers[joinIndex[t]] IN
  /\ pc[t] = "shut_join"
  /\ joinIndex[t] <= Len(workers)
  /\ joinIndex' = [joinIndex EXCEPT ![t] = NextIndex(t)]
  /\ \/ w \in joined /\ UNCHANGED <<pc, joining>>
     \/ /\ w \notin joined
        /\ joining' = [joining EXCEPT ![t] = w]
        /\ Goto(t, "shut_wait")
  /\ UNCHANGED <<cvVars, poolVars, workers, joined, tasks, shutdown, running,
                 current, posting, taskVars, backlog>>

(* pthread_join returns when the worker has ended.  A thread that joins    *)
(* itself gets EDEADLK, which KThreadJoin ignores.  Two threads that join  *)
(* the same worker are undefined behaviour: one may be turned away.        *)
JoinAtOnce(t, w) == TRUE
JoinReturns(t, w) == \/ pc[w] = "exited"
                     \/ w = t
                     \/ \E u \in Thread \ {t} : joining[u] = w

ShutJoined(t) ==
  /\ pc[t] = "shut_wait"
  /\ JoinReturns(t, joining[t])
  /\ joined' = joined \cup {joining[t]}
  /\ joining' = [joining EXCEPT ![t] = None]
  /\ Goto(t, "shut_join")
  /\ UNCHANGED <<cvVars, poolVars, workers, joinIndex, tasks, shutdown, running,
                 current, posting, taskVars, backlog>>

(* KArrayRemoveAllObjects, and the return.                                 *)
ShutDone(t) ==
  /\ pc[t] = "shut_join"
  /\ joinIndex[t] > Len(workers)
  /\ workers' = <<>>
  /\ joinIndex' = [joinIndex EXCEPT ![t] = 0]
  /\ Goto(t, IF poolRefs = {} THEN "free" ELSE "idle")
  /\ UNCHANGED <<cvVars, poolVars, joined, joining, tasks, shutdown, running,
                 current, posting, taskVars, backlog>>

(* The rest of KWorkerPoolDeInit: releasing the list runs                  *)
(* KWorkerPoolTaskDeInit on what is left in it.                            *)
Free(t) ==
  /\ pc[t] = "free"
  /\ pool' = "freed"
  /\ tasks' = <<>>
  /\ dropped' = dropped \cup Range(tasks)
  /\ userRefs' = [k \in Task |-> IF k \in Range(tasks) THEN userRefs[k] - 1
                                                        ELSE userRefs[k]]
  /\ Goto(t, IF t \in Worker THEN AfterIteration(t) ELSE "gone")
  /\ UNCHANGED <<cvVars, poolRefs, joinVars, shutdown, running, current,
                 posting, done, backlog>>

-----------------------------------------------------------------------------
(* A worker woken without a notification.                                  *)
Spurious(w) ==
  /\ SpuriousWakeup(w)
  /\ UNCHANGED <<pc, poolVars, joinVars, tasks, shutdown, running, current,
                 posting, taskVars, backlog>>

(* No client is left and every worker has ended.                           *)
Quiet == /\ \A c \in Client : pc[c] \in {"absent", "gone"}
         /\ \A w \in Worker : pc[w] \in {"failed", "exited"}

Terminated == Quiet /\ UNCHANGED vars

NewStep == NewReturns \/ \E w \in Worker : SpawnWorker(w) \/ SpawnFails(w)
PoolCall(t) == \/ PostEnter(t) \/ PostAdd(t) \/ PostNotify(t)
               \/ ShutEnter(t) \/ ShutSet(t) \/ ShutNotify(t)
               \/ ShutJoin(t) \/ ShutJoined(t) \/ ShutDone(t) \/ Free(t)
WorkerStep(w) == \/ WorkerEnter(w) \/ WorkerSleep(w) \/ WorkerWake(w)
                 \/ WorkerTake(w) \/ ExecuteTask(w)
ClientChoice(c) == Release(c) \/ Shutdown(c) \/ \E d \in Client : Retain(c, d)

Next ==
  \/ NewStep
  \/ \E t \in Thread : PoolCall(t) \/ \E k \in Task : PostTask(t, k)
  \/ \E w \in Worker : WorkerStep(w) \/ Spurious(w)
  \/ \E c \in Client : ClientChoice(c)
  \/ Terminated

Spec == Init /\ [][Next]_vars

(* Every thread the scheduler runs keeps going, a task returns, the waits  *)
(* are not woken for nothing for ever, and no client shuts the pool down   *)
(* again and again for ever, which could keep the lock from the others.  A *)
(* client is never obliged to post, to shut the pool down or to release it. *)
FairSpec ==
  /\ Spec
  /\ WF_vars(NewStep)
  /\ \A t \in Thread : WF_vars(PoolCall(t))
  /\ \A w \in Worker : WF_vars(WorkerStep(w))
  /\ <>[][\A w \in Worker : ~Spurious(w)]_vars
  /\ <>[][\A c \in Client : ~Shutdown(c)]_vars

-----------------------------------------------------------------------------
(* Properties.                                                             *)

VariableTypes ==
  /\ CVTypeOK(Thread)
  /\ pc \in [Thread -> ClientPC \cup WorkerPC]
  /\ pool \in {"building", "ready", "freed"}
  /\ poolRefs \subseteq Client \cup Task
  /\ workers \in Seq(Worker) /\ joined \subseteq Worker
  /\ joinIndex \in [Thread -> Nat]
  /\ joining \in [Thread -> Worker \cup {None}]
  /\ tasks \in Seq(Task) /\ shutdown \in BOOLEAN
  /\ running \in [Worker -> BOOLEAN]
  /\ current \in [Worker -> Task \cup {None}]
  /\ posting \in [Thread -> Task \cup {None}]
  /\ userRefs \in [Task -> Int]
  /\ done \subseteq Task /\ dropped \subseteq Task /\ backlog \subseteq Task

LocalState(t) ==
  /\ t \in Client => pc[t] \in ClientPC
  /\ t \in Worker => pc[t] \in WorkerPC
  /\ posting[t] # None <=> pc[t] \in {"post_enter", "post_add"}
  /\ joining[t] # None <=> pc[t] = "shut_wait"
  /\ pc[t] \in {"shut_join", "shut_wait"} => joinIndex[t] > 0
  /\ t \in Worker =>
       (current[t] # None <=> pc[t] \in {"exec", "post_enter", "post_add",
                                         "post_notify"})

(* Every variable has its type; a thread is inside KWorkerPoolPostTask     *)
(* with a task exactly when it has one to enqueue, a worker runs user code *)
(* exactly when it took a task from the list, and a thread waits in        *)
(* pthread_join exactly for the worker it joins.                           *)
TypeOK == VariableTypes /\ \A t \in Thread : LocalState(t)

(* KWorkerPoolDeInit frees the condition variable, the array and the list  *)
(* only when no thread can use them any more: no client is inside a call,  *)
(* every worker has left its loop, and nobody holds or waits for the lock. *)
NoUseAfterFree ==
  pool = "freed" => Quiet /\ holder = None /\ asleep = {}

Awake(w) == pc[w] \notin {"unborn", "failed", "exited"} /\ w \notin asleep

(* The next step of a thread inside of the pool can be taken: it does not  *)
(* wait for the lock, for a notification, or for the worker it joins.      *)
GoesOn(t) ==
  \/ pc[t] \in {"new", "post_notify", "exec", "shut_notify", "shut_join", "free"}
  \/ pc[t] \in {"post_add", "shut_set", "test"} /\ holder = t
  \/ pc[t] \in {"post_enter", "shut_enter", "loop"} /\ holder = None
  \/ pc[t] = "wait" /\ t \notin asleep /\ holder = None
  \/ pc[t] = "shut_wait" /\ JoinReturns(t, joining[t])

TasksWait == pool = "ready" /\ tasks # <<>> /\ ~shutdown

(* While somebody is inside of a call, or a task waits for a worker,       *)
(* somebody can go on: threads that post, shut the pool down, collect it   *)
(* and join its workers do not all wait for each other.                    *)
NobodyIsStuck ==
  (\E t \in Thread : pc[t] \in PoolPC) \/ TasksWait => \E t \in Thread : GoesOn(t)

(* The notifications are sent after the critical section.  None is lost:   *)
(* while tasks wait and the pool is not shut down, a worker is awake or a  *)
(* KConditionVariableNotifyOne is still to come; once it is shut down,     *)
(* nobody sleeps unless the KConditionVariableNotifyAll is still to come.  *)
(* So everything does not come to a halt before all calls have returned.   *)
NoLostWakeup ==
  /\ TasksWait => \/ \E w \in Worker : Awake(w)
                  \/ \E t \in Thread : pc[t] = "post_notify"
  /\ (shutdown /\ asleep # {}) => \E t \in Thread : pc[t] = "shut_notify"
  /\ NobodyIsStuck

OneHolder ==
  /\ IsInjective(tasks)
  /\ \A t, u \in Thread : posting[t] = posting[u] => t = u \/ posting[t] = None
  /\ \A v, w \in Worker : current[v] = current[w] => v = w \/ current[v] = None

OnePlace ==
  /\ Posting \cap (Range(tasks) \cup Executing \cup done \cup dropped) = {}
  /\ Range(tasks) \cap (Executing \cup done \cup dropped) = {}
  /\ Executing \cap (done \cup dropped) = {}
  /\ done \cap dropped = {}

(* A posted task is at one place at a time: being posted by one thread,    *)
(* once in the list, executing on one worker, executed, or dropped.        *)
EachTaskOnce == OneHolder /\ OnePlace

(* The pool holds one reference on the user_data of a task from            *)
(* KWorkerPoolPostTask until the task has been executed or dropped, and    *)
(* none afterwards, whichever of the two happens.                          *)
UserDataBalanced ==
  \A k \in Task : userRefs[k] = IF k \in InFlight THEN 1 ELSE 0

(* A worker that finds the pool shut down still takes one more task, so    *)
(* tasks queued at that moment are only dropped when there are more of     *)
(* them than workers, and then every worker has executed one of them.      *)
BacklogDrained ==
  backlog \cap dropped # {} =>
    Cardinality(backlog \cap done) >= Cardinality(Worker)

(* When KWorkerPoolShutdown has emptied the array of workers, and will     *)
(* return that they were joined, all the threads in it have ended.         *)
ShutdownQuiesces ==
  shutdown /\ workers = <<>> =>
    \A w \in Worker : pc[w] \in {"failed", "exited"}

(* A pool that has been freed has had all its threads joined.              *)
CollectedMeansJoined ==
  pool = "freed" => \A w \in Worker : pc[w] \in {"failed", "exited"}

Phase == IF pool = "freed" THEN "collected"
         ELSE IF shutdown THEN "stopped" ELSE "running"

Service == INSTANCE TaskService WITH
             Capacity <- Cardinality(Worker), phase <- Phase, queue <- tasks,
             active <- Executing, finished <- done, discarded <- dropped

(* To its clients the pool is a first come, first served task service.     *)
ImplementsTaskService == Service!Spec

(* A task that is posted is executed, unless the pool is shut down.        *)
PostedIsExecuted == \A k \in Task : k \in InFlight ~> k \in done \/ shutdown

(* KWorkerPoolShutdown and KWorkerPoolDeInit return: every worker wakes,   *)
(* finishes and is joined.                                                 *)
ShutdownReturns ==
  \A t \in Thread : pc[t] = "shut_enter" ~> pc[t] \in {"idle", "gone", "exited"}

=============================================================================
