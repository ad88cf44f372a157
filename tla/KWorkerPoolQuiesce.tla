------------------------- MODULE KWorkerPoolQuiesce -------------------------
(***************************************************************************)
(* What KWorkerPoolShutdown and KWorkerPoolDeInit promise about the        *)
(* threads and the tasks that wait, and with it that the pool is a         *)
(* TaskService, proved for the uses of the pool in which it holds: at most *)
(* one client calls KWorkerPoolShutdown, and no task owns the pool, so     *)
(* that a worker never drops the last reference.  Without the second assumption   *)
(* TLC finds the counterexample of MCPoolSelfJoin.cfg; without the first,  *)
(* with ShutdownCaller = {c1, c2}, one to ShutdownQuiesces.                *)
(***************************************************************************)
EXTENDS KWorkerPoolProofs

SingleShutdown == PoolTask = {} /\ \A c, d \in ShutdownCaller : c = d

(* At most one thread is inside KWorkerPoolShutdown or KWorkerPoolDeInit.   *)
OneStopper ==
  /\ \A t, u \in Thread : pc[t] \in Stopping /\ pc[u] \in Stopping => t = u
  /\ \A t \in Thread : pc[t] \in Stopping => t \in ShutdownCaller \/ poolRefs = {}
  /\ \A w \in Worker : pc[w] \notin Stopping

(* The workers before the position of KArrayIterate were joined, and were  *)
(* joined for a reason.                                                    *)
JoinInv ==
  /\ \A t \in Thread : pc[t] \in {"shut_join", "shut_wait"} =>
       \A i \in 1 .. Len(workers) : i < joinIndex[t] =>
         workers[i] = joining[t] \/ pc[workers[i]] = "exited"
  /\ \A w \in joined : pc[w] = "exited"
  /\ \A w \in Born : w \in Range(workers) \/ pc[w] = "exited"

(* The flag is set once construction is over, before anything is joined.   *)
ShutdownInv ==
  /\ \A w \in Worker : pc[w] = "unborn" => pc[Creator] = "new"
  /\ \A t \in Thread :
       pc[t] \in {"shut_notify", "shut_join", "shut_wait", "free"} => shutdown
  /\ shutdown => pc[Creator] # "new"
  /\ \A t \in Thread : pc[t] = "free" => \A w \in Worker : pc[w] \in {"failed", "exited"}

USE PoolAssumption DEF Thread

LEMMA WorkerKeepsRunning ==
  ASSUME SingleShutdown, TypeOK, NEW w \in Worker, WorkerTake(w) \/ ExecuteTask(w)
  PROVE  /\ pc[w] \in {"test", "exec"}
         /\ \E l \in {"exec", "loop", "exited"} : pc' = [pc EXCEPT ![w] = l]
         /\ UNCHANGED <<pool, poolRefs, workers, joined, joinIndex, joining, shutdown>>
<1>1. CASE WorkerTake(w)
  BY <1>1 DEF WorkerTake, AfterIteration, Goto, poolVars, joinVars
<1>2. CASE ExecuteTask(w)
  BY <1>2 DEF ExecuteTask, AfterIteration, Goto, SingleShutdown, joinVars
<1> QED BY <1>1, <1>2

LEMMA OneStopperStep ==
  ASSUME SingleShutdown, TypeOK, RefsInv, Building, OneStopper, Next
  PROVE  OneStopper'
<1> VariableTypes /\ \A t \in Thread : LocalState(t) BY DEF TypeOK
<1> RefsUsers BY DEF RefsInv
<1> USE DEF SingleShutdown, VariableTypes, RefsUsers, OneStopper, Stopping, ShutPC, Goto, poolVars
<1>1. ASSUME NEW c \in Client, NEW d \in Client, Retain(c, d) PROVE OneStopper'
  BY <1>1 DEF Retain
<1>2. ASSUME NEW c \in Client, Release(c) PROVE OneStopper'
  <2>1. /\ pc[c] = "idle" /\ poolRefs' = poolRefs \ {c} /\ c \in poolRefs
        /\ pc' = [pc EXCEPT ![c] = IF poolRefs' = {} THEN "shut_enter" ELSE "gone"]
    BY <1>2 DEF Release, DropPoolRef
  <2>2. ASSUME poolRefs' = {}, NEW t \in Thread PROVE pc[t] \notin Stopping
    BY <2>1, <2>2
  <2>3. CASE poolRefs' = {} BY <2>1, <2>2, <2>3
  <2>4. CASE poolRefs' # {} BY <2>1, <2>4
  <2> QED BY <2>3, <2>4
<1>3. ASSUME NEW w \in Worker, SpawnWorker(w) PROVE OneStopper'
  BY <1>3 DEF SpawnWorker
<1>4. ASSUME NEW w \in Worker, SpawnFails(w) PROVE OneStopper'
  BY <1>4 DEF SpawnFails
<1>5. ASSUME NewReturns PROVE OneStopper'
  <2>1. PICK l \in {"idle", "shut_enter", "gone"} :
          /\ pc' = [pc EXCEPT ![Creator] = l]
          /\ l = "shut_enter" => poolRefs' = {}
          /\ poolRefs' = poolRefs \/ poolRefs' = {}
    BY <1>5 DEF NewReturns, DropPoolRef, Building
  <2>2. \A t \in Thread : pc[t] \notin Stopping
    <3>1. pc[Creator] = "new" /\ Creator \in poolRefs /\ poolRefs \subseteq {Creator}
      BY <1>5 DEF NewReturns, Building
    <3>2. \A t \in Thread \ {Creator} : t \notin poolRefs BY <3>1
    <3>3. \A t \in Thread : pc[t] # "free" BY <3>1
    <3>4. \A t \in Client \ {Creator} : pc[t] \notin ShutPC BY <3>1, <3>2
    <3>5. \A w \in Worker : pc[w] \notin ShutPC BY <3>1
    <3>6. pc[Creator] \notin ShutPC BY <3>1
    <3> QED BY <3>3, <3>4, <3>5, <3>6
  <2> QED BY <2>1, <2>2
<1>6. ASSUME NEW t \in Thread, NEW k \in Task, PostTask(t, k) PROVE OneStopper'
  BY <1>6 DEF PostTask, InUserCode
<1>7. ASSUME NEW t \in Thread, PostEnter(t) PROVE OneStopper'
  BY <1>7 DEF PostEnter, CriticalSectionEnter
<1>8. ASSUME NEW t \in Thread, PostAdd(t) PROVE OneStopper'
  BY <1>8 DEF PostAdd, CriticalSectionExit, Enqueue
<1>9. ASSUME NEW t \in Thread, PostNotify(t) PROVE OneStopper'
  BY <1>9 DEF PostNotify, WakeAWorker, NotifyOne
<1>10. ASSUME NEW w \in Worker, WorkerEnter(w) PROVE OneStopper'
  BY <1>10 DEF WorkerEnter, CriticalSectionEnter
<1>11. ASSUME NEW w \in Worker, WorkerSleep(w) PROVE OneStopper'
  BY <1>11 DEF WorkerSleep, WaitBlock, KWorkerPoolCVPredicate
<1>12. ASSUME NEW w \in Worker, WorkerWake(w) PROVE OneStopper'
  BY <1>12 DEF WorkerWake, WaitReturn, CriticalSectionEnter
<1>13. ASSUME NEW w \in Worker, WorkerTake(w) PROVE OneStopper'
  <2>1. /\ pc[w] \in {"test", "exec"}
        /\ UNCHANGED <<pool, poolRefs, workers, joined, joinIndex, joining, shutdown>>
    BY <1>13, WorkerKeepsRunning
  <2>2. PICK l \in {"exec", "loop", "exited"} : pc' = [pc EXCEPT ![w] = l]
    BY <1>13, WorkerKeepsRunning
  <2> QED BY <2>1, <2>2
<1>14. ASSUME NEW w \in Worker, ExecuteTask(w) PROVE OneStopper'
  <2>1. /\ pc[w] \in {"test", "exec"}
        /\ UNCHANGED <<pool, poolRefs, workers, joined, joinIndex, joining, shutdown>>
    BY <1>14, WorkerKeepsRunning
  <2>2. PICK l \in {"exec", "loop", "exited"} : pc' = [pc EXCEPT ![w] = l]
    BY <1>14, WorkerKeepsRunning
  <2> QED BY <2>1, <2>2
<1>15. ASSUME NEW c \in Client, Shutdown(c) PROVE OneStopper'
  BY <1>15 DEF Shutdown
<1>16. ASSUME NEW t \in Thread, ShutEnter(t) PROVE OneStopper'
  BY <1>16 DEF ShutEnter, CriticalSectionEnter
<1>17. ASSUME NEW t \in Thread, ShutSet(t) PROVE OneStopper'
  BY <1>17 DEF ShutSet, CriticalSectionExit
<1>18. ASSUME NEW t \in Thread, ShutNotify(t) PROVE OneStopper'
  BY <1>18 DEF ShutNotify, WakeEveryWorker, NotifyAll
<1>19. ASSUME NEW t \in Thread, ShutJoin(t) PROVE OneStopper'
  BY <1>19 DEF ShutJoin, NextIndex
<1>20. ASSUME NEW t \in Thread, ShutJoined(t) PROVE OneStopper'
  BY <1>20 DEF ShutJoined
<1>21. ASSUME NEW t \in Thread, ShutDone(t) PROVE OneStopper'
  BY <1>21 DEF ShutDone
<1>22. ASSUME NEW t \in Thread, Free(t) PROVE OneStopper'
  BY <1>22 DEF Free, AfterIteration
<1>23. ASSUME NEW w \in Worker, Spurious(w) PROVE OneStopper'
  BY <1>23 DEF Spurious, SpuriousWakeup
<1>24. CASE Terminated BY <1>24 DEF Terminated, vars
<1> QED BY <1>1, <1>2, <1>3, <1>4, <1>5, <1>6, <1>7, <1>8, <1>9, <1>10,
  <1>11, <1>12, <1>13, <1>14, <1>15, <1>16, <1>17, <1>18, <1>19, <1>20,
  <1>21, <1>22, <1>23, <1>24 DEF Next, NewStep, PoolCall, WorkerStep,
  ClientChoice

LEMMA ShutdownStep ==
  ASSUME SingleShutdown, TypeOK, RefsInv, Building, OneStopper, JoinInv, ShutdownInv, Next
  PROVE  ShutdownInv'
<1> VariableTypes /\ \A t \in Thread : LocalState(t) BY DEF TypeOK
<1> USE DEF VariableTypes, ShutdownInv, Goto
<1>1. ASSUME NEW c \in Client, NEW d \in Client, Retain(c, d) PROVE ShutdownInv'
  BY <1>1 DEF Retain
<1>2. ASSUME NEW c \in Client, Release(c) PROVE ShutdownInv'
  BY <1>2 DEF Release, DropPoolRef
<1>3. ASSUME NEW w \in Worker, SpawnWorker(w) PROVE ShutdownInv'
  BY <1>3 DEF SpawnWorker
<1>4. ASSUME NEW w \in Worker, SpawnFails(w) PROVE ShutdownInv'
  BY <1>4 DEF SpawnFails
<1>5. ASSUME NewReturns PROVE ShutdownInv'
  BY <1>5 DEF NewReturns, DropPoolRef
<1>6. ASSUME NEW t \in Thread, NEW k \in Task, PostTask(t, k) PROVE ShutdownInv'
  BY <1>6 DEF PostTask, InUserCode
<1>7. ASSUME NEW t \in Thread, PostEnter(t) PROVE ShutdownInv'
  BY <1>7 DEF PostEnter, CriticalSectionEnter
<1>8. ASSUME NEW t \in Thread, PostAdd(t) PROVE ShutdownInv'
  BY <1>8 DEF PostAdd, CriticalSectionExit, Enqueue
<1>9. ASSUME NEW t \in Thread, PostNotify(t) PROVE ShutdownInv'
  BY <1>9 DEF PostNotify, WakeAWorker, NotifyOne
<1>10. ASSUME NEW w \in Worker, WorkerEnter(w) PROVE ShutdownInv'
  BY <1>10 DEF WorkerEnter, CriticalSectionEnter
<1>11. ASSUME NEW w \in Worker, WorkerSleep(w) PROVE ShutdownInv'
  BY <1>11 DEF WorkerSleep, WaitBlock, KWorkerPoolCVPredicate
<1>12. ASSUME NEW w \in Worker, WorkerWake(w) PROVE ShutdownInv'
  BY <1>12 DEF WorkerWake, WaitReturn, CriticalSectionEnter
<1>13. ASSUME NEW w \in Worker, WorkerTake(w) PROVE ShutdownInv'
  <2>1. /\ pc[w] \in {"test", "exec"}
        /\ UNCHANGED <<pool, poolRefs, workers, joined, joinIndex, joining, shutdown>>
    BY <1>13, WorkerKeepsRunning
  <2>2. PICK l \in {"exec", "loop", "exited"} : pc' = [pc EXCEPT ![w] = l]
    BY <1>13, WorkerKeepsRunning
  <2> QED BY <2>1, <2>2
<1>14. ASSUME NEW w \in Worker, ExecuteTask(w) PROVE ShutdownInv'
  <2>1. /\ pc[w] \in {"test", "exec"}
        /\ UNCHANGED <<pool, poolRefs, workers, joined, joinIndex, joining, shutdown>>
    BY <1>14, WorkerKeepsRunning
  <2>2. PICK l \in {"exec", "loop", "exited"} : pc' = [pc EXCEPT ![w] = l]
    BY <1>14, WorkerKeepsRunning
  <2> QED BY <2>1, <2>2
<1>15. ASSUME NEW c \in Client, Shutdown(c) PROVE ShutdownInv'
  BY <1>15 DEF Shutdown
<1>16. ASSUME NEW t \in Thread, ShutEnter(t) PROVE ShutdownInv'
  BY <1>16 DEF ShutEnter, CriticalSectionEnter
<1>17. ASSUME NEW t \in Thread, ShutSet(t) PROVE ShutdownInv'
  <2>1. /\ pc[t] = "shut_set" /\ pc' = [pc EXCEPT ![t] = "shut_notify"] /\ shutdown'
    BY <1>17 DEF ShutSet
  <2>2. pc[Creator] # "new"
    <3> SUFFICES ASSUME pc[Creator] = "new" PROVE FALSE OBVIOUS
    <3>1. Creator \in poolRefs /\ poolRefs \subseteq {Creator} /\ t # Creator
      BY <2>1 DEF RefsInv, RefsUsers, Building
    <3>2. t \notin poolRefs /\ poolRefs # {} BY <3>1
    <3> QED BY <2>1, <3>1, <3>2 DEF OneStopper, Stopping, ShutPC, RefsInv, RefsUsers
  <2>3. \A u \in Thread : pc'[u] # "free"
    BY <2>1 DEF OneStopper, Stopping, ShutPC
  <2> QED BY <2>1, <2>2, <2>3
<1>18. ASSUME NEW t \in Thread, ShutNotify(t) PROVE ShutdownInv'
  BY <1>18 DEF ShutNotify, WakeEveryWorker, NotifyAll
<1>19. ASSUME NEW t \in Thread, ShutJoin(t) PROVE ShutdownInv'
  BY <1>19 DEF ShutJoin, NextIndex
<1>20. ASSUME NEW t \in Thread, ShutJoined(t) PROVE ShutdownInv'
  BY <1>20 DEF ShutJoined
<1>21. ASSUME NEW t \in Thread, ShutDone(t) PROVE ShutdownInv'
  <2>1. /\ pc[t] = "shut_join" /\ joinIndex[t] > Len(workers) /\ shutdown' = shutdown
        /\ pc' = [pc EXCEPT ![t] = IF poolRefs = {} THEN "free" ELSE "idle"]
    BY <1>21 DEF ShutDone
  <2>2. joining[t] = None
    BY <2>1 DEF LocalState
  <2>3. ASSUME NEW w \in Worker PROVE pc[w] \in {"failed", "exited"}
    <3>1. CASE w \in Born
      <4>1. CASE w \in Range(workers)
        <5>1. PICK i \in 1 .. Len(workers) : workers[i] = w BY <4>1 DEF Range
        <5>2. i < joinIndex[t] BY <2>1, <5>1
        <5>3. workers[i] # joining[t] BY <2>2, <5>1
        <5> QED BY <2>1, <5>1, <5>2, <5>3 DEF JoinInv
      <4> QED BY <3>1, <4>1 DEF JoinInv
    <3>2. CASE w \notin Born
      BY <2>1, <3>2 DEF Born
    <3> QED BY <3>1, <3>2
  <2> QED BY <2>1, <2>3
<1>22. ASSUME NEW t \in Thread, Free(t) PROVE ShutdownInv'
  BY <1>22 DEF Free, AfterIteration
<1>23. ASSUME NEW w \in Worker, Spurious(w) PROVE ShutdownInv'
  BY <1>23 DEF Spurious, SpuriousWakeup
<1>24. CASE Terminated BY <1>24 DEF Terminated, vars
<1> QED BY <1>1, <1>2, <1>3, <1>4, <1>5, <1>6, <1>7, <1>8, <1>9, <1>10,
  <1>11, <1>12, <1>13, <1>14, <1>15, <1>16, <1>17, <1>18, <1>19, <1>20,
  <1>21, <1>22, <1>23, <1>24 DEF Next, NewStep, PoolCall, WorkerStep,
  ClientChoice

LEMMA JoinStep ==
  ASSUME SingleShutdown, TypeOK, RefsInv, Building, Spawned, OneStopper, JoinInv, Next
  PROVE  JoinInv'
<1> VariableTypes /\ \A t \in Thread : LocalState(t) BY DEF TypeOK
<1> USE DEF VariableTypes, JoinInv, Born, Goto, joinVars
<1>1. ASSUME NEW c \in Client, NEW d \in Client, Retain(c, d) PROVE JoinInv'
  BY <1>1 DEF Retain
<1>2. ASSUME NEW c \in Client, Release(c) PROVE JoinInv'
  BY <1>2 DEF Release, DropPoolRef
<1>3. ASSUME NEW w \in Worker, SpawnWorker(w) PROVE JoinInv'
  <2>1. /\ pc[Creator] = "new" /\ pc[w] = "unborn" /\ pc' = [pc EXCEPT ![w] = "loop"]
        /\ workers' = Append(workers, w) /\ UNCHANGED <<joined, joinIndex, joining>>
    BY <1>3 DEF SpawnWorker
  <2>2. ASSUME NEW t \in Thread PROVE pc[t] \notin {"shut_join", "shut_wait"}
    <3> SUFFICES ASSUME pc[t] \in {"shut_join", "shut_wait"} PROVE FALSE OBVIOUS
    <3>1. Creator \in poolRefs /\ poolRefs \subseteq {Creator} /\ t # Creator
      BY <2>1 DEF RefsInv, RefsUsers, Building
    <3>2. t \notin poolRefs /\ poolRefs # {} BY <3>1
    <3> QED BY <2>1, <3>1, <3>2 DEF OneStopper, Stopping, ShutPC, RefsInv, RefsUsers
  <2>3. w \notin Range(workers) BY <2>1 DEF Spawned
  <2>4. Range(workers') = Range(workers) \cup {w}
    BY <2>1, <2>3, RangeOfAppend DEF Spawned
  <2> QED BY <2>1, <2>2, <2>4
<1>4. ASSUME NEW w \in Worker, SpawnFails(w) PROVE JoinInv'
  BY <1>4 DEF SpawnFails
<1>5. ASSUME NewReturns PROVE JoinInv'
  <2>1. PICK l \in {"idle", "shut_enter", "gone"} :
          pc' = [pc EXCEPT ![Creator] = l] /\ UNCHANGED joinVars
    BY <1>5 DEF NewReturns, DropPoolRef
  <2> QED BY <2>1
<1>6. ASSUME NEW t \in Thread, NEW k \in Task, PostTask(t, k) PROVE JoinInv'
  BY <1>6 DEF PostTask, InUserCode
<1>7. ASSUME NEW t \in Thread, PostEnter(t) PROVE JoinInv'
  BY <1>7 DEF PostEnter, CriticalSectionEnter
<1>8. ASSUME NEW t \in Thread, PostAdd(t) PROVE JoinInv'
  BY <1>8 DEF PostAdd, CriticalSectionExit, Enqueue
<1>9. ASSUME NEW t \in Thread, PostNotify(t) PROVE JoinInv'
  BY <1>9 DEF PostNotify, WakeAWorker, NotifyOne
<1>10. ASSUME NEW w \in Worker, WorkerEnter(w) PROVE JoinInv'
  BY <1>10 DEF WorkerEnter, CriticalSectionEnter
<1>11. ASSUME NEW w \in Worker, WorkerSleep(w) PROVE JoinInv'
  BY <1>11 DEF WorkerSleep, WaitBlock, KWorkerPoolCVPredicate
<1>12. ASSUME NEW w \in Worker, WorkerWake(w) PROVE JoinInv'
  BY <1>12 DEF WorkerWake, WaitReturn, CriticalSectionEnter
<1>13. ASSUME NEW w \in Worker, WorkerTake(w) PROVE JoinInv'
  <2>1. /\ pc[w] \in {"test", "exec"}
        /\ UNCHANGED <<pool, poolRefs, workers, joined, joinIndex, joining, shutdown>>
    BY <1>13, WorkerKeepsRunning
  <2>2. PICK l \in {"exec", "loop", "exited"} : pc' = [pc EXCEPT ![w] = l]
    BY <1>13, WorkerKeepsRunning
  <2>3. \A v \in Worker : pc[v] = "exited" => pc'[v] = "exited"
    BY <2>1, <2>2
  <2>4. \A t \in Thread : pc'[t] \in {"shut_join", "shut_wait"} => pc'[t] = pc[t]
    BY <2>1, <2>2
  <2>5. Born' = Born
    BY <2>1, <2>2
  <2>6. \A t \in Thread : pc'[t] \in {"shut_join", "shut_wait"} =>
          \A i \in 1 .. Len(workers) : i < joinIndex[t] =>
            workers[i] = joining[t] \/ pc'[workers[i]] = "exited"
    BY <2>3, <2>4
  <2>7. /\ \A v \in joined : pc'[v] = "exited"
        /\ \A v \in Born : v \in Range(workers) \/ pc'[v] = "exited"
    BY <2>3
  <2> HIDE DEF Born
  <2> QED BY <2>1, <2>5, <2>6, <2>7
<1>14. ASSUME NEW w \in Worker, ExecuteTask(w) PROVE JoinInv'
  <2>1. /\ pc[w] \in {"test", "exec"}
        /\ UNCHANGED <<pool, poolRefs, workers, joined, joinIndex, joining, shutdown>>
    BY <1>14, WorkerKeepsRunning
  <2>2. PICK l \in {"exec", "loop", "exited"} : pc' = [pc EXCEPT ![w] = l]
    BY <1>14, WorkerKeepsRunning
  <2>3. \A v \in Worker : pc[v] = "exited" => pc'[v] = "exited"
    BY <2>1, <2>2
  <2>4. \A t \in Thread : pc'[t] \in {"shut_join", "shut_wait"} => pc'[t] = pc[t]
    BY <2>1, <2>2
  <2>5. Born' = Born
    BY <2>1, <2>2
  <2>6. \A t \in Thread : pc'[t] \in {"shut_join", "shut_wait"} =>
          \A i \in 1 .. Len(workers) : i < joinIndex[t] =>
            workers[i] = joining[t] \/ pc'[workers[i]] = "exited"
    BY <2>3, <2>4
  <2>7. /\ \A v \in joined : pc'[v] = "exited"
        /\ \A v \in Born : v \in Range(workers) \/ pc'[v] = "exited"
    BY <2>3
  <2> HIDE DEF Born
  <2> QED BY <2>1, <2>5, <2>6, <2>7
<1>15. ASSUME NEW c \in Client, Shutdown(c) PROVE JoinInv'
  BY <1>15 DEF Shutdown
<1>16. ASSUME NEW t \in Thread, ShutEnter(t) PROVE JoinInv'
  BY <1>16 DEF ShutEnter, CriticalSectionEnter
<1>17. ASSUME NEW t \in Thread, ShutSet(t) PROVE JoinInv'
  BY <1>17 DEF ShutSet, CriticalSectionExit
<1>18. ASSUME NEW t \in Thread, ShutNotify(t) PROVE JoinInv'
  BY <1>18 DEF ShutNotify, WakeEveryWorker, NotifyAll
<1>19. ASSUME NEW t \in Thread, ShutJoin(t) PROVE JoinInv'
  <2>1. /\ pc[t] = "shut_join" /\ UNCHANGED <<workers, joined>>
        /\ joinIndex' = [joinIndex EXCEPT ![t] = @ + 1]
        /\ joining[t] = None
    BY <1>19 DEF ShutJoin, NextIndex, LocalState
  <2>2. \A u \in Thread \ {t} : pc[u] \notin {"shut_join", "shut_wait"}
    BY <2>1 DEF OneStopper, Stopping, ShutPC
  <2>3. CASE workers[joinIndex[t]] \in joined /\ UNCHANGED <<pc, joining>>
    <3>1. pc[workers[joinIndex[t]]] = "exited" BY <2>3
    <3>2. ASSUME NEW u \in Thread, pc'[u] \in {"shut_join", "shut_wait"},
                 NEW i \in 1 .. Len(workers), i < joinIndex'[u]
          PROVE  workers[i] = joining[u] \/ pc[workers[i]] = "exited"
      <4>1. u = t BY <2>2, <2>3, <3>2
      <4>2. CASE i < joinIndex[t] BY <2>1, <4>1, <4>2
      <4>3. CASE i = joinIndex[t] BY <3>1, <4>3
      <4>4. joinIndex'[t] = joinIndex[t] + 1 BY <2>1
      <4> QED BY <3>2, <4>1, <4>2, <4>3, <4>4
    <3>3. Born' = Born BY <2>1, <2>3
    <3> HIDE DEF Born
    <3> QED BY <2>1, <2>3, <3>2, <3>3
  <2>4. CASE /\ joining' = [joining EXCEPT ![t] = workers[joinIndex[t]]]
             /\ pc' = [pc EXCEPT ![t] = "shut_wait"]
    <3>1. \A v \in Worker : pc[v] = "exited" <=> pc'[v] = "exited"
      BY <2>1, <2>4
    <3>2. ASSUME NEW u \in Thread, pc'[u] \in {"shut_join", "shut_wait"},
                 NEW i \in 1 .. Len(workers), i < joinIndex'[u]
          PROVE  workers[i] = joining'[u] \/ pc'[workers[i]] = "exited"
      <4>1. u = t BY <2>2, <2>4, <3>2
      <4>2. CASE i < joinIndex[t] BY <2>1, <3>1, <4>1, <4>2
      <4>3. CASE i = joinIndex[t] BY <2>4, <4>1, <4>3
      <4>4. joinIndex'[t] = joinIndex[t] + 1 BY <2>1
      <4> QED BY <3>2, <4>1, <4>2, <4>3, <4>4
    <3>3. Born' = Born BY <2>1, <2>4
    <3>4. /\ \A v \in joined' : pc'[v] = "exited"
          /\ \A v \in Born : v \in Range(workers) \/ pc'[v] = "exited"
      BY <2>1, <3>1
    <3> HIDE DEF Born, VariableTypes
    <3> QED BY <2>1, <3>2, <3>3, <3>4
  <2> QED BY <1>19, <2>3, <2>4 DEF ShutJoin
<1>20. ASSUME NEW t \in Thread, ShutJoined(t) PROVE JoinInv'
  <2>1. /\ pc[t] = "shut_wait" /\ UNCHANGED <<workers, joinIndex>>
        /\ joined' = joined \cup {joining[t]} /\ joining[t] \in Worker
        /\ joining' = [joining EXCEPT ![t] = None]
        /\ pc' = [pc EXCEPT ![t] = "shut_join"]
    BY <1>20 DEF ShutJoined, LocalState
  <2>2. \A u \in Thread \ {t} : pc[u] \notin {"shut_join", "shut_wait"} /\ joining[u] = None
    BY <2>1 DEF OneStopper, Stopping, ShutPC, LocalState
  <2>3. pc[joining[t]] = "exited"
    BY <1>20, <2>1, <2>2 DEF ShutJoined, JoinReturns, OneStopper, Stopping, ShutPC
  <2> QED BY <2>1, <2>2, <2>3
<1>21. ASSUME NEW t \in Thread, ShutDone(t) PROVE JoinInv'
  <2>1. /\ pc[t] = "shut_join" /\ joinIndex[t] > Len(workers) /\ joining[t] = None
        /\ pc' = [pc EXCEPT ![t] = IF poolRefs = {} THEN "free" ELSE "idle"]
        /\ workers' = <<>> /\ joined' = joined
    BY <1>21 DEF ShutDone, LocalState
  <2>2. \A u \in Thread : pc'[u] \notin {"shut_join", "shut_wait"}
    BY <2>1 DEF OneStopper, Stopping, ShutPC
  <2>3. \A w \in Range(workers) : pc[w] = "exited"
    <3> SUFFICES ASSUME NEW i \in 1 .. Len(workers) PROVE pc[workers[i]] = "exited"
      BY DEF Range
    <3>1. i < joinIndex[t] /\ workers[i] # joining[t] BY <2>1
    <3> QED BY <2>1, <3>1
  <2> QED BY <2>1, <2>2, <2>3
<1>22. ASSUME NEW t \in Thread, Free(t) PROVE JoinInv'
  BY <1>22 DEF Free, AfterIteration
<1>23. ASSUME NEW w \in Worker, Spurious(w) PROVE JoinInv'
  BY <1>23 DEF Spurious, SpuriousWakeup
<1>24. CASE Terminated BY <1>24 DEF Terminated, vars
<1> QED BY <1>1, <1>2, <1>3, <1>4, <1>5, <1>6, <1>7, <1>8, <1>9, <1>10,
  <1>11, <1>12, <1>13, <1>14, <1>15, <1>16, <1>17, <1>18, <1>19, <1>20,
  <1>21, <1>22, <1>23, <1>24 DEF Next, NewStep, PoolCall, WorkerStep,
  ClientChoice

(* When the pool has been freed nobody takes a step any more.              *)
LEMMA FreedIsFinal ==
  ASSUME NoUseAfterFree, Next, pool = "freed"
  PROVE  Terminated
<1>1. /\ \A t \in Thread : pc[t] \in {"absent", "gone", "failed", "exited"}
      /\ asleep = {}
  BY DEF NoUseAfterFree, Quiet
<1>2. pc[Creator] # "new" BY <1>1
<1>3. ~NewStep
  BY <1>2 DEF NewStep, NewReturns, SpawnWorker, SpawnFails
<1>4. ASSUME NEW t \in Thread PROVE ~PoolCall(t)
  BY <1>1 DEF PoolCall, PostEnter, PostAdd, PostNotify, ShutEnter, ShutSet,
    ShutNotify, ShutJoin, ShutJoined, ShutDone, Free
<1>5. ASSUME NEW t \in Thread, NEW k \in Task PROVE ~PostTask(t, k)
  BY <1>1 DEF PostTask, InUserCode
<1>6. ASSUME NEW w \in Worker PROVE ~WorkerStep(w) /\ ~Spurious(w)
  BY <1>1 DEF WorkerStep, WorkerEnter, WorkerSleep, WorkerWake, WorkerTake,
    ExecuteTask, Spurious, SpuriousWakeup
<1>7. ASSUME NEW c \in Client PROVE ~ClientChoice(c)
  BY <1>1 DEF ClientChoice, Release, Shutdown, Retain
<1> QED BY <1>3, <1>4, <1>5, <1>6, <1>7 DEF Next

(* Only Free frees the pool, and nobody is using it then.                  *)
LEMMA FreedStep ==
  ASSUME TypeOK, RefsInv, LockInv, OneStopper, ShutdownInv, NoUseAfterFree, Next
  PROVE  NoUseAfterFree'
<1> VariableTypes /\ \A t \in Thread : LocalState(t) BY DEF TypeOK
<1> USE DEF VariableTypes, NoUseAfterFree, Quiet, Goto
<1>1. CASE pool = "freed"
  BY <1>1, FreedIsFinal DEF Terminated, vars, cvVars, poolVars
<1>2. CASE pool # "freed" /\ pool' # "freed" BY <1>2
<1>3. CASE pool # "freed" /\ pool' = "freed"
  <2>1. PICK t \in Thread : Free(t)
    BY <1>3 DEF Next, NewStep, NewReturns, SpawnWorker, SpawnFails, PoolCall,
      PostTask, PostEnter, PostAdd, PostNotify, ShutEnter, ShutSet, ShutNotify,
      ShutJoin, ShutJoined, ShutDone, WorkerStep, WorkerEnter, WorkerSleep,
      WorkerWake, WorkerTake, ExecuteTask, Spurious, ClientChoice, Release,
      Shutdown, Retain, Terminated, vars, poolVars
  <2>2. /\ pc[t] = "free" /\ t \notin Worker /\ pc' = [pc EXCEPT ![t] = "gone"]
        /\ UNCHANGED <<holder, asleep>>
    BY <2>1 DEF Free, OneStopper, Stopping, cvVars
  <2>3. poolRefs = {} BY <2>2 DEF RefsInv, RefsUsers
  <2>4. \A c \in Client \ {t} : pc[c] \in {"absent", "gone"}
    <3> TAKE c \in Client \ {t}
    <3>1. pc[c] \notin {"new", "idle"} \cup PostPC
      BY <2>3 DEF RefsInv, RefsUsers
    <3>2. pc[c] \notin Stopping
      BY <2>2 DEF OneStopper, Stopping
    <3> QED BY <3>1, <3>2 DEF LocalState, ClientPC, PoolPC, PostPC, ShutPC, Stopping
  <2>5. \A w \in Worker : pc[w] \in {"failed", "exited"}
    BY <2>2 DEF ShutdownInv
  <2>6. holder = None
    BY <2>2, <2>4, <2>5 DEF LockInv, CVTypeOK
  <2>7. asleep = {}
    BY <2>2, <2>4, <2>5 DEF LockInv, CVTypeOK
  <2> QED BY <2>2, <2>4, <2>5, <2>6, <2>7
<1> QED BY <1>1, <1>2, <1>3

-----------------------------------------------------------------------------
(* The invariant, on top of the one of KWorkerPoolProofs.                  *)

QInv == IInv /\ OneStopper /\ JoinInv /\ ShutdownInv /\ NoUseAfterFree

LEMMA InitQInv == Init => QInv
<1> SUFFICES ASSUME Init PROVE QInv OBVIOUS
<1>1. IInv BY InitIInv
<1> QED
  BY <1>1 DEF QInv, Init, CVInit, OneStopper, Stopping, ShutPC, JoinInv, Born,
    ShutdownInv, NoUseAfterFree

LEMMA NextQInv == SingleShutdown /\ QInv /\ [Next]_vars => QInv'
<1> SUFFICES ASSUME SingleShutdown, QInv, [Next]_vars PROVE QInv' OBVIOUS
<1>1. IInv' BY NextIInv DEF QInv
<1>2. CASE Next
  <2> USE <1>2 DEF QInv, IInv
  <2>1. OneStopper' BY OneStopperStep
  <2>2. JoinInv' BY JoinStep
  <2>3. ShutdownInv' BY ShutdownStep
  <2>4. NoUseAfterFree' BY FreedStep
  <2> QED BY <1>1, <2>1, <2>2, <2>3, <2>4
<1>3. CASE UNCHANGED vars
  <2> USE <1>3 DEF vars, cvVars, poolVars, joinVars, QInv
  <2>1. OneStopper' BY DEF OneStopper
  <2>2. JoinInv' BY DEF JoinInv, Born
  <2>3. ShutdownInv' BY DEF ShutdownInv
  <2>4. NoUseAfterFree' BY DEF NoUseAfterFree, Quiet
  <2> QED BY <1>1, <2>1, <2>2, <2>3, <2>4
<1> QED BY <1>2, <1>3

LEMMA QuiesceInvariant == SingleShutdown => (Spec => []QInv)
<1> SUFFICES ASSUME SingleShutdown PROVE Spec => []QInv OBVIOUS
<1>1. QInv /\ [Next]_vars => QInv' BY NextQInv
<1> QED BY InitQInv, <1>1, PTL DEF Spec

(* KWorkerPoolDeInit frees the condition variable, the list and the array  *)
(* when no thread can use them any more.                                   *)
THEOREM FreedPoolIsNotUsed == SingleShutdown => (Spec => []NoUseAfterFree)
<1> SUFFICES ASSUME SingleShutdown PROVE Spec => []NoUseAfterFree OBVIOUS
<1>1. QInv => NoUseAfterFree BY DEF QInv
<1> QED BY QuiesceInvariant, <1>1, PTL

(* KWorkerPoolShutdown returns when every worker has ended.                *)
THEOREM ShutdownJoinsEveryWorker == SingleShutdown => (Spec => []ShutdownQuiesces)
<1> SUFFICES ASSUME SingleShutdown PROVE Spec => []ShutdownQuiesces OBVIOUS
<1>1. QInv => ShutdownQuiesces
  <2> SUFFICES ASSUME QInv, shutdown, workers = <<>>, NEW w \in Worker
               PROVE  pc[w] \in {"failed", "exited"}
    BY DEF ShutdownQuiesces
  <2>1. Range(workers) = {} BY DEF Range
  <2>2. pc[w] # "unborn" BY DEF QInv, ShutdownInv
  <2> QED BY <2>1, <2>2 DEF QInv, JoinInv, Born
<1> QED BY QuiesceInvariant, <1>1, PTL

-----------------------------------------------------------------------------
(* What was queued when the flag was set.  A worker is served when it has  *)
(* read the flag and got past its last look at the list.  Tasks are taken  *)
(* in the order in which they were posted, so until the backlog has been   *)
(* taken, each served worker has taken a task of it.                       *)

Served == {w \in Worker : ~running[w] /\ pc[w] \notin {"test", "wait"}}

IterationInv ==
  /\ \A w \in Worker : ~running[w] => pc[w] \notin {"unborn", "failed", "loop"}
  /\ \A w \in Worker : pc[w] = "exited" => ~running[w]

BacklogPlaces ==
  /\ IsFiniteSet(backlog)
  /\ shutdown \/ backlog = {}
  /\ backlog \subseteq Range(tasks) \cup Executing \cup done \cup dropped
  /\ pool # "freed" => dropped = {}

BacklogFirst ==
  \A i, j \in 1 .. Len(tasks) :
    i < j /\ tasks[j] \in backlog => tasks[i] \in backlog

BacklogServed ==
  backlog \cap Range(tasks) # {} =>
    Cardinality(backlog \ Range(tasks)) >= Cardinality(Served)

BacklogInv == IterationInv /\ BacklogPlaces /\ BacklogFirst /\ BacklogServed

LEMMA RangeIsFinite ==
  ASSUME NEW S, NEW s \in Seq(S)
  PROVE  IsFiniteSet(Range(s))
<1>1. s \in Surjection(1 .. Len(s), Range(s))
  BY DEF Surjection, Range
<1>2. IsFiniteSet(1 .. Len(s)) BY FS_Interval
<1> QED BY <1>1, <1>2, FS_Surjection

(* Only a worker that takes a task, or finds none, becomes served.         *)
Steady == \A w \in Worker : w \in Served' <=> w \in Served

LEMMA SteadyStep ==
  ASSUME TypeOK, IterationInv, Next, \A w \in Worker : ~WorkerTake(w)
  PROVE  IterationInv' /\ Steady
<1> VariableTypes BY DEF TypeOK
<1> DEFINE Goal == IterationInv' /\ Steady
<1> USE DEF VariableTypes, IterationInv, Steady, Served, Goto
<1>1. ASSUME NEW c \in Client, NEW d \in Client, Retain(c, d) PROVE Goal
  BY <1>1 DEF Retain
<1>2. ASSUME NEW c \in Client, Release(c) PROVE Goal
  BY <1>2 DEF Release, DropPoolRef
<1>3. ASSUME NEW w \in Worker, SpawnWorker(w) PROVE Goal
  BY <1>3 DEF SpawnWorker
<1>4. ASSUME NEW w \in Worker, SpawnFails(w) PROVE Goal
  BY <1>4 DEF SpawnFails
<1>5. ASSUME NewReturns PROVE Goal
  BY <1>5 DEF NewReturns, DropPoolRef
<1>6. ASSUME NEW t \in Thread, NEW k \in Task, PostTask(t, k) PROVE Goal
  BY <1>6 DEF PostTask, InUserCode
<1>7. ASSUME NEW t \in Thread, PostEnter(t) PROVE Goal
  BY <1>7 DEF PostEnter
<1>8. ASSUME NEW t \in Thread, PostAdd(t) PROVE Goal
  BY <1>8 DEF PostAdd
<1>9. ASSUME NEW t \in Thread, PostNotify(t) PROVE Goal
  BY <1>9 DEF PostNotify
<1>10. ASSUME NEW w \in Worker, WorkerEnter(w) PROVE Goal
  BY <1>10 DEF WorkerEnter
<1>11. ASSUME NEW w \in Worker, WorkerSleep(w) PROVE Goal
  BY <1>11 DEF WorkerSleep
<1>12. ASSUME NEW w \in Worker, WorkerWake(w) PROVE Goal
  BY <1>12 DEF WorkerWake
<1>13. ASSUME NEW w \in Worker, ExecuteTask(w) PROVE Goal
  BY <1>13 DEF ExecuteTask, DropPoolRef, AfterIteration
<1>14. ASSUME NEW c \in Client, Shutdown(c) PROVE Goal
  BY <1>14 DEF Shutdown
<1>15. ASSUME NEW t \in Thread, ShutEnter(t) PROVE Goal
  BY <1>15 DEF ShutEnter
<1>16. ASSUME NEW t \in Thread, ShutSet(t) PROVE Goal
  BY <1>16 DEF ShutSet
<1>17. ASSUME NEW t \in Thread, ShutNotify(t) PROVE Goal
  BY <1>17 DEF ShutNotify
<1>18. ASSUME NEW t \in Thread, ShutJoin(t) PROVE Goal
  BY <1>18 DEF ShutJoin
<1>19. ASSUME NEW t \in Thread, ShutJoined(t) PROVE Goal
  BY <1>19 DEF ShutJoined
<1>20. ASSUME NEW t \in Thread, ShutDone(t) PROVE Goal
  BY <1>20 DEF ShutDone
<1>21. ASSUME NEW t \in Thread, Free(t) PROVE Goal
  BY <1>21 DEF Free, AfterIteration
<1>22. ASSUME NEW w \in Worker, Spurious(w) PROVE Goal
  BY <1>22 DEF Spurious
<1>23. CASE Terminated BY <1>23 DEF Terminated, vars
<1> QED BY <1>1, <1>2, <1>3, <1>4, <1>5, <1>6, <1>7, <1>8, <1>9, <1>10,
  <1>11, <1>12, <1>13, <1>14, <1>15, <1>16, <1>17, <1>18, <1>19, <1>20,
  <1>21, <1>22, <1>23 DEF Next, NewStep, PoolCall, WorkerStep, ClientChoice

(* Only KWorkerPoolShutdown sets the flag, and only it fixes the backlog;  *)
(* only KWorkerPoolDeInit drops tasks and frees the pool.                  *)
LEMMA FlagStep ==
  ASSUME Next
  PROVE  /\ \/ \E t \in Thread : ShutSet(t)
            \/ UNCHANGED <<shutdown, backlog>>
         /\ \/ \E t \in Thread : Free(t)
            \/ dropped' = dropped /\ (pool' = "freed" => pool = "freed")
         /\ \/ \E t \in Thread : PostAdd(t) \/ Free(t)
            \/ \E w \in Worker : WorkerTake(w)
            \/ tasks' = tasks
BY DEF Next, NewStep, PoolCall, WorkerStep, ClientChoice, Terminated, vars,
  poolVars, taskVars, joinVars, Retain, Release, DropPoolRef, SpawnWorker,
  SpawnFails, NewReturns, PostTask, PostEnter, PostAdd, PostNotify, WorkerEnter,
  WorkerSleep, WorkerWake, WorkerTake, ExecuteTask, Shutdown, ShutEnter, ShutSet,
  ShutNotify, ShutJoin, ShutJoined, ShutDone, Free, Spurious

(* The critical section of KWorkerPoolShutdown.                            *)
LEMMA ShutSetStep ==
  ASSUME NEW t \in Thread, ShutSet(t), BacklogPlaces
  PROVE  /\ shutdown' /\ UNCHANGED <<tasks, current, done, dropped, pool>>
         /\ backlog' = (IF shutdown THEN backlog ELSE Range(tasks))
BY DEF ShutSet, poolVars, taskVars, BacklogPlaces

LEMMA PlacesStep ==
  ASSUME TypeOK, EachTaskOnce, Building, BacklogPlaces, Next
  PROVE  BacklogPlaces'
<1> VariableTypes BY DEF TypeOK
<1>1. CASE \E t \in Thread : ShutSet(t)
  <2>1. /\ shutdown' /\ UNCHANGED <<tasks, current, done, dropped, pool>>
        /\ backlog' = (IF shutdown THEN backlog ELSE Range(tasks))
    BY <1>1, ShutSetStep
  <2>2. IsFiniteSet(Range(tasks)) BY RangeIsFinite DEF VariableTypes
  <2>3. Executing' = Executing BY <2>1 DEF Executing
  <2> QED BY <2>1, <2>2, <2>3 DEF BacklogPlaces
<1>2. CASE UNCHANGED <<shutdown, backlog>>
  <2>1. backlog' \subseteq Range(tasks)' \cup Executing' \cup done' \cup dropped'
    BY <1>2, TaskMoves DEF Moves, BacklogPlaces
  <2>2. pool' # "freed" => dropped' = {}
    <3>1. CASE \E t \in Thread : Free(t) BY <3>1 DEF Free
    <3>2. CASE dropped' = dropped /\ (pool' = "freed" => pool = "freed")
      <4>1. pool' # "freed" => pool # "freed"
        BY DEF Building, Next, NewStep, PoolCall, WorkerStep, ClientChoice, Terminated,
          vars, poolVars, Retain, Release, DropPoolRef, SpawnWorker, SpawnFails,
          NewReturns, PostTask, PostEnter, PostAdd, PostNotify, WorkerEnter,
          WorkerSleep, WorkerWake, WorkerTake, ExecuteTask, Shutdown, ShutEnter,
          ShutSet, ShutNotify, ShutJoin, ShutJoined, ShutDone, Free, Spurious
      <4> QED BY <3>2, <4>1 DEF BacklogPlaces
    <3> QED BY <3>1, <3>2, FlagStep
  <2> QED BY <1>2, <2>1, <2>2 DEF BacklogPlaces
<1> QED BY <1>1, <1>2, FlagStep

(* A task that is being posted is not in the backlog.                      *)
LEMMA PostedIsLater ==
  ASSUME TypeOK, EachTaskOnce, BacklogPlaces, NEW t \in Thread, PostAdd(t)
  PROVE  /\ posting[t] \in Task \ backlog
         /\ tasks' = Append(tasks, posting[t])
         /\ Range(tasks)' = Range(tasks) \cup {posting[t]}
         /\ backlog' = backlog
<1> VariableTypes BY DEF TypeOK
<1>1. posting[t] \in Task /\ posting[t] \in Posting
  BY DEF PostAdd, TypeOK, LocalState, VariableTypes, Posting
<1>2. tasks' = Append(tasks, posting[t]) /\ backlog' = backlog
  BY DEF PostAdd, Enqueue
<1>3. posting[t] \notin Range(tasks)
  BY <1>1 DEF EachTaskOnce, OnePlace
<1>4. posting[t] \notin backlog
  BY <1>1 DEF EachTaskOnce, OnePlace, BacklogPlaces
<1>5. Range(tasks)' = Range(tasks) \cup {posting[t]}
  BY <1>1, <1>2, <1>3, RangeOfAppend DEF VariableTypes, EachTaskOnce, OneHolder
<1> QED BY <1>1, <1>2, <1>4, <1>5

LEMMA FirstStep ==
  ASSUME TypeOK, EachTaskOnce, BacklogPlaces, BacklogFirst, Next
  PROVE  BacklogFirst'
<1> VariableTypes BY DEF TypeOK
<1>1. ASSUME NEW t \in Thread, ShutSet(t) PROVE BacklogFirst'
  <2>1. /\ tasks' = tasks
        /\ backlog' = (IF shutdown THEN backlog ELSE Range(tasks))
    BY <1>1, ShutSetStep
  <2>2. \A i \in 1 .. Len(tasks) : tasks[i] \in Range(tasks)
    BY DEF VariableTypes, Range
  <2> QED BY <2>1, <2>2 DEF BacklogFirst
<1>2. ASSUME NEW t \in Thread, PostAdd(t) PROVE BacklogFirst'
  <2>1. /\ posting[t] \in Task \ backlog /\ backlog' = backlog
        /\ tasks' = Append(tasks, posting[t])
    BY <1>2, PostedIsLater
  <2>2. /\ Len(tasks') = Len(tasks) + 1 /\ tasks'[Len(tasks) + 1] = posting[t]
        /\ \A i \in 1 .. Len(tasks) : tasks'[i] = tasks[i]
    BY <2>1, AppendProperties DEF VariableTypes
  <2>3. SUFFICES ASSUME NEW i \in 1 .. Len(tasks'), NEW j \in 1 .. Len(tasks'),
                        i < j, tasks'[j] \in backlog
                 PROVE  tasks'[i] \in backlog
    BY <2>1 DEF BacklogFirst
  <2>4. j # Len(tasks) + 1 BY <2>1, <2>2, <2>3
  <2>5. i \in 1 .. Len(tasks) /\ j \in 1 .. Len(tasks)
    BY <2>2, <2>3, <2>4 DEF VariableTypes
  <2> QED BY <2>2, <2>3, <2>5 DEF BacklogFirst
<1>3. ASSUME NEW w \in Worker, WorkerTake(w), tasks # <<>> PROVE BacklogFirst'
  <2>1. tasks' = Tail(tasks) /\ backlog' = backlog
    BY <1>3 DEF WorkerTake, RemoveFirst
  <2>2. /\ Len(tasks') = Len(tasks) - 1
        /\ \A i \in 1 .. Len(tasks') : tasks'[i] = tasks[i + 1]
    BY <1>3, <2>1, HeadTailProperties DEF VariableTypes
  <2> QED BY <2>1, <2>2 DEF BacklogFirst, VariableTypes
<1>4. ASSUME NEW t \in Thread, Free(t) PROVE BacklogFirst'
  BY <1>4 DEF Free, BacklogFirst
<1>5. CASE UNCHANGED <<tasks, backlog>>
  BY <1>5 DEF BacklogFirst
<1>6. ASSUME NEW w \in Worker, WorkerTake(w), tasks = <<>> PROVE tasks' = tasks
  BY <1>6 DEF WorkerTake
<1> QED BY <1>1, <1>2, <1>3, <1>4, <1>5, <1>6, FlagStep

LEMMA ServedStep ==
  ASSUME TypeOK, EachTaskOnce, LockInv, BacklogInv, Next
  PROVE  IterationInv' /\ BacklogServed'
<1> VariableTypes BY DEF TypeOK
<1> IterationInv /\ BacklogPlaces /\ BacklogFirst BY DEF BacklogInv
<1>f. IsFiniteSet(Served) /\ IsFiniteSet(backlog \ Range(tasks))
  BY FS_Subset, FS_Difference DEF Served, BacklogPlaces
<1>n. /\ Cardinality(Served) \in Nat
      /\ Cardinality(backlog \ Range(tasks)) \in Nat
  BY <1>f, FS_CardinalityType
<1>1. ASSUME NEW w \in Worker, WorkerTake(w) PROVE IterationInv' /\ BacklogServed'
  <2>1. /\ pc[w] = "test" /\ UNCHANGED <<running, backlog>>
        /\ \E l \in {"exec", AfterIteration(w)} : pc' = [pc EXCEPT ![w] = l]
    BY <1>1 DEF WorkerTake, Goto
  <2>2. IterationInv' BY <2>1 DEF IterationInv, AfterIteration, VariableTypes
  <2>3. Served' \subseteq Served \cup {w}
    BY <2>1 DEF Served, AfterIteration, VariableTypes
  <2>4. CASE tasks = <<>>
    <3>1. tasks' = <<>> BY <1>1, <2>4 DEF WorkerTake
    <3>2. Range(tasks)' = {} BY <3>1 DEF Range
    <3> QED BY <2>2, <3>2 DEF BacklogServed
  <2>5. CASE tasks # <<>>
    <3>1. tasks' = Tail(tasks) BY <1>1, <2>5 DEF WorkerTake, RemoveFirst
    <3>2. Head(tasks) \in Range(tasks) /\ Range(tasks)' = Range(tasks) \ {Head(tasks)}
      BY <2>5, <3>1, RangeOfTail DEF VariableTypes, EachTaskOnce, OneHolder
    <3>3. SUFFICES ASSUME backlog \cap Range(tasks)' # {}
                   PROVE  Cardinality(backlog' \ Range(tasks)') >= Cardinality(Served')
      BY <2>1, <2>2 DEF BacklogServed
    <3>4. Head(tasks) \in backlog
      <4> PICK k \in backlog : k \in Range(tasks) BY <3>2, <3>3
      <4>1. PICK j \in 1 .. Len(tasks) : tasks[j] \in backlog
        BY DEF Range, VariableTypes
      <4>2. Head(tasks) = tasks[1] /\ (j = 1 \/ 1 < j) BY <2>5
      <4>3. 1 \in 1 .. Len(tasks) BY <4>1
      <4> QED BY <4>1, <4>2, <4>3 DEF BacklogFirst
    <3>5. backlog' \ Range(tasks)' = (backlog \ Range(tasks)) \cup {Head(tasks)}
      BY <2>1, <3>2, <3>4
    <3>6. Cardinality(backlog' \ Range(tasks)') = Cardinality(backlog \ Range(tasks)) + 1
      BY <1>f, <3>2, <3>5, FS_AddElement
    <3>7. /\ IsFiniteSet(Served \cup {w})
          /\ Cardinality(Served \cup {w}) \in Nat
          /\ Cardinality(Served \cup {w}) <= Cardinality(Served) + 1
      <4>1. /\ IsFiniteSet(Served \cup {w})
            /\ Cardinality(Served \cup {w}) = IF w \in Served THEN Cardinality(Served)
                                                ELSE Cardinality(Served) + 1
        BY <1>f, FS_AddElement
      <4> QED BY <1>n, <4>1
    <3>8. Cardinality(Served') <= Cardinality(Served \cup {w}) /\ Cardinality(Served') \in Nat
      BY <2>3, <3>7, FS_Subset, FS_CardinalityType
    <3>9. Cardinality(backlog \ Range(tasks)) >= Cardinality(Served)
      BY <3>2, <3>3 DEF BacklogInv, BacklogServed
    <3> QED BY <1>n, <3>6, <3>7, <3>8, <3>9
  <2> QED BY <2>4, <2>5
<1>2. CASE \A w \in Worker : ~WorkerTake(w)
  <2>1. IterationInv' /\ Served' = Served
    <3>1. IterationInv' /\ Steady BY <1>2, SteadyStep
    <3>2. Served \subseteq Worker /\ Served' \subseteq Worker BY DEF Served
    <3> QED BY <3>1, <3>2 DEF Steady
  <2>2. ASSUME NEW t \in Thread, ShutSet(t) PROVE BacklogServed'
    <3>1. /\ tasks' = tasks
          /\ backlog' = (IF shutdown THEN backlog ELSE Range(tasks))
      BY <2>2, ShutSetStep
    <3>2. CASE shutdown
      BY <2>1, <3>1, <3>2 DEF BacklogInv, BacklogServed
    <3>3. CASE ~shutdown
      <4>1. Served = {} BY <3>3 DEF Served, LockInv
      <4>2. backlog' \ Range(tasks)' = {} BY <3>1, <3>3
      <4> QED BY <2>1, <4>1, <4>2, FS_EmptySet DEF BacklogServed
    <3> QED BY <3>2, <3>3
  <2>3. ASSUME NEW t \in Thread, PostAdd(t) PROVE BacklogServed'
    BY <2>1, <2>3, PostedIsLater DEF BacklogInv, BacklogServed
  <2>4. ASSUME NEW t \in Thread, Free(t) PROVE BacklogServed'
    <3>1. Range(tasks)' = {} BY <2>4 DEF Free, Range
    <3> QED BY <3>1 DEF BacklogServed
  <2>5. CASE UNCHANGED <<tasks, backlog>>
    BY <2>1, <2>5 DEF BacklogInv, BacklogServed
  <2> QED BY <1>2, <2>1, <2>2, <2>3, <2>4, <2>5, FlagStep
<1> QED BY <1>1, <1>2

(* When the pool is collected every worker is served, and nothing runs.    *)
LEMMA DrainedStep ==
  ASSUME SingleShutdown, QInv, BacklogInv, BacklogDrained, Next
  PROVE  BacklogDrained'
<1> VariableTypes /\ \A t \in Thread : LocalState(t) BY DEF QInv, IInv, TypeOK
<1> USE DEF VariableTypes, BacklogPlaces
<1> BacklogPlaces BY DEF BacklogInv
<1>1. ASSUME NEW t \in Thread, Free(t) PROVE BacklogDrained'
  <2>1. /\ pc[t] = "free" /\ dropped' = dropped \cup Range(tasks)
        /\ UNCHANGED <<done, backlog>>
    BY <1>1 DEF Free
  <2>2. pool # "freed" /\ \A w \in Worker : pc[w] \in {"failed", "exited"}
    BY <2>1 DEF QInv, NoUseAfterFree, Quiet, ShutdownInv
  <2>3. SUFFICES ASSUME backlog \cap Range(tasks) # {}
                 PROVE  Cardinality(backlog \cap done) >= Cardinality(Worker)
    BY <2>1, <2>2 DEF BacklogDrained
  <2>4. tasks # <<>> BY <2>3 DEF Range
  <2>5. \A w \in Worker : pc[w] = "exited"
    BY <2>2, <2>4 DEF QInv, IInv, Building, Spawned, Born
  <2>6. Served = Worker BY <2>5 DEF Served, BacklogInv, IterationInv
  <2>7. Executing = {}
    <3> \A w \in Worker : current[w] = None BY <2>5 DEF LocalState
    <3> QED BY DEF Executing
  <2>8. backlog \ Range(tasks) \subseteq backlog \cap done
    BY <2>2, <2>7
  <2>9. /\ IsFiniteSet(backlog \cap done)
        /\ Cardinality(backlog \cap done) \in Nat
    BY FS_Intersection, FS_CardinalityType
  <2>10. /\ Cardinality(backlog \ Range(tasks)) <= Cardinality(backlog \cap done)
         /\ Cardinality(backlog \ Range(tasks)) \in Nat
    BY <2>8, <2>9, FS_Subset, FS_CardinalityType
  <2>11. Cardinality(backlog \ Range(tasks)) >= Cardinality(Worker)
    BY <2>3, <2>6 DEF BacklogInv, BacklogServed
  <2>12. Cardinality(Worker) \in Nat BY FS_CardinalityType
  <2> QED BY <2>9, <2>10, <2>11, <2>12
<1>2. CASE dropped' = dropped
  <2>1. SUFFICES ASSUME backlog' \cap dropped # {}
                 PROVE  Cardinality(backlog' \cap done') >= Cardinality(Worker)
    BY <1>2 DEF BacklogDrained
  <2>2. pool = "freed" BY <2>1
  <2>3. backlog' = backlog
    BY <2>2, FreedIsFinal DEF Terminated, vars, QInv
  <2>4. done \subseteq done' BY TaskMoves DEF Moves, QInv, IInv
  <2>5. /\ IsFiniteSet(backlog \cap done')
        /\ Cardinality(backlog \cap done') \in Nat
    BY FS_Intersection, FS_CardinalityType
  <2>6. backlog \cap done \subseteq backlog \cap done' BY <2>4
  <2>7. /\ Cardinality(backlog \cap done) <= Cardinality(backlog \cap done')
        /\ Cardinality(backlog \cap done) \in Nat
    BY <2>5, <2>6, FS_Subset, FS_CardinalityType
  <2>8. Cardinality(backlog \cap done) >= Cardinality(Worker)
    BY <2>1, <2>3 DEF BacklogDrained
  <2>9. Cardinality(Worker) \in Nat BY FS_CardinalityType
  <2> QED BY <2>3, <2>5, <2>7, <2>8, <2>9
<1> QED BY <1>1, <1>2, FlagStep

-----------------------------------------------------------------------------
(* The pool is a task service.                                             *)

(* A worker that has no task leaves room among the tasks that run.         *)
LEMMA RoomForATask ==
  ASSUME TypeOK, NEW w \in Worker, current[w] = None
  PROVE  /\ IsFiniteSet(Executing)
         /\ Cardinality(Executing) < Cardinality(Worker)
<1> DEFINE Rest == Worker \ {w}
           Image == {current[v] : v \in Rest}
<1>1. /\ IsFiniteSet(Rest) /\ Cardinality(Rest) = Cardinality(Worker) - 1
      /\ Cardinality(Worker) \in Nat
  BY FS_RemoveElement, FS_CardinalityType
<1>2. [v \in Rest |-> current[v]] \in Surjection(Rest, Image)
  BY DEF Surjection
<1>3. IsFiniteSet(Image) /\ Cardinality(Image) <= Cardinality(Rest)
  BY <1>1, <1>2, FS_Surjection
<1>4. Executing \subseteq Image BY DEF Executing
<1>5. /\ IsFiniteSet(Executing) /\ Cardinality(Executing) <= Cardinality(Image)
      /\ Cardinality(Executing) \in Nat /\ Cardinality(Image) \in Nat
      /\ Cardinality(Rest) \in Nat
  BY <1>1, <1>3, <1>4, FS_Subset, FS_CardinalityType
<1> QED BY <1>1, <1>3, <1>5

(* Each step of the pool is one of the service, or changes nothing in it.  *)
LEMMA ServiceStep ==
  ASSUME SingleShutdown, QInv, BacklogInv, Next
  PROVE  [Service!Next]_(Service!serviceVars)
<1> VariableTypes /\ \A t \in Thread : LocalState(t) BY DEF QInv, IInv, TypeOK
<1> TypeOK /\ EachTaskOnce BY DEF QInv, IInv
<1>r. /\ Service!Range(tasks) = Range(tasks)
      /\ Service!Cardinality(Executing) = Cardinality(Executing)
  BY DEF Service!Range, Range, Service!Cardinality, Cardinality
<1>s. ASSUME UNCHANGED <<shutdown, tasks, current, done, dropped>>,
             pool' = "freed" <=> pool = "freed"
      PROVE  UNCHANGED Service!serviceVars
  BY <1>s DEF Service!serviceVars, Phase, Executing
<1>p. CASE pool = "freed"
  <2>1. UNCHANGED vars BY <1>p, FreedIsFinal DEF Terminated, QInv
  <2> QED BY <2>1, <1>s DEF vars, taskVars, poolVars
<1>q. SUFFICES ASSUME pool # "freed"
               PROVE  [Service!Next]_(Service!serviceVars)
  BY <1>p
<1>1. ASSUME NEW t \in Thread, PostAdd(t) PROVE Service!Submit(posting[t])
  <2>1. posting[t] \in Posting
    BY <1>1 DEF PostAdd, LocalState, Posting
  <2>2. /\ tasks' = Append(tasks, posting[t])
        /\ UNCHANGED <<pool, shutdown, current, done, dropped>>
    BY <1>1 DEF PostAdd, Enqueue, taskVars, poolVars
  <2>3. posting[t] \notin Service!Known
    BY <1>r, <2>1 DEF Service!Known, EachTaskOnce, OnePlace
  <2> QED BY <1>q, <2>2, <2>3 DEF Service!Submit, Phase, Executing
<1>2. ASSUME NEW w \in Worker, WorkerTake(w), tasks # <<>> PROVE Service!Start
  <2>1. /\ pc[w] = "test" /\ tasks' = Tail(tasks)
        /\ current' = [current EXCEPT ![w] = Head(tasks)]
        /\ UNCHANGED <<pool, shutdown, done, dropped>>
    BY <1>2 DEF WorkerTake, RemoveFirst, taskVars, poolVars
  <2>2. current[w] = None /\ Head(tasks) \in Task
    BY <1>2, <2>1, HeadTailProperties DEF LocalState, VariableTypes
  <2>3. Executing' = Executing \cup {Head(tasks)}
    BY <2>1, <2>2 DEF Executing, VariableTypes
  <2>4. Service!Cardinality(Executing) < Cardinality(Worker)
    BY <1>r, <2>2, RoomForATask
  <2>5. Phase' = Phase /\ Phase # "collected" BY <1>q, <2>1 DEF Phase
  <2> QED BY <1>2, <2>1, <2>3, <2>4, <2>5 DEF Service!Start, Service!Cardinality, Cardinality
<1>3. ASSUME NEW w \in Worker, ExecuteTask(w) PROVE Service!Finish(current[w])
  <2>1. /\ pc[w] = "exec" /\ current' = [current EXCEPT ![w] = None]
        /\ done' = done \cup {current[w]}
        /\ UNCHANGED <<pool, shutdown, tasks, dropped>>
    BY <1>3 DEF ExecuteTask, ClearTask, ReleaseUserData, DropPoolRef
  <2>2. current[w] \in Executing BY <2>1 DEF LocalState, Executing
  <2>3. Executing' = Executing \ {current[w]}
    BY <2>1, <2>2 DEF Executing, EachTaskOnce, OneHolder, VariableTypes
  <2> QED BY <2>1, <2>2, <2>3 DEF Service!Finish, Phase
<1>4. ASSUME NEW t \in Thread, ShutSet(t)
      PROVE  Service!Stop \/ UNCHANGED Service!serviceVars
  <2>1. shutdown' /\ UNCHANGED <<tasks, current, done, dropped, pool>>
    BY <1>4, ShutSetStep DEF BacklogInv
  <2>2. CASE shutdown BY <1>s, <2>1, <2>2
  <2>3. CASE ~shutdown
    BY <1>q, <2>1, <2>3 DEF Service!Stop, Phase, Executing
  <2> QED BY <2>2, <2>3
<1>5. ASSUME NEW t \in Thread, Free(t) PROVE Service!Collect
  <2>1. /\ pc[t] = "free" /\ pool' = "freed" /\ tasks' = <<>>
        /\ dropped' = dropped \cup Range(tasks)
        /\ UNCHANGED <<current, done>>
    BY <1>5 DEF Free
  <2>2. shutdown /\ \A w \in Worker : pc[w] \in {"failed", "exited"}
    BY <2>1 DEF QInv, ShutdownInv
  <2>3. Executing = {}
    <3> \A w \in Worker : current[w] = None BY <2>2 DEF LocalState
    <3> QED BY DEF Executing
  <2>4. Executing' = Executing BY <2>1 DEF Executing
  <2> QED BY <1>q, <1>r, <2>1, <2>2, <2>3, <2>4 DEF Service!Collect, Phase
<1>6. CASE /\ UNCHANGED <<shutdown, tasks, current, done, dropped>>
           /\ pool' = "freed" <=> pool = "freed"
  BY <1>6, <1>s
<1>7. \/ \E t \in Thread : PostAdd(t) \/ ShutSet(t) \/ Free(t)
      \/ \E w \in Worker : (WorkerTake(w) /\ tasks # <<>>) \/ ExecuteTask(w)
      \/ /\ UNCHANGED <<shutdown, tasks, current, done, dropped>>
         /\ pool' = "freed" <=> pool = "freed"
  BY <1>q
  DEF Next, NewStep, PoolCall, WorkerStep, ClientChoice, Terminated,
    vars, poolVars, taskVars, joinVars, Retain, Release, DropPoolRef, SpawnWorker,
    SpawnFails, NewReturns, PostTask, PostEnter, PostNotify, WorkerEnter,
    WorkerSleep, WorkerWake, WorkerTake, Shutdown, ShutEnter, ShutNotify, ShutJoin,
    ShutJoined, ShutDone, Spurious
<1>8. /\ \A t \in Thread : PostAdd(t) => posting[t] \in Task
      /\ \A w \in Worker : ExecuteTask(w) => current[w] \in Task
  BY DEF PostAdd, ExecuteTask, LocalState, VariableTypes
<1> QED
  BY <1>1, <1>2, <1>3, <1>4, <1>5, <1>6, <1>7, <1>8 DEF Service!Next

-----------------------------------------------------------------------------
ServiceInv == QInv /\ BacklogInv /\ BacklogDrained

LEMMA InitServiceInv == Init => ServiceInv
<1> SUFFICES ASSUME Init PROVE ServiceInv OBVIOUS
<1>1. QInv BY InitQInv
<1>2. Range(tasks) = {} BY DEF Init, Range
<1> QED
  BY <1>1, <1>2, FS_EmptySet DEF Init, ServiceInv, BacklogInv, BacklogDrained,
    IterationInv, BacklogPlaces, BacklogFirst, BacklogServed

LEMMA NextServiceInv == SingleShutdown /\ ServiceInv /\ [Next]_vars => ServiceInv'
<1> SUFFICES ASSUME SingleShutdown, ServiceInv, [Next]_vars PROVE ServiceInv' OBVIOUS
<1> USE DEF ServiceInv
<1>1. QInv' BY NextQInv
<1>2. CASE Next
  <2> USE <1>2 DEF QInv, IInv, BacklogInv
  <2>1. BacklogPlaces' BY PlacesStep
  <2>2. BacklogFirst' BY FirstStep
  <2>3. IterationInv' /\ BacklogServed' BY ServedStep
  <2>4. BacklogDrained' BY DrainedStep
  <2> QED BY <1>1, <2>1, <2>2, <2>3, <2>4
<1>3. CASE UNCHANGED vars
  <2> USE <1>3 DEF vars, cvVars, poolVars, joinVars, taskVars, BacklogInv
  <2>1. BacklogPlaces' BY DEF BacklogPlaces, Executing
  <2>2. BacklogFirst' BY DEF BacklogFirst
  <2>3. IterationInv' BY DEF IterationInv
  <2>4. BacklogServed' BY DEF BacklogServed, Served
  <2>5. BacklogDrained' BY DEF BacklogDrained
  <2> QED BY <1>1, <2>1, <2>2, <2>3, <2>4, <2>5
<1> QED BY <1>2, <1>3

LEMMA ServiceInvariant == SingleShutdown => (Spec => []ServiceInv)
<1> SUFFICES ASSUME SingleShutdown PROVE Spec => []ServiceInv OBVIOUS
<1>1. ServiceInv /\ [Next]_vars => ServiceInv' BY NextServiceInv
<1> QED BY InitServiceInv, <1>1, PTL DEF Spec

(* Tasks that were queued when KWorkerPoolShutdown set the flag are only   *)
(* dropped when every worker has executed one of them.                     *)
THEOREM BacklogIsDrained == SingleShutdown => (Spec => []BacklogDrained)
<1> SUFFICES ASSUME SingleShutdown PROVE Spec => []BacklogDrained OBVIOUS
<1>1. ServiceInv => BacklogDrained BY DEF ServiceInv
<1> QED BY ServiceInvariant, <1>1, PTL

(* With its threads, locks and wakeups the pool does what TaskService      *)
(* says: first come, first served, at most one task for each worker at a   *)
(* time, and nothing is discarded before it was stopped and all has ended. *)
THEOREM PoolIsATaskService == SingleShutdown => (Spec => ImplementsTaskService)
<1> SUFFICES ASSUME SingleShutdown PROVE Spec => Service!Spec
  BY DEF ImplementsTaskService
<1>1. Init => Service!Init
  BY DEF Init, Service!Init, Phase, Executing
<1>2. ServiceInv /\ [Next]_vars => [Service!Next]_(Service!serviceVars)
  <2>1. CASE UNCHANGED vars
    BY <2>1 DEF vars, poolVars, taskVars, Service!serviceVars, Phase, Executing
  <2> QED BY <2>1, ServiceStep DEF ServiceInv
<1> QED BY ServiceInvariant, <1>1, <1>2, PTL DEF Spec, Service!Spec

=============================================================================
