-------------------------- MODULE KWorkerPoolProofs --------------------------
(***************************************************************************)
(* Proofs about KWorkerPool, for any sets of clients, workers and tasks.   *)
(*                                                                         *)
(* IInv is the inductive invariant.  Beside the properties that are proved *)
(* from it, it says who holds a reference on the pool (RefsInv), who is    *)
(* inside the critical section (LockInv), and what is true while and after *)
(* KWorkerPoolNew runs (Building, Spawned).  HInv adds what is needed to   *)
(* see that threads do not all wait for each other.  The properties of a   *)
(* pool that is collected need that one thread at a time shuts it down;    *)
(* they are in KWorkerPoolQuiesce.                                         *)
(***************************************************************************)
EXTENDS KWorkerPool, SequenceTheorems, FiniteSetTheorems, TLAPS

PostPC == {"post_enter", "post_add", "post_notify"}
ShutPC == {"shut_enter", "shut_set", "shut_notify", "shut_join", "shut_wait"}

RefsUsers ==
  /\ \A c \in Client : pc[c] \in {"new", "idle"} \cup PostPC => c \in poolRefs
  /\ \A c \in Client : pc[c] \in ShutPC => c \in poolRefs \/ poolRefs = {}
  /\ \A w \in Worker : pc[w] \in ShutPC => poolRefs = {}
  /\ \A t \in Thread : pc[t] = "free" => poolRefs = {}

RefsInv == RefsUsers /\ PoolTask \cap InFlight \subseteq poolRefs

LockInv ==
  /\ \A t \in Thread : holder = t <=> pc[t] \in {"post_add", "shut_set", "test"}
  /\ \A t \in asleep : pc[t] = "wait"
  /\ \A w \in Worker : pc[w] = "exited" \/ ~running[w] => shutdown

Born == {w \in Worker : pc[w] \notin {"unborn", "failed"}}

Building ==
  /\ pc[Creator] = "new" => pool = "building"
  /\ pool = "building" =>
       /\ tasks = <<>>
       /\ poolRefs \subseteq {Creator}
       /\ Creator \in poolRefs => pc[Creator] = "new"
       /\ \A t \in Thread : pc[t] \notin {"idle", "exec"} \cup PostPC

Spawned ==
  /\ pc[Creator] = "new" => Range(workers) = Born
  /\ pool = "ready" => Born = Worker
  /\ IsInjective(workers)

TaskWakeup ==
  pool = "ready" /\ tasks # <<>> /\ ~shutdown =>
    \/ \E w \in Worker : Awake(w)
    \/ \E t \in Thread : pc[t] = "post_notify"

ShutdownWakeup ==
  shutdown /\ asleep # {} => \E t \in Thread : pc[t] = "shut_notify"

IInv == /\ TypeOK /\ EachTaskOnce /\ UserDataBalanced
        /\ RefsInv /\ LockInv /\ Building /\ Spawned
        /\ TaskWakeup /\ ShutdownWakeup

Stopping == ShutPC \cup {"free"}

(* Once no reference is left, one thread at most is inside                 *)
(* KWorkerPoolShutdown: the one that runs KWorkerPoolDeInit.               *)
OneCollector ==
  poolRefs = {} =>
    \A t, u \in Thread : pc[t] \in Stopping /\ pc[u] \in Stopping => t = u

(* Only threads that were created are joined, and only after the flag.     *)
JoinTargets ==
  /\ Range(workers) \subseteq Born
  /\ \A t \in Thread : joining[t] # None => joining[t] \in Born

FlagPC == {"shut_notify", "shut_join", "shut_wait", "free"}
FlagIsSet == \A t \in Thread : pc[t] \in FlagPC => shutdown

HInv == IInv /\ OneCollector /\ JoinTargets /\ FlagIsSet

USE PoolAssumption DEF Thread

-----------------------------------------------------------------------------
(* Sequences.                                                              *)

LEMMA RangeOfAppend ==
  ASSUME NEW S, NEW s \in Seq(S), NEW e \in S, IsInjective(s), e \notin Range(s)
  PROVE  /\ Range(Append(s, e)) = Range(s) \cup {e}
         /\ IsInjective(Append(s, e))
<1>1. /\ Append(s, e) \in Seq(S) /\ Len(Append(s, e)) = Len(s) + 1
      /\ \A i \in 1 .. Len(s) : Append(s, e)[i] = s[i]
      /\ Append(s, e)[Len(s) + 1] = e
  BY AppendProperties
<1>2. DOMAIN s = 1 .. Len(s) /\ DOMAIN Append(s, e) = 1 .. (Len(s) + 1)
  BY <1>1
<1>3. IsInjective(Append(s, e))
  BY <1>1, <1>2 DEF IsInjective, Range
<1>4. ASSUME NEW x \in Range(s) \cup {e} PROVE x \in Range(Append(s, e))
  <2>1. CASE x = e
    <3> Len(s) + 1 \in DOMAIN Append(s, e) BY <1>2
    <3> QED BY <1>1, <2>1 DEF Range
  <2>2. CASE x \in Range(s)
    <3>1. PICK i \in 1 .. Len(s) : x = s[i] BY <1>2, <2>2 DEF Range
    <3>2. i \in DOMAIN Append(s, e) /\ x = Append(s, e)[i] BY <1>1, <1>2, <3>1
    <3> QED BY <3>2 DEF Range
  <2> QED BY <2>1, <2>2
<1>5. ASSUME NEW x \in Range(Append(s, e)) PROVE x \in Range(s) \cup {e}
  BY <1>1, <1>2 DEF Range
<1> QED BY <1>3, <1>4, <1>5

LEMMA RangeOfTail ==
  ASSUME NEW S, NEW s \in Seq(S), s # <<>>, IsInjective(s)
  PROVE  /\ Head(s) \in Range(s)
         /\ Range(Tail(s)) = Range(s) \ {Head(s)}
         /\ IsInjective(Tail(s))
<1>1. /\ Tail(s) \in Seq(S) /\ Len(Tail(s)) = Len(s) - 1
      /\ \A i \in 1 .. Len(Tail(s)) : Tail(s)[i] = s[i + 1]
  BY HeadTailProperties
<1>2. Head(s) = s[1] /\ 1 \in 1 .. Len(s)
  OBVIOUS
<1>3. IsInjective(Tail(s)) /\ Head(s) \in Range(s)
  BY <1>1, <1>2 DEF Range, IsInjective
<1>4. ASSUME NEW x \in Range(Tail(s)) PROVE x \in Range(s) \ {Head(s)}
  BY <1>1, <1>2 DEF Range, IsInjective
<1>5. ASSUME NEW x \in Range(s) \ {Head(s)} PROVE x \in Range(Tail(s))
  <2>1. PICK i \in 1 .. Len(s) : x = s[i] BY DEF Range
  <2>2. i - 1 \in 1 .. Len(Tail(s)) /\ Tail(s)[i - 1] = s[i]
    BY <1>1, <1>2, <2>1
  <2>3. i - 1 \in DOMAIN Tail(s) BY <1>1, <2>2
  <2> QED BY <2>1, <2>2, <2>3 DEF Range
<1> QED BY <1>3, <1>4, <1>5

-----------------------------------------------------------------------------
(* Types.                                                                  *)

LEMMA LocalStateStep ==
  ASSUME TypeOK, RefsInv, Next, NEW x \in Thread
  PROVE  LocalState(x)'
<1> LocalState(x) /\ VariableTypes BY DEF TypeOK
<1> USE DEF VariableTypes, LocalState, ClientPC, WorkerPC, PoolPC, RefsInv,
            RefsUsers, ShutPC, Goto, cvVars, poolVars, joinVars, taskVars
<1>1. ASSUME NEW c \in Client, NEW d \in Client, Retain(c, d) PROVE LocalState(x)'
  BY <1>1 DEF Retain
<1>2. ASSUME NEW c \in Client, Release(c) PROVE LocalState(x)'
  BY <1>2 DEF Release, DropPoolRef
<1>3. ASSUME NEW w \in Worker, SpawnWorker(w) PROVE LocalState(x)'
  BY <1>3 DEF SpawnWorker
<1>4. ASSUME NEW w \in Worker, SpawnFails(w) PROVE LocalState(x)'
  BY <1>4 DEF SpawnFails
<1>5. ASSUME NewReturns PROVE LocalState(x)'
  BY <1>5 DEF NewReturns, DropPoolRef
<1>6. ASSUME NEW t \in Thread, NEW k \in Task, PostTask(t, k) PROVE LocalState(x)'
  BY <1>6 DEF PostTask, InUserCode, OwnsPoolRef, Unposted
<1>7. ASSUME NEW t \in Thread, PostEnter(t) PROVE LocalState(x)'
  BY <1>7 DEF PostEnter, CriticalSectionEnter
<1>8. ASSUME NEW t \in Thread, PostAdd(t) PROVE LocalState(x)'
  BY <1>8 DEF PostAdd, CriticalSectionExit, Enqueue
<1>9. ASSUME NEW t \in Thread, PostNotify(t) PROVE LocalState(x)'
  BY <1>9 DEF PostNotify, WakeAWorker, NotifyOne
<1>10. ASSUME NEW w \in Worker, WorkerEnter(w) PROVE LocalState(x)'
  BY <1>10 DEF WorkerEnter, CriticalSectionEnter
<1>11. ASSUME NEW w \in Worker, WorkerSleep(w) PROVE LocalState(x)'
  BY <1>11 DEF WorkerSleep, WaitBlock, KWorkerPoolCVPredicate
<1>12. ASSUME NEW w \in Worker, WorkerWake(w) PROVE LocalState(x)'
  BY <1>12 DEF WorkerWake, WaitReturn, CriticalSectionEnter
<1>13. ASSUME NEW w \in Worker, WorkerTake(w) PROVE LocalState(x)'
  BY <1>13 DEF WorkerTake, CriticalSectionExit, KWorkerPoolCVPredicate, RemoveFirst, AfterIteration
<1>14. ASSUME NEW w \in Worker, ExecuteTask(w) PROVE LocalState(x)'
  BY <1>14 DEF ExecuteTask, ClearTask, ReleaseUserData, DropPoolRef, AfterIteration
<1>15. ASSUME NEW c \in Client, Shutdown(c) PROVE LocalState(x)'
  BY <1>15 DEF Shutdown
<1>16. ASSUME NEW t \in Thread, ShutEnter(t) PROVE LocalState(x)'
  BY <1>16 DEF ShutEnter, CriticalSectionEnter
<1>17. ASSUME NEW t \in Thread, ShutSet(t) PROVE LocalState(x)'
  BY <1>17 DEF ShutSet, CriticalSectionExit
<1>18. ASSUME NEW t \in Thread, ShutNotify(t) PROVE LocalState(x)'
  BY <1>18 DEF ShutNotify, WakeEveryWorker, NotifyAll
<1>19. ASSUME NEW t \in Thread, ShutJoin(t) PROVE LocalState(x)'
  BY <1>19 DEF ShutJoin, NextIndex
<1>20. ASSUME NEW t \in Thread, ShutJoined(t) PROVE LocalState(x)'
  BY <1>20 DEF ShutJoined
<1>21. ASSUME NEW t \in Thread, ShutDone(t) PROVE LocalState(x)'
  BY <1>21 DEF ShutDone
<1>22. ASSUME NEW t \in Thread, Free(t) PROVE LocalState(x)'
  BY <1>22 DEF Free, AfterIteration
<1>23. ASSUME NEW w \in Worker, Spurious(w) PROVE LocalState(x)'
  BY <1>23 DEF Spurious, SpuriousWakeup
<1>24. CASE Terminated BY <1>24 DEF Terminated, vars
<1> QED BY <1>1, <1>2, <1>3, <1>4, <1>5, <1>6, <1>7, <1>8, <1>9, <1>10,
  <1>11, <1>12, <1>13, <1>14, <1>15, <1>16, <1>17, <1>18, <1>19, <1>20,
  <1>21, <1>22, <1>23, <1>24 DEF Next, NewStep, PoolCall, WorkerStep,
  ClientChoice

LEMMA VariableTypesStep ==
  ASSUME TypeOK, Next, \A x \in Thread : LocalState(x)'
  PROVE  VariableTypes'
<1> USE DEF TypeOK, VariableTypes, LocalState, CVTypeOK, Goto, cvVars, poolVars,
            joinVars, taskVars
<1>1. ASSUME NEW c \in Client, NEW d \in Client, Retain(c, d) PROVE VariableTypes'
  BY <1>1 DEF Retain
<1>2. ASSUME NEW c \in Client, Release(c) PROVE VariableTypes'
  BY <1>2 DEF Release, DropPoolRef
<1>3. ASSUME NEW w \in Worker, SpawnWorker(w) PROVE VariableTypes'
  BY <1>3 DEF SpawnWorker
<1>4. ASSUME NEW w \in Worker, SpawnFails(w) PROVE VariableTypes'
  BY <1>4 DEF SpawnFails
<1>5. ASSUME NewReturns PROVE VariableTypes'
  BY <1>5 DEF NewReturns, DropPoolRef
<1>6. ASSUME NEW t \in Thread, NEW k \in Task, PostTask(t, k) PROVE VariableTypes'
  BY <1>6 DEF PostTask, RetainUserData, InUserCode, OwnsPoolRef, Unposted
<1>7. ASSUME NEW t \in Thread, PostEnter(t) PROVE VariableTypes'
  BY <1>7 DEF PostEnter, CriticalSectionEnter
<1>8. ASSUME NEW t \in Thread, PostAdd(t) PROVE VariableTypes'
  BY <1>8 DEF PostAdd, CriticalSectionExit, Enqueue
<1>9. ASSUME NEW t \in Thread, PostNotify(t) PROVE VariableTypes'
  BY <1>9 DEF PostNotify, WakeAWorker, NotifyOne
<1>10. ASSUME NEW w \in Worker, WorkerEnter(w) PROVE VariableTypes'
  BY <1>10 DEF WorkerEnter, CriticalSectionEnter
<1>11. ASSUME NEW w \in Worker, WorkerSleep(w) PROVE VariableTypes'
  BY <1>11 DEF WorkerSleep, WaitBlock, KWorkerPoolCVPredicate
<1>12. ASSUME NEW w \in Worker, WorkerWake(w) PROVE VariableTypes'
  BY <1>12 DEF WorkerWake, WaitReturn, CriticalSectionEnter
<1>13. ASSUME NEW w \in Worker, WorkerTake(w) PROVE VariableTypes'
  <2>1. tasks # <<>> => Head(tasks) \in Task /\ Tail(tasks) \in Seq(Task)
    BY HeadTailProperties
  <2>2. pc' \in [Thread -> ClientPC \cup WorkerPC]
    BY <1>13 DEF WorkerTake
  <2>3. tasks' \in Seq(Task)
    <3>1. CASE tasks' = Tail(tasks) /\ tasks # <<>> BY <2>1, <3>1
    <3>2. CASE tasks' = tasks BY <3>2
    <3> QED BY <1>13, <3>1, <3>2 DEF WorkerTake, RemoveFirst
  <2>4. current' \in [Worker -> Task \cup {None}]
    <3>1. CASE current' = [current EXCEPT ![w] = Head(tasks)] /\ tasks # <<>>
      BY <2>1, <3>1
    <3>2. CASE current' = current BY <3>2
    <3> QED BY <1>13, <3>1, <3>2 DEF WorkerTake
  <2> QED BY <1>13, <2>2, <2>3, <2>4 DEF WorkerTake, CriticalSectionExit
<1>14. ASSUME NEW w \in Worker, ExecuteTask(w) PROVE VariableTypes'
  BY <1>14 DEF ExecuteTask, ClearTask, ReleaseUserData, DropPoolRef, AfterIteration
<1>15. ASSUME NEW c \in Client, Shutdown(c) PROVE VariableTypes'
  BY <1>15 DEF Shutdown
<1>16. ASSUME NEW t \in Thread, ShutEnter(t) PROVE VariableTypes'
  BY <1>16 DEF ShutEnter, CriticalSectionEnter
<1>17. ASSUME NEW t \in Thread, ShutSet(t) PROVE VariableTypes'
  BY <1>17 DEF ShutSet, CriticalSectionExit, Range
<1>18. ASSUME NEW t \in Thread, ShutNotify(t) PROVE VariableTypes'
  BY <1>18 DEF ShutNotify, WakeEveryWorker, NotifyAll
<1>19. ASSUME NEW t \in Thread, ShutJoin(t) PROVE VariableTypes'
  <2>1. workers[joinIndex[t]] \in Worker
    BY <1>19 DEF ShutJoin
  <2>2. joining' \in [Thread -> Worker \cup {None}]
    <3>1. CASE joining' = [joining EXCEPT ![t] = workers[joinIndex[t]]]
      BY <2>1, <3>1
    <3>2. CASE joining' = joining BY <3>2
    <3> QED BY <1>19, <3>1, <3>2 DEF ShutJoin
  <2>3. pc' \in [Thread -> ClientPC \cup WorkerPC]
    BY <1>19 DEF ShutJoin
  <2>4. joinIndex' \in [Thread -> Nat]
    BY <1>19 DEF ShutJoin, NextIndex
  <2> QED BY <1>19, <2>2, <2>3, <2>4 DEF ShutJoin
<1>20. ASSUME NEW t \in Thread, ShutJoined(t) PROVE VariableTypes'
  BY <1>20 DEF ShutJoined, JoinReturns
<1>21. ASSUME NEW t \in Thread, ShutDone(t) PROVE VariableTypes'
  BY <1>21 DEF ShutDone
<1>22. ASSUME NEW t \in Thread, Free(t) PROVE VariableTypes'
  BY <1>22 DEF Free, AfterIteration, Range
<1>23. ASSUME NEW w \in Worker, Spurious(w) PROVE VariableTypes'
  BY <1>23 DEF Spurious, SpuriousWakeup
<1>24. CASE Terminated BY <1>24 DEF Terminated, vars
<1> QED BY <1>1, <1>2, <1>3, <1>4, <1>5, <1>6, <1>7, <1>8, <1>9, <1>10,
  <1>11, <1>12, <1>13, <1>14, <1>15, <1>16, <1>17, <1>18, <1>19, <1>20,
  <1>21, <1>22, <1>23, <1>24 DEF Next, NewStep, PoolCall, WorkerStep,
  ClientChoice

LEMMA TypeStep ==
  ASSUME TypeOK, RefsInv, Next
  PROVE  TypeOK'
BY LocalStateStep, VariableTypesStep DEF TypeOK

-----------------------------------------------------------------------------
(* Where the tasks are.                                                    *)

placeVars == <<posting, tasks, current, done, dropped, userRefs>>

(* A step that changes where a task is moves exactly one task, from one    *)
(* place to the next; only KWorkerPoolDeInit moves all that are queued.    *)
Moves ==
  \/ \E k \in Unposted :
       /\ Posting' = Posting \cup {k}
       /\ Range(tasks)' = Range(tasks) /\ Executing' = Executing
       /\ userRefs' = [userRefs EXCEPT ![k] = @ + 1]
       /\ poolRefs' = IF k \in PoolTask THEN poolRefs \cup {k} ELSE poolRefs
       /\ UNCHANGED <<done, dropped>>
  \/ \E k \in Posting :
       /\ Posting' = Posting \ {k} /\ Range(tasks)' = Range(tasks) \cup {k}
       /\ Executing' = Executing /\ UNCHANGED <<done, dropped, userRefs, poolRefs>>
  \/ \E k \in Range(tasks) :
       /\ Range(tasks)' = Range(tasks) \ {k} /\ Executing' = Executing \cup {k}
       /\ Posting' = Posting /\ UNCHANGED <<done, dropped, userRefs, poolRefs>>
  \/ \E k \in Executing :
       /\ Executing' = Executing \ {k} /\ done' = done \cup {k}
       /\ Posting' = Posting /\ Range(tasks)' = Range(tasks)
       /\ userRefs' = [userRefs EXCEPT ![k] = @ - 1]
       /\ poolRefs' = IF k \in PoolTask THEN poolRefs \ {k} ELSE poolRefs
       /\ UNCHANGED dropped
  \/ /\ Range(tasks)' = {} /\ dropped' = dropped \cup Range(tasks)
     /\ Posting' = Posting /\ Executing' = Executing
     /\ userRefs' = [k \in Task |-> IF k \in Range(tasks) THEN userRefs[k] - 1
                                                          ELSE userRefs[k]]
     /\ UNCHANGED <<done, poolRefs>>
  \/ /\ Posting' = Posting /\ Range(tasks)' = Range(tasks)
     /\ Executing' = Executing /\ UNCHANGED <<done, dropped, userRefs>>
     /\ poolRefs' \cap Task = poolRefs \cap Task

LEMMA TaskMoves ==
  ASSUME TypeOK, EachTaskOnce, Next
  PROVE  Moves /\ OneHolder'
<1> VariableTypes /\ OneHolder /\ OnePlace BY DEF TypeOK, EachTaskOnce
<1>1. ASSUME NEW t \in Thread, NEW k \in Task, PostTask(t, k)
      PROVE Moves /\ OneHolder'
  <2>1. /\ posting' = [posting EXCEPT ![t] = k] /\ k \in Unposted
        /\ userRefs' = [userRefs EXCEPT ![k] = @ + 1]
        /\ poolRefs' = IF k \in PoolTask THEN poolRefs \cup {k} ELSE poolRefs
        /\ UNCHANGED <<tasks, current, done, dropped>>
    BY <1>1 DEF PostTask, RetainUserData
  <2>2. posting[t] = None /\ k # None
    BY <1>1, PoolAssumption DEF PostTask, InUserCode, TypeOK, LocalState
  <2>3. Posting' = Posting \cup {k}
    BY <2>1, <2>2 DEF Posting, VariableTypes
  <2>4. k \notin Posting BY <2>1 DEF Unposted, InFlight
  <2>5. OneHolder' BY <2>1, <2>2, <2>4 DEF OneHolder, Posting, VariableTypes
  <2>6. Executing' = Executing BY <2>1 DEF Executing
  <2> QED BY <2>1, <2>3, <2>5, <2>6 DEF Moves
<1>2. ASSUME NEW t \in Thread, PostAdd(t) PROVE Moves /\ OneHolder'
  <2>1. posting[t] \in Task /\ posting[t] \in Posting
    BY <1>2 DEF PostAdd, TypeOK, LocalState, VariableTypes, Posting
  <2>2. /\ tasks' = Append(tasks, posting[t])
        /\ posting' = [posting EXCEPT ![t] = None]
        /\ UNCHANGED <<current, done, dropped, userRefs, poolRefs>>
    BY <1>2 DEF PostAdd, Enqueue, taskVars, poolVars
  <2>3. Range(tasks)' = Range(tasks) \cup {posting[t]} /\ IsInjective(tasks')
    BY <2>1, <2>2, RangeOfAppend DEF VariableTypes, OneHolder, OnePlace
  <2>4. Posting' = Posting \ {posting[t]}
    BY <2>1, <2>2 DEF Posting, VariableTypes, OneHolder
  <2>5. OneHolder' BY <2>2, <2>3 DEF OneHolder, VariableTypes
  <2>6. Executing' = Executing BY <2>2 DEF Executing
  <2> QED BY <2>1, <2>2, <2>3, <2>4, <2>5, <2>6 DEF Moves
<1>3. ASSUME NEW w \in Worker, WorkerTake(w), tasks # <<>>
      PROVE Moves /\ OneHolder'
  <2>1. /\ tasks' = Tail(tasks)
        /\ current' = [current EXCEPT ![w] = Head(tasks)]
        /\ UNCHANGED <<posting, done, dropped, userRefs, poolRefs>>
    BY <1>3 DEF WorkerTake, RemoveFirst, taskVars, poolVars
  <2>2. /\ Head(tasks) \in Range(tasks) /\ IsInjective(tasks')
        /\ Range(tasks)' = Range(tasks) \ {Head(tasks)}
    BY <1>3, <2>1, RangeOfTail DEF VariableTypes, OneHolder
  <2>3. current[w] = None /\ Head(tasks) \in Task
    BY <1>3, HeadTailProperties DEF WorkerTake, TypeOK, VariableTypes, LocalState
  <2>4. Executing' = Executing \cup {Head(tasks)}
    BY <2>1, <2>3, PoolAssumption DEF Executing, VariableTypes
  <2>5. Head(tasks) \notin Executing BY <2>2 DEF OnePlace
  <2>6. OneHolder'
    BY <2>1, <2>2, <2>3, <2>5 DEF OneHolder, Executing, VariableTypes
  <2>7. Posting' = Posting BY <2>1 DEF Posting
  <2> QED BY <2>1, <2>2, <2>4, <2>6, <2>7 DEF Moves
<1>4. ASSUME NEW w \in Worker, ExecuteTask(w) PROVE Moves /\ OneHolder'
  <2>1. current[w] \in Executing
    BY <1>4 DEF ExecuteTask, TypeOK, LocalState, Executing
  <2>2. /\ current' = [current EXCEPT ![w] = None]
        /\ done' = done \cup {current[w]}
        /\ userRefs' = [userRefs EXCEPT ![current[w]] = @ - 1]
        /\ poolRefs' = IF current[w] \in PoolTask THEN poolRefs \ {current[w]}
                                                 ELSE poolRefs
        /\ UNCHANGED <<posting, tasks, dropped>>
    BY <1>4 DEF ExecuteTask, ClearTask, ReleaseUserData, DropPoolRef
  <2>3. Executing' = Executing \ {current[w]}
    BY <2>1, <2>2 DEF Executing, VariableTypes, OneHolder
  <2>4. OneHolder' BY <2>2 DEF OneHolder, VariableTypes
  <2>5. Posting' = Posting BY <2>2 DEF Posting
  <2> QED BY <2>1, <2>2, <2>3, <2>4, <2>5 DEF Moves
<1>5. ASSUME NEW t \in Thread, Free(t) PROVE Moves /\ OneHolder'
  <2>1. /\ tasks' = <<>> /\ dropped' = dropped \cup Range(tasks)
        /\ userRefs' = [k \in Task |-> IF k \in Range(tasks) THEN userRefs[k] - 1
                                                             ELSE userRefs[k]]
        /\ UNCHANGED <<posting, current, done, poolRefs>>
    BY <1>5 DEF Free
  <2>2. Range(tasks)' = {} /\ IsInjective(tasks')
    BY <2>1 DEF Range, IsInjective
  <2>3. OneHolder' BY <2>1, <2>2 DEF OneHolder
  <2>4. Posting' = Posting /\ Executing' = Executing
    BY <2>1 DEF Posting, Executing
  <2> QED BY <2>1, <2>2, <2>3, <2>4 DEF Moves
<1>6. CASE UNCHANGED placeVars /\ poolRefs' \cap Task = poolRefs \cap Task
  BY <1>6 DEF placeVars, OneHolder, Moves, Posting, Executing
<1> QED
  BY <1>1, <1>2, <1>3, <1>4, <1>5, <1>6, PoolAssumption DEF Next, DropPoolRef, poolVars, NewStep, PoolCall, WorkerStep,
    ClientChoice, Terminated, vars, taskVars, placeVars, Retain, Release, SpawnWorker, SpawnFails, NewReturns, PostEnter, PostNotify, WorkerEnter, WorkerSleep, WorkerWake, WorkerTake, Shutdown, ShutEnter, ShutSet, ShutNotify, ShutJoin, ShutJoined, ShutDone, Spurious

LEMMA EachTaskOnceStep ==
  ASSUME TypeOK, EachTaskOnce, Next
  PROVE  EachTaskOnce'
BY TaskMoves DEF EachTaskOnce, OnePlace, Moves, Unposted, InFlight

LEMMA UserDataStep ==
  ASSUME TypeOK, EachTaskOnce, UserDataBalanced, Next
  PROVE  UserDataBalanced'
<1> VariableTypes BY DEF TypeOK
<1>1. Moves BY TaskMoves
<1>2. InFlight \subseteq Task
  BY DEF VariableTypes, InFlight, Posting, Executing, Range
<1>3. InFlight' = Posting' \cup Range(tasks)' \cup Executing'
  BY DEF InFlight
<1> QED
  BY <1>1, <1>2, <1>3 DEF UserDataBalanced, Moves, InFlight, EachTaskOnce, OnePlace, Unposted, VariableTypes

LEMMA PoolTaskStep ==
  ASSUME TypeOK, EachTaskOnce, PoolTask \cap InFlight \subseteq poolRefs, Next
  PROVE  (PoolTask \cap InFlight \subseteq poolRefs)'
<1>1. Moves BY TaskMoves
<1>2. InFlight' = Posting' \cup Range(tasks)' \cup Executing'
  BY DEF InFlight
<1>3. PoolTask \subseteq Task
  BY PoolAssumption
<1>4. PoolTask \cap InFlight' \subseteq poolRefs'
  BY <1>1, <1>2, <1>3 DEF Moves, InFlight, EachTaskOnce, OnePlace, Unposted
<1> QED BY <1>4

-----------------------------------------------------------------------------
(* References on the pool.                                                 *)

LEMMA RefsStep ==
  ASSUME TypeOK, RefsInv, Next
  PROVE  RefsUsers'
<1> VariableTypes /\ \A t \in Thread : LocalState(t) BY DEF TypeOK
<1> RefsUsers BY DEF RefsInv, RefsUsers
<1> USE DEF VariableTypes, RefsUsers, ShutPC, PostPC, Goto, cvVars, poolVars,
            joinVars, taskVars
<1>1. ASSUME NEW c \in Client, NEW d \in Client, Retain(c, d) PROVE RefsUsers'
  BY <1>1 DEF Retain
<1>2. ASSUME NEW c \in Client, Release(c) PROVE RefsUsers'
  BY <1>2 DEF Release, DropPoolRef
<1>3. ASSUME NEW w \in Worker, SpawnWorker(w) PROVE RefsUsers'
  BY <1>3 DEF SpawnWorker
<1>4. ASSUME NEW w \in Worker, SpawnFails(w) PROVE RefsUsers'
  BY <1>4 DEF SpawnFails
<1>5. ASSUME NewReturns PROVE RefsUsers'
  <2>1. CASE pc' = [pc EXCEPT ![Creator] = "idle"] /\ poolRefs' = poolRefs
    BY <1>5, <2>1 DEF NewReturns
  <2>2. CASE DropPoolRef(Creator, Creator, "gone")
    BY <1>5, <2>2 DEF NewReturns, DropPoolRef
  <2> QED BY <1>5, <2>1, <2>2 DEF NewReturns
<1>6. ASSUME NEW t \in Thread, NEW k \in Task, PostTask(t, k) PROVE RefsUsers'
  <2>1. k \in PoolTask => poolRefs # {}
    <3>1. CASE t \in Client BY <1>6, <3>1 DEF PostTask, InUserCode
    <3>2. CASE t \in Worker /\ k \in PoolTask
      <4> current[t] \in PoolTask \cap InFlight
        BY <1>6, <3>2 DEF PostTask, OwnsPoolRef, InFlight, Executing
      <4> QED BY DEF RefsInv
    <3> QED BY <3>1, <3>2
  <2> QED BY <1>6, <2>1 DEF PostTask, InUserCode
<1>7. ASSUME NEW t \in Thread, PostEnter(t) PROVE RefsUsers'
  BY <1>7 DEF PostEnter, CriticalSectionEnter
<1>8. ASSUME NEW t \in Thread, PostAdd(t) PROVE RefsUsers'
  BY <1>8 DEF PostAdd, CriticalSectionExit, Enqueue
<1>9. ASSUME NEW t \in Thread, PostNotify(t) PROVE RefsUsers'
  BY <1>9 DEF PostNotify, WakeAWorker, NotifyOne
<1>10. ASSUME NEW w \in Worker, WorkerEnter(w) PROVE RefsUsers'
  BY <1>10 DEF WorkerEnter, CriticalSectionEnter
<1>11. ASSUME NEW w \in Worker, WorkerSleep(w) PROVE RefsUsers'
  BY <1>11 DEF WorkerSleep, WaitBlock, KWorkerPoolCVPredicate
<1>12. ASSUME NEW w \in Worker, WorkerWake(w) PROVE RefsUsers'
  BY <1>12 DEF WorkerWake, WaitReturn, CriticalSectionEnter
<1>13. ASSUME NEW w \in Worker, WorkerTake(w) PROVE RefsUsers'
  <2>1. PICK l \in {"exec", "loop", "exited"} : pc' = [pc EXCEPT ![w] = l]
    BY <1>13 DEF WorkerTake, AfterIteration
  <2> QED BY <1>13, <2>1 DEF WorkerTake
<1>14. ASSUME NEW w \in Worker, ExecuteTask(w) PROVE RefsUsers'
  <2>1. PICK l \in {"loop", "exited", "shut_enter"} :
          pc' = [pc EXCEPT ![w] = l] /\ (l = "shut_enter" => poolRefs' = {})
    BY <1>14 DEF ExecuteTask, DropPoolRef, AfterIteration
  <2>2. poolRefs' = poolRefs \/ \E k \in Task : poolRefs' = poolRefs \ {k}
    BY <1>14 DEF ExecuteTask, DropPoolRef
  <2>3. (poolRefs = {} => poolRefs' = {}) /\ \A c \in Client : c \in poolRefs => c \in poolRefs'
    BY <2>2
  <2> QED BY <2>1, <2>3
<1>15. ASSUME NEW c \in Client, Shutdown(c) PROVE RefsUsers'
  BY <1>15 DEF Shutdown
<1>16. ASSUME NEW t \in Thread, ShutEnter(t) PROVE RefsUsers'
  BY <1>16 DEF ShutEnter, CriticalSectionEnter
<1>17. ASSUME NEW t \in Thread, ShutSet(t) PROVE RefsUsers'
  BY <1>17 DEF ShutSet, CriticalSectionExit
<1>18. ASSUME NEW t \in Thread, ShutNotify(t) PROVE RefsUsers'
  BY <1>18 DEF ShutNotify, WakeEveryWorker, NotifyAll
<1>19. ASSUME NEW t \in Thread, ShutJoin(t) PROVE RefsUsers'
  BY <1>19 DEF ShutJoin, NextIndex
<1>20. ASSUME NEW t \in Thread, ShutJoined(t) PROVE RefsUsers'
  BY <1>20 DEF ShutJoined
<1>21. ASSUME NEW t \in Thread, ShutDone(t) PROVE RefsUsers'
  BY <1>21 DEF ShutDone
<1>22. ASSUME NEW t \in Thread, Free(t) PROVE RefsUsers'
  BY <1>22 DEF Free, AfterIteration
<1>23. ASSUME NEW w \in Worker, Spurious(w) PROVE RefsUsers'
  BY <1>23 DEF Spurious, SpuriousWakeup
<1>24. CASE Terminated BY <1>24 DEF Terminated, vars
<1> QED BY <1>1, <1>2, <1>3, <1>4, <1>5, <1>6, <1>7, <1>8, <1>9, <1>10,
  <1>11, <1>12, <1>13, <1>14, <1>15, <1>16, <1>17, <1>18, <1>19, <1>20,
  <1>21, <1>22, <1>23, <1>24 DEF Next, NewStep, PoolCall, WorkerStep,
  ClientChoice

-----------------------------------------------------------------------------
(* The critical section.                                                   *)

LEMMA LockStep ==
  ASSUME TypeOK, LockInv, Next
  PROVE  LockInv'
<1> VariableTypes /\ \A t \in Thread : LocalState(t) BY DEF TypeOK
<1> USE DEF VariableTypes, LockInv, Goto, cvVars, poolVars, joinVars, taskVars
<1>1. ASSUME NEW c \in Client, NEW d \in Client, Retain(c, d) PROVE LockInv'
  BY <1>1 DEF Retain
<1>2. ASSUME NEW c \in Client, Release(c) PROVE LockInv'
  BY <1>2 DEF Release, DropPoolRef
<1>3. ASSUME NEW w \in Worker, SpawnWorker(w) PROVE LockInv'
  BY <1>3 DEF SpawnWorker
<1>4. ASSUME NEW w \in Worker, SpawnFails(w) PROVE LockInv'
  BY <1>4 DEF SpawnFails
<1>5. ASSUME NewReturns PROVE LockInv'
  <2>1. PICK l \in {"idle", "shut_enter", "gone"} :
          pc' = [pc EXCEPT ![Creator] = l]
    BY <1>5 DEF NewReturns, DropPoolRef
  <2>2. pc[Creator] = "new" /\ UNCHANGED <<holder, asleep, running, shutdown>>
    BY <1>5 DEF NewReturns
  <2> QED BY <2>1, <2>2
<1>6. ASSUME NEW t \in Thread, NEW k \in Task, PostTask(t, k) PROVE LockInv'
  <2>1. /\ pc[t] = "exec" \/ pc[t] = "idle"
        /\ pc' = [pc EXCEPT ![t] = "post_enter"]
        /\ UNCHANGED <<holder, asleep, running, shutdown>>
    BY <1>6 DEF PostTask, InUserCode
  <2>2. ASSUME NEW x \in Thread
        PROVE (holder = x <=> pc[x] \in {"post_add", "shut_set", "test"})'
    BY <2>1
  <2>3. \A x \in asleep' : pc'[x] = "wait" BY <2>1
  <2>4. \A w \in Worker : (pc[w] = "exited" \/ ~running[w] => shutdown)' BY <2>1
  <2> QED BY <2>2, <2>3, <2>4
<1>7. ASSUME NEW t \in Thread, PostEnter(t) PROVE LockInv'
  BY <1>7 DEF PostEnter, CriticalSectionEnter
<1>8. ASSUME NEW t \in Thread, PostAdd(t) PROVE LockInv'
  BY <1>8 DEF PostAdd, CriticalSectionExit, Enqueue
<1>9. ASSUME NEW t \in Thread, PostNotify(t) PROVE LockInv'
  BY <1>9 DEF PostNotify, WakeAWorker, NotifyOne
<1>10. ASSUME NEW w \in Worker, WorkerEnter(w) PROVE LockInv'
  BY <1>10 DEF WorkerEnter, CriticalSectionEnter
<1>11. ASSUME NEW w \in Worker, WorkerSleep(w) PROVE LockInv'
  BY <1>11 DEF WorkerSleep, WaitBlock, KWorkerPoolCVPredicate
<1>12. ASSUME NEW w \in Worker, WorkerWake(w) PROVE LockInv'
  BY <1>12 DEF WorkerWake, WaitReturn, CriticalSectionEnter
<1>13. ASSUME NEW w \in Worker, WorkerTake(w) PROVE LockInv'
  <2>1. PICK l \in {"exec", "loop", "exited"} :
          pc' = [pc EXCEPT ![w] = l] /\ (l = "exited" => ~running[w])
    BY <1>13 DEF WorkerTake, AfterIteration
  <2>2. pc[w] = "test" /\ holder' = None /\ UNCHANGED <<asleep, running, shutdown>>
    BY <1>13 DEF WorkerTake, CriticalSectionExit
  <2> QED BY <2>1, <2>2
<1>14. ASSUME NEW w \in Worker, ExecuteTask(w) PROVE LockInv'
  <2>1. PICK l \in {"loop", "exited", "shut_enter"} :
          pc' = [pc EXCEPT ![w] = l] /\ (l = "exited" => ~running[w])
    BY <1>14 DEF ExecuteTask, DropPoolRef, AfterIteration
  <2>2. pc[w] = "exec" /\ UNCHANGED <<holder, asleep, running, shutdown>>
    BY <1>14 DEF ExecuteTask
  <2> QED BY <2>1, <2>2
<1>15. ASSUME NEW c \in Client, Shutdown(c) PROVE LockInv'
  BY <1>15 DEF Shutdown
<1>16. ASSUME NEW t \in Thread, ShutEnter(t) PROVE LockInv'
  BY <1>16 DEF ShutEnter, CriticalSectionEnter
<1>17. ASSUME NEW t \in Thread, ShutSet(t) PROVE LockInv'
  BY <1>17 DEF ShutSet, CriticalSectionExit
<1>18. ASSUME NEW t \in Thread, ShutNotify(t) PROVE LockInv'
  BY <1>18 DEF ShutNotify, WakeEveryWorker, NotifyAll
<1>19. ASSUME NEW t \in Thread, ShutJoin(t) PROVE LockInv'
  <2>1. PICK l \in {"shut_join", "shut_wait"} : pc' = [pc EXCEPT ![t] = l]
    BY <1>19 DEF ShutJoin
  <2>2. pc[t] = "shut_join" /\ UNCHANGED <<holder, asleep, running, shutdown>>
    BY <1>19 DEF ShutJoin
  <2> QED BY <2>1, <2>2
<1>20. ASSUME NEW t \in Thread, ShutJoined(t) PROVE LockInv'
  <2>1. /\ pc[t] = "shut_wait" /\ pc' = [pc EXCEPT ![t] = "shut_join"]
        /\ UNCHANGED <<holder, asleep, running, shutdown>>
    BY <1>20 DEF ShutJoined
  <2> QED BY <2>1
<1>21. ASSUME NEW t \in Thread, ShutDone(t) PROVE LockInv'
  BY <1>21 DEF ShutDone
<1>22. ASSUME NEW t \in Thread, Free(t) PROVE LockInv'
  BY <1>22 DEF Free, AfterIteration
<1>23. ASSUME NEW w \in Worker, Spurious(w) PROVE LockInv'
  BY <1>23 DEF Spurious, SpuriousWakeup
<1>24. CASE Terminated BY <1>24 DEF Terminated, vars
<1> QED BY <1>1, <1>2, <1>3, <1>4, <1>5, <1>6, <1>7, <1>8, <1>9, <1>10,
  <1>11, <1>12, <1>13, <1>14, <1>15, <1>16, <1>17, <1>18, <1>19, <1>20,
  <1>21, <1>22, <1>23, <1>24 DEF Next, NewStep, PoolCall, WorkerStep,
  ClientChoice

-----------------------------------------------------------------------------
(* KWorkerPoolNew.                                                         *)

LEMMA BornStep ==
  ASSUME TypeOK, Next, ~\E w \in Worker : SpawnWorker(w) \/ SpawnFails(w)
  PROVE  Born' = Born
<1> VariableTypes /\ \A t \in Thread : LocalState(t) BY DEF TypeOK
<1> USE DEF VariableTypes, LocalState, ClientPC, PoolPC, Born, Goto
<1>1. ASSUME NEW c \in Client, NEW d \in Client, Retain(c, d) PROVE Born' = Born
  BY <1>1 DEF Retain
<1>2. ASSUME NEW c \in Client, Release(c) PROVE Born' = Born
  BY <1>2 DEF Release, DropPoolRef
<1>3. ASSUME NewReturns PROVE Born' = Born
  BY <1>3 DEF NewReturns, DropPoolRef
<1>4. ASSUME NEW t \in Thread, NEW k \in Task, PostTask(t, k) PROVE Born' = Born
  BY <1>4 DEF PostTask, InUserCode
<1>5. ASSUME NEW t \in Thread, PostEnter(t) PROVE Born' = Born
  BY <1>5 DEF PostEnter, CriticalSectionEnter
<1>6. ASSUME NEW t \in Thread, PostAdd(t) PROVE Born' = Born
  BY <1>6 DEF PostAdd, CriticalSectionExit, Enqueue
<1>7. ASSUME NEW t \in Thread, PostNotify(t) PROVE Born' = Born
  BY <1>7 DEF PostNotify, WakeAWorker, NotifyOne
<1>8. ASSUME NEW w \in Worker, WorkerEnter(w) PROVE Born' = Born
  BY <1>8 DEF WorkerEnter, CriticalSectionEnter
<1>9. ASSUME NEW w \in Worker, WorkerSleep(w) PROVE Born' = Born
  BY <1>9 DEF WorkerSleep, WaitBlock, KWorkerPoolCVPredicate
<1>10. ASSUME NEW w \in Worker, WorkerWake(w) PROVE Born' = Born
  BY <1>10 DEF WorkerWake, WaitReturn, CriticalSectionEnter
<1>11. ASSUME NEW w \in Worker, WorkerTake(w) PROVE Born' = Born
  BY <1>11 DEF WorkerTake, CriticalSectionExit, KWorkerPoolCVPredicate, RemoveFirst, AfterIteration
<1>12. ASSUME NEW w \in Worker, ExecuteTask(w) PROVE Born' = Born
  BY <1>12 DEF ExecuteTask, ClearTask, ReleaseUserData, DropPoolRef, AfterIteration
<1>13. ASSUME NEW c \in Client, Shutdown(c) PROVE Born' = Born
  BY <1>13 DEF Shutdown
<1>14. ASSUME NEW t \in Thread, ShutEnter(t) PROVE Born' = Born
  BY <1>14 DEF ShutEnter, CriticalSectionEnter
<1>15. ASSUME NEW t \in Thread, ShutSet(t) PROVE Born' = Born
  BY <1>15 DEF ShutSet, CriticalSectionExit
<1>16. ASSUME NEW t \in Thread, ShutNotify(t) PROVE Born' = Born
  BY <1>16 DEF ShutNotify, WakeEveryWorker, NotifyAll
<1>17. ASSUME NEW t \in Thread, ShutJoin(t) PROVE Born' = Born
  BY <1>17 DEF ShutJoin, NextIndex
<1>18. ASSUME NEW t \in Thread, ShutJoined(t) PROVE Born' = Born
  BY <1>18 DEF ShutJoined
<1>19. ASSUME NEW t \in Thread, ShutDone(t) PROVE Born' = Born
  BY <1>19 DEF ShutDone
<1>20. ASSUME NEW t \in Thread, Free(t) PROVE Born' = Born
  BY <1>20 DEF Free, AfterIteration
<1>21. ASSUME NEW w \in Worker, Spurious(w) PROVE Born' = Born
  BY <1>21 DEF Spurious, SpuriousWakeup
<1>22. CASE Terminated BY <1>22 DEF Terminated, vars
<1> QED BY <1>1, <1>2, <1>3, <1>4, <1>5, <1>6, <1>7, <1>8, <1>9, <1>10,
  <1>11, <1>12, <1>13, <1>14, <1>15, <1>16, <1>17, <1>18, <1>19, <1>20,
  <1>21, <1>22 DEF Next, NewStep, PoolCall, WorkerStep,
  ClientChoice

LEMMA BuildingStep ==
  ASSUME TypeOK, RefsInv, Building, Next
  PROVE  Building'
<1> VariableTypes /\ \A t \in Thread : LocalState(t) BY DEF TypeOK
<1> USE DEF VariableTypes, Building, RefsInv, RefsUsers, ShutPC, PostPC, Goto, poolVars, joinVars
<1>1. ASSUME NEW c \in Client, NEW d \in Client, Retain(c, d) PROVE Building'
  BY <1>1 DEF Retain
<1>2. ASSUME NEW c \in Client, Release(c) PROVE Building'
  BY <1>2 DEF Release, DropPoolRef
<1>3. ASSUME NEW w \in Worker, SpawnWorker(w) PROVE Building'
  BY <1>3 DEF SpawnWorker
<1>4. ASSUME NEW w \in Worker, SpawnFails(w) PROVE Building'
  BY <1>4 DEF SpawnFails
<1>5. ASSUME NewReturns PROVE Building'
  BY <1>5 DEF NewReturns, DropPoolRef
<1>6. ASSUME NEW t \in Thread, NEW k \in Task, PostTask(t, k) PROVE Building'
  BY <1>6 DEF PostTask, InUserCode
<1>7. ASSUME NEW t \in Thread, PostEnter(t) PROVE Building'
  BY <1>7 DEF PostEnter, CriticalSectionEnter
<1>8. ASSUME NEW t \in Thread, PostAdd(t) PROVE Building'
  BY <1>8 DEF PostAdd, CriticalSectionExit, Enqueue
<1>9. ASSUME NEW t \in Thread, PostNotify(t) PROVE Building'
  BY <1>9 DEF PostNotify, WakeAWorker, NotifyOne
<1>10. ASSUME NEW w \in Worker, WorkerEnter(w) PROVE Building'
  BY <1>10 DEF WorkerEnter, CriticalSectionEnter
<1>11. ASSUME NEW w \in Worker, WorkerSleep(w) PROVE Building'
  BY <1>11 DEF WorkerSleep, WaitBlock, KWorkerPoolCVPredicate
<1>12. ASSUME NEW w \in Worker, WorkerWake(w) PROVE Building'
  BY <1>12 DEF WorkerWake, WaitReturn, CriticalSectionEnter
<1>13. ASSUME NEW w \in Worker, WorkerTake(w) PROVE Building'
  BY <1>13 DEF WorkerTake, CriticalSectionExit, KWorkerPoolCVPredicate, RemoveFirst, AfterIteration
<1>14. ASSUME NEW w \in Worker, ExecuteTask(w) PROVE Building'
  BY <1>14 DEF ExecuteTask, ClearTask, ReleaseUserData, DropPoolRef, AfterIteration
<1>15. ASSUME NEW c \in Client, Shutdown(c) PROVE Building'
  BY <1>15 DEF Shutdown
<1>16. ASSUME NEW t \in Thread, ShutEnter(t) PROVE Building'
  BY <1>16 DEF ShutEnter, CriticalSectionEnter
<1>17. ASSUME NEW t \in Thread, ShutSet(t) PROVE Building'
  BY <1>17 DEF ShutSet, CriticalSectionExit
<1>18. ASSUME NEW t \in Thread, ShutNotify(t) PROVE Building'
  BY <1>18 DEF ShutNotify, WakeEveryWorker, NotifyAll
<1>19. ASSUME NEW t \in Thread, ShutJoin(t) PROVE Building'
  BY <1>19 DEF ShutJoin, NextIndex
<1>20. ASSUME NEW t \in Thread, ShutJoined(t) PROVE Building'
  BY <1>20 DEF ShutJoined
<1>21. ASSUME NEW t \in Thread, ShutDone(t) PROVE Building'
  BY <1>21 DEF ShutDone
<1>22. ASSUME NEW t \in Thread, Free(t) PROVE Building'
  BY <1>22 DEF Free, AfterIteration
<1>23. ASSUME NEW w \in Worker, Spurious(w) PROVE Building'
  BY <1>23 DEF Spurious, SpuriousWakeup
<1>24. CASE Terminated BY <1>24 DEF Terminated, vars
<1> QED BY <1>1, <1>2, <1>3, <1>4, <1>5, <1>6, <1>7, <1>8, <1>9, <1>10,
  <1>11, <1>12, <1>13, <1>14, <1>15, <1>16, <1>17, <1>18, <1>19, <1>20,
  <1>21, <1>22, <1>23, <1>24 DEF Next, NewStep, PoolCall, WorkerStep,
  ClientChoice

LEMMA SpawnedStep ==
  ASSUME TypeOK, RefsInv, Building, Spawned, Next
  PROVE  Spawned'
<1> VariableTypes /\ \A t \in Thread : LocalState(t) BY DEF TypeOK
<1>1. ASSUME NEW w \in Worker, SpawnWorker(w) PROVE Spawned'
  <2>1. /\ workers' = Append(workers, w) /\ pc' = [pc EXCEPT ![w] = "loop"]
        /\ pc[Creator] = "new" /\ pc[w] = "unborn" /\ pool' = pool
    BY <1>1 DEF SpawnWorker, Goto, poolVars
  <2>2. w \notin Range(workers) BY <2>1 DEF Spawned, Born
  <2>3. Range(workers') = Range(workers) \cup {w} /\ IsInjective(workers')
    BY <2>1, <2>2, RangeOfAppend DEF VariableTypes, Spawned
  <2>4. Born' = Born \cup {w} BY <2>1 DEF Born, VariableTypes
  <2> QED BY <2>1, <2>3, <2>4 DEF Spawned, Building
<1>2. ASSUME NEW w \in Worker, SpawnFails(w) PROVE Spawned'
  <2>1. /\ workers' = workers /\ pc' = [pc EXCEPT ![w] = "failed"]
        /\ pc[Creator] = "new" /\ pc[w] = "unborn" /\ pool' = pool
    BY <1>2 DEF SpawnFails, Goto, poolVars, joinVars
  <2>2. Born' = Born BY <2>1 DEF Born, VariableTypes
  <2> QED BY <2>1, <2>2 DEF Spawned, Building
<1>3. ASSUME NewReturns PROVE Spawned'
  <2>1. workers' = workers /\ pc[Creator] = "new" /\ pc'[Creator] # "new"
    BY <1>3 DEF NewReturns, DropPoolRef, Goto, joinVars, VariableTypes
  <2>2. Born' = Born
    <3> ~\E w \in Worker : SpawnWorker(w) \/ SpawnFails(w)
      BY <1>3 DEF NewReturns, SpawnWorker, SpawnFails
    <3> QED BY BornStep
  <2>3. ASSUME pool' = "ready" PROVE Born = Worker
    <3>1. Len(workers) = Cardinality(Worker)
      BY <1>3, <2>1, <2>3 DEF NewReturns, Building
    <3>2. Len(workers) \in Nat /\ workers \in [1 .. Len(workers) -> Worker]
      BY DEF VariableTypes
    <3>3. workers \in Injection(1 .. Len(workers), Worker)
      BY <3>2 DEF Injection, Spawned
    <3>4. Cardinality(1 .. Len(workers)) = Len(workers)
      BY <3>2, FS_Interval
    <3>5. workers \in Surjection(1 .. Len(workers), Worker)
      BY <3>1, <3>3, <3>4, FS_Injection
    <3>6. Range(workers) = Worker
      BY <3>5 DEF Surjection, Range
    <3> QED BY <2>1, <3>6 DEF Spawned
  <2> QED BY <2>1, <2>2, <2>3 DEF Spawned
<1>4. ASSUME NEW t \in Thread, ShutDone(t) PROVE Spawned'
  <2>1. /\ workers' = <<>> /\ pool' = pool /\ pc[t] = "shut_join"
        /\ pc' = [pc EXCEPT ![t] = IF poolRefs = {} THEN "free" ELSE "idle"]
    BY <1>4 DEF ShutDone, Goto, poolVars
  <2>2. Born' = Born BY <2>1 DEF Born, VariableTypes, LocalState, ClientPC, PoolPC
  <2>3. pc[Creator] # "new"
    <3> SUFFICES ASSUME pc[Creator] = "new" PROVE FALSE OBVIOUS
    <3>1. Creator \in poolRefs BY DEF RefsInv, RefsUsers
    <3>2. poolRefs \subseteq {Creator} BY DEF Building
    <3>3. t # Creator BY <2>1
    <3> QED BY <2>1, <3>1, <3>2, <3>3 DEF RefsInv, RefsUsers, ShutPC
  <2>4. IsInjective(workers') BY <2>1 DEF IsInjective
  <2> QED BY <2>1, <2>2, <2>3, <2>4 DEF Spawned, VariableTypes
<1>5. ASSUME workers' = workers, pool' # "ready" \/ pool' = pool,
             ~\E w \in Worker : SpawnWorker(w) \/ SpawnFails(w),
             pc'[Creator] = "new" => pc[Creator] = "new"
      PROVE Spawned'
  <2> Born' = Born BY <1>5, BornStep
  <2> QED BY <1>5 DEF Spawned
<1>6. ~NewReturns => pool' # "ready" \/ pool' = pool
  BY DEF Next, NewStep, PoolCall, WorkerStep, ClientChoice, Terminated, vars, poolVars,
    Retain, Release, SpawnWorker, SpawnFails, NewReturns, PostTask, PostEnter, PostAdd, PostNotify, WorkerEnter, WorkerSleep, WorkerWake, WorkerTake, ExecuteTask, Shutdown, ShutEnter, ShutSet, ShutNotify, ShutJoin, ShutJoined, ShutDone, Free, Spurious
<1>7. (\A t \in Thread : ~ShutDone(t)) /\ (\A w \in Worker : ~SpawnWorker(w)) => workers' = workers
  BY DEF Next, NewStep, PoolCall, WorkerStep, ClientChoice, Terminated, vars, joinVars,
    Retain, Release, SpawnWorker, SpawnFails, NewReturns, PostTask, PostEnter, PostAdd, PostNotify, WorkerEnter, WorkerSleep, WorkerWake, WorkerTake, ExecuteTask, Shutdown, ShutEnter, ShutSet, ShutNotify, ShutJoin, ShutJoined, ShutDone, Free, Spurious
<1>8. pc'[Creator] = "new" => pc[Creator] = "new"
  BY DEF VariableTypes, Next, NewStep, PoolCall, WorkerStep, ClientChoice, Terminated, vars, Goto, DropPoolRef, AfterIteration,
    Retain, Release, SpawnWorker, SpawnFails, NewReturns, PostTask, PostEnter, PostAdd, PostNotify, WorkerEnter, WorkerSleep, WorkerWake, WorkerTake, ExecuteTask, Shutdown, ShutEnter, ShutSet, ShutNotify, ShutJoin, ShutJoined, ShutDone, Free, Spurious
<1> QED BY <1>1, <1>2, <1>3, <1>4, <1>5, <1>6, <1>7, <1>8

-----------------------------------------------------------------------------
(* Notifications.                                                          *)

LEMMA ShutdownWakeupStep ==
  ASSUME TypeOK, LockInv, ShutdownWakeup, Next
  PROVE  ShutdownWakeup'
<1> VariableTypes /\ \A t \in Thread : LocalState(t) BY DEF TypeOK
<1> USE DEF VariableTypes, ShutdownWakeup, Goto, cvVars
<1>1. ASSUME NEW c \in Client, NEW d \in Client, Retain(c, d) PROVE ShutdownWakeup'
  BY <1>1 DEF Retain
<1>2. ASSUME NEW c \in Client, Release(c) PROVE ShutdownWakeup'
  BY <1>2 DEF Release, DropPoolRef
<1>3. ASSUME NEW w \in Worker, SpawnWorker(w) PROVE ShutdownWakeup'
  BY <1>3 DEF SpawnWorker
<1>4. ASSUME NEW w \in Worker, SpawnFails(w) PROVE ShutdownWakeup'
  BY <1>4 DEF SpawnFails
<1>5. ASSUME NewReturns PROVE ShutdownWakeup'
  BY <1>5 DEF NewReturns, DropPoolRef
<1>6. ASSUME NEW t \in Thread, NEW k \in Task, PostTask(t, k) PROVE ShutdownWakeup'
  BY <1>6 DEF PostTask, InUserCode
<1>7. ASSUME NEW t \in Thread, PostEnter(t) PROVE ShutdownWakeup'
  BY <1>7 DEF PostEnter, CriticalSectionEnter
<1>8. ASSUME NEW t \in Thread, PostAdd(t) PROVE ShutdownWakeup'
  BY <1>8 DEF PostAdd, CriticalSectionExit, Enqueue
<1>9. ASSUME NEW t \in Thread, PostNotify(t) PROVE ShutdownWakeup'
  BY <1>9 DEF PostNotify, WakeAWorker, NotifyOne
<1>10. ASSUME NEW w \in Worker, WorkerEnter(w) PROVE ShutdownWakeup'
  BY <1>10 DEF WorkerEnter, CriticalSectionEnter
<1>11. ASSUME NEW w \in Worker, WorkerSleep(w) PROVE ShutdownWakeup'
  BY <1>11 DEF WorkerSleep, WaitBlock, KWorkerPoolCVPredicate
<1>12. ASSUME NEW w \in Worker, WorkerWake(w) PROVE ShutdownWakeup'
  BY <1>12 DEF WorkerWake, WaitReturn, CriticalSectionEnter
<1>13. ASSUME NEW w \in Worker, WorkerTake(w) PROVE ShutdownWakeup'
  BY <1>13 DEF WorkerTake, CriticalSectionExit, KWorkerPoolCVPredicate, RemoveFirst, AfterIteration
<1>14. ASSUME NEW w \in Worker, ExecuteTask(w) PROVE ShutdownWakeup'
  BY <1>14 DEF ExecuteTask, ClearTask, ReleaseUserData, DropPoolRef, AfterIteration
<1>15. ASSUME NEW c \in Client, Shutdown(c) PROVE ShutdownWakeup'
  BY <1>15 DEF Shutdown
<1>16. ASSUME NEW t \in Thread, ShutEnter(t) PROVE ShutdownWakeup'
  BY <1>16 DEF ShutEnter, CriticalSectionEnter
<1>17. ASSUME NEW t \in Thread, ShutSet(t) PROVE ShutdownWakeup'
  BY <1>17 DEF ShutSet, CriticalSectionExit
<1>18. ASSUME NEW t \in Thread, ShutNotify(t) PROVE ShutdownWakeup'
  BY <1>18 DEF ShutNotify, WakeEveryWorker, NotifyAll
<1>19. ASSUME NEW t \in Thread, ShutJoin(t) PROVE ShutdownWakeup'
  BY <1>19 DEF ShutJoin, NextIndex
<1>20. ASSUME NEW t \in Thread, ShutJoined(t) PROVE ShutdownWakeup'
  BY <1>20 DEF ShutJoined
<1>21. ASSUME NEW t \in Thread, ShutDone(t) PROVE ShutdownWakeup'
  BY <1>21 DEF ShutDone
<1>22. ASSUME NEW t \in Thread, Free(t) PROVE ShutdownWakeup'
  BY <1>22 DEF Free, AfterIteration
<1>23. ASSUME NEW w \in Worker, Spurious(w) PROVE ShutdownWakeup'
  BY <1>23 DEF Spurious, SpuriousWakeup
<1>24. CASE Terminated BY <1>24 DEF Terminated, vars
<1> QED BY <1>1, <1>2, <1>3, <1>4, <1>5, <1>6, <1>7, <1>8, <1>9, <1>10,
  <1>11, <1>12, <1>13, <1>14, <1>15, <1>16, <1>17, <1>18, <1>19, <1>20,
  <1>21, <1>22, <1>23, <1>24 DEF Next, NewStep, PoolCall, WorkerStep,
  ClientChoice

(* A step that makes no task appear and sends no worker to sleep.          *)
Calm ==
  /\ asleep' \subseteq asleep
  /\ tasks = <<>> => tasks' = <<>>
  /\ pool' = "ready" => pool = "ready"
  /\ shutdown => shutdown'
  /\ \A t \in Thread : pc[t] = "post_notify" => pc'[t] = "post_notify"

LEMMA CalmStep ==
  ASSUME TypeOK, Next, ~NewReturns,
         \A t \in Thread : ~PostAdd(t) /\ ~PostNotify(t),
         \A w \in Worker : ~WorkerSleep(w)
  PROVE  Calm
<1> VariableTypes BY DEF TypeOK
<1> USE DEF VariableTypes, Calm, Goto, cvVars, poolVars
<1>1. ASSUME NEW c \in Client, NEW d \in Client, Retain(c, d) PROVE Calm
  BY <1>1 DEF Retain
<1>2. ASSUME NEW c \in Client, Release(c) PROVE Calm
  BY <1>2 DEF Release, DropPoolRef
<1>3. ASSUME NEW w \in Worker, SpawnWorker(w) PROVE Calm
  BY <1>3 DEF SpawnWorker
<1>4. ASSUME NEW w \in Worker, SpawnFails(w) PROVE Calm
  BY <1>4 DEF SpawnFails
<1>5. ASSUME NEW t \in Thread, NEW k \in Task, PostTask(t, k) PROVE Calm
  BY <1>5 DEF PostTask, InUserCode
<1>6. ASSUME NEW t \in Thread, PostEnter(t) PROVE Calm
  BY <1>6 DEF PostEnter, CriticalSectionEnter
<1>7. ASSUME NEW w \in Worker, WorkerEnter(w) PROVE Calm
  BY <1>7 DEF WorkerEnter, CriticalSectionEnter
<1>8. ASSUME NEW w \in Worker, WorkerWake(w) PROVE Calm
  BY <1>8 DEF WorkerWake, WaitReturn, CriticalSectionEnter
<1>9. ASSUME NEW w \in Worker, WorkerTake(w) PROVE Calm
  BY <1>9 DEF WorkerTake, CriticalSectionExit, KWorkerPoolCVPredicate, RemoveFirst, AfterIteration
<1>10. ASSUME NEW w \in Worker, ExecuteTask(w) PROVE Calm
  BY <1>10 DEF ExecuteTask, ClearTask, ReleaseUserData, DropPoolRef, AfterIteration
<1>11. ASSUME NEW c \in Client, Shutdown(c) PROVE Calm
  BY <1>11 DEF Shutdown
<1>12. ASSUME NEW t \in Thread, ShutEnter(t) PROVE Calm
  BY <1>12 DEF ShutEnter, CriticalSectionEnter
<1>13. ASSUME NEW t \in Thread, ShutSet(t) PROVE Calm
  BY <1>13 DEF ShutSet, CriticalSectionExit
<1>14. ASSUME NEW t \in Thread, ShutNotify(t) PROVE Calm
  BY <1>14 DEF ShutNotify, WakeEveryWorker, NotifyAll
<1>15. ASSUME NEW t \in Thread, ShutJoin(t) PROVE Calm
  BY <1>15 DEF ShutJoin, NextIndex
<1>16. ASSUME NEW t \in Thread, ShutJoined(t) PROVE Calm
  BY <1>16 DEF ShutJoined
<1>17. ASSUME NEW t \in Thread, ShutDone(t) PROVE Calm
  BY <1>17 DEF ShutDone
<1>18. ASSUME NEW t \in Thread, Free(t) PROVE Calm
  BY <1>18 DEF Free, AfterIteration
<1>19. ASSUME NEW w \in Worker, Spurious(w) PROVE Calm
  BY <1>19 DEF Spurious, SpuriousWakeup
<1>20. CASE Terminated BY <1>20 DEF Terminated, vars
<1> QED BY <1>1, <1>2, <1>3, <1>4, <1>5, <1>6, <1>7, <1>8, <1>9, <1>10,
  <1>11, <1>12, <1>13, <1>14, <1>15, <1>16, <1>17, <1>18, <1>19, <1>20 DEF Next, NewStep, PoolCall, WorkerStep,
  ClientChoice

LEMMA TaskWakeupStep ==
  ASSUME TypeOK, LockInv, Building, Spawned, LockInv', Spawned', TaskWakeup, Next
  PROVE  TaskWakeup'
<1> DEFINE Waiting == pool = "ready" /\ tasks # <<>> /\ ~shutdown
<1> VariableTypes BY DEF TypeOK
<1>1. Waiting => \A w \in Worker : Awake(w) <=> w \notin asleep
  BY DEF Spawned, Born, LockInv, Awake
<1>2. Waiting' => \A w \in Worker : Awake(w)' <=> w \notin asleep'
  BY DEF Spawned, Born, LockInv, Awake
<1>3. ASSUME NEW w \in Worker, WorkerSleep(w) PROVE TaskWakeup'
  BY <1>3 DEF WorkerSleep, KWorkerPoolCVPredicate, TaskWakeup
<1>4. ASSUME NEW t \in Thread, PostNotify(t) PROVE TaskWakeup'
  <2>1. \E w \in Worker : w \notin asleep'
    <3>1. CASE asleep' = {} BY <3>1
    <3>2. ASSUME NEW w \in asleep, asleep' = asleep \ {w} PROVE w \in Worker
      BY DEF VariableTypes, CVTypeOK, LockInv, TypeOK, LocalState, ClientPC, PoolPC
    <3> QED BY <1>4, <3>1, <3>2 DEF PostNotify, WakeAWorker, NotifyOne
  <2> QED BY <1>2, <2>1 DEF TaskWakeup
<1>5. ASSUME NEW t \in Thread, PostAdd(t) PROVE TaskWakeup'
  BY <1>5 DEF PostAdd, Goto, TaskWakeup, VariableTypes
<1>6. CASE NewReturns
  BY <1>6 DEF NewReturns, Building, TaskWakeup
<1>7. CASE Calm
  BY <1>1, <1>2, <1>7 DEF Calm, TaskWakeup
<1> QED BY <1>3, <1>4, <1>5, <1>6, <1>7, CalmStep

-----------------------------------------------------------------------------
(* The invariant.                                                          *)

LEMMA InitIInv == Init => IInv
<1> SUFFICES ASSUME Init PROVE IInv OBVIOUS
<1> USE DEF Init, CVInit
<1>1. TypeOK
  <2>1. pc \in [Thread -> ClientPC \cup WorkerPC]
    BY DEF ClientPC, WorkerPC
  <2>2. VariableTypes
    <3>1. workers \in Seq(Worker) /\ tasks \in Seq(Task)
      OBVIOUS
    <3>2. poolRefs \subseteq Client \cup Task
      OBVIOUS
    <3>3. /\ joinIndex \in [Thread -> Nat] /\ userRefs \in [Task -> Int]
          /\ joining \in [Thread -> Worker \cup {None}]
          /\ running \in [Worker -> BOOLEAN]
          /\ current \in [Worker -> Task \cup {None}]
          /\ posting \in [Thread -> Task \cup {None}]
      OBVIOUS
    <3> QED BY <2>1, <3>1, <3>2, <3>3 DEF VariableTypes, CVTypeOK
  <2>3. ASSUME NEW t \in Thread PROVE LocalState(t)
    BY DEF LocalState, ClientPC, WorkerPC
  <2> QED BY <2>2, <2>3 DEF TypeOK
<1>2. Posting = {} /\ Executing = {} /\ Range(tasks) = {}
  BY DEF Posting, Executing, Range
<1>3. EachTaskOnce /\ UserDataBalanced
  BY <1>2 DEF EachTaskOnce, OneHolder, OnePlace, UserDataBalanced, InFlight, IsInjective
<1>4. RefsInv /\ LockInv
  BY <1>2 DEF RefsInv, RefsUsers, LockInv, InFlight, PostPC, ShutPC
<1>5. Building /\ Spawned
  BY DEF Building, Spawned, Born, IsInjective, Range, PostPC
<1>6. TaskWakeup /\ ShutdownWakeup
  BY DEF TaskWakeup, ShutdownWakeup
<1> QED BY <1>1, <1>3, <1>4, <1>5, <1>6 DEF IInv

LEMMA NextIInv == IInv /\ [Next]_vars => IInv'
<1> SUFFICES ASSUME IInv, [Next]_vars PROVE IInv' OBVIOUS
<1>1. CASE Next
  <2> USE <1>1 DEF IInv
  <2>1. TypeOK' BY TypeStep
  <2>2. EachTaskOnce' /\ UserDataBalanced' BY EachTaskOnceStep, UserDataStep
  <2>3. RefsInv' BY RefsStep, PoolTaskStep DEF RefsInv
  <2>4. LockInv' BY LockStep
  <2>5. Building' /\ Spawned' BY BuildingStep, SpawnedStep
  <2>6. TaskWakeup' /\ ShutdownWakeup'
    BY <2>4, <2>5, TaskWakeupStep, ShutdownWakeupStep
  <2> QED BY <2>1, <2>2, <2>3, <2>4, <2>5, <2>6
<1>2. CASE UNCHANGED vars
  <2> USE <1>2 DEF vars, cvVars, poolVars, joinVars, taskVars, IInv
  <2>1. Posting' = Posting /\ Executing' = Executing /\ InFlight' = InFlight
    BY DEF Posting, Executing, InFlight
  <2>2. TypeOK'
    BY DEF TypeOK, VariableTypes, CVTypeOK, LocalState
  <2>3. EachTaskOnce' /\ UserDataBalanced'
    BY <2>1 DEF EachTaskOnce, OneHolder, OnePlace, UserDataBalanced
  <2>4. RefsInv' /\ LockInv'
    BY <2>1 DEF RefsInv, RefsUsers, LockInv
  <2>5. Building' /\ Spawned'
    BY DEF Building, Spawned, Born
  <2>6. TaskWakeup' /\ ShutdownWakeup'
    BY DEF TaskWakeup, ShutdownWakeup, Awake
  <2> QED BY <2>2, <2>3, <2>4, <2>5, <2>6
<1> QED BY <1>1, <1>2

LEMMA Invariant == Spec => []IInv
BY InitIInv, NextIInv, PTL DEF Spec

-----------------------------------------------------------------------------
(* Threads that join the workers, and threads that wait for each other.    *)

LEMMA OneCollectorStep ==
  ASSUME TypeOK, RefsInv, Building, OneCollector, Next
  PROVE  OneCollector'
<1> VariableTypes /\ \A t \in Thread : LocalState(t) BY DEF TypeOK
<1> RefsUsers BY DEF RefsInv
<1> USE DEF VariableTypes, RefsUsers, OneCollector, Stopping, ShutPC, Goto, poolVars
<1>1. ASSUME NEW c \in Client, NEW d \in Client, Retain(c, d) PROVE OneCollector'
  BY <1>1 DEF Retain
<1>2. ASSUME NEW c \in Client, Release(c) PROVE OneCollector'
  <2>1. /\ pc[c] = "idle" /\ poolRefs' = poolRefs \ {c} /\ c \in poolRefs
        /\ pc' = [pc EXCEPT ![c] = IF poolRefs' = {} THEN "shut_enter" ELSE "gone"]
    BY <1>2 DEF Release, DropPoolRef
  <2>2. ASSUME poolRefs' = {}, NEW t \in Thread PROVE pc[t] \notin Stopping
    BY <2>1, <2>2
  <2> QED BY <2>1, <2>2
<1>3. ASSUME NEW w \in Worker, SpawnWorker(w) PROVE OneCollector'
  BY <1>3 DEF SpawnWorker
<1>4. ASSUME NEW w \in Worker, SpawnFails(w) PROVE OneCollector'
  BY <1>4 DEF SpawnFails
<1>5. ASSUME NewReturns PROVE OneCollector'
  <2>1. PICK l \in {"idle", "shut_enter", "gone"} : pc' = [pc EXCEPT ![Creator] = l]
    BY <1>5 DEF NewReturns, DropPoolRef
  <2>2. \A t \in Thread : pc[t] \notin Stopping
    <3>1. pc[Creator] = "new" /\ Creator \in poolRefs /\ poolRefs \subseteq {Creator}
      BY <1>5 DEF NewReturns, Building
    <3>2. \A t \in Thread \ {Creator} : t \notin poolRefs BY <3>1
    <3>3. \A t \in Thread : pc[t] # "free" BY <3>1
    <3>4. \A t \in Client \ {Creator} : pc[t] \notin ShutPC BY <3>1, <3>2
    <3>5. \A w \in Worker : pc[w] \notin ShutPC BY <3>1
    <3>6. pc[Creator] \notin ShutPC BY <3>1
    <3> QED BY <3>3, <3>4, <3>5, <3>6
  <2> QED BY <2>1, <2>2
<1>6. ASSUME NEW t \in Thread, NEW k \in Task, PostTask(t, k) PROVE OneCollector'
  BY <1>6 DEF PostTask, InUserCode
<1>7. ASSUME NEW t \in Thread, PostEnter(t) PROVE OneCollector'
  BY <1>7 DEF PostEnter, CriticalSectionEnter
<1>8. ASSUME NEW t \in Thread, PostAdd(t) PROVE OneCollector'
  BY <1>8 DEF PostAdd, CriticalSectionExit, Enqueue
<1>9. ASSUME NEW t \in Thread, PostNotify(t) PROVE OneCollector'
  BY <1>9 DEF PostNotify, WakeAWorker, NotifyOne
<1>10. ASSUME NEW w \in Worker, WorkerEnter(w) PROVE OneCollector'
  BY <1>10 DEF WorkerEnter, CriticalSectionEnter
<1>11. ASSUME NEW w \in Worker, WorkerSleep(w) PROVE OneCollector'
  BY <1>11 DEF WorkerSleep, WaitBlock, KWorkerPoolCVPredicate
<1>12. ASSUME NEW w \in Worker, WorkerWake(w) PROVE OneCollector'
  BY <1>12 DEF WorkerWake, WaitReturn, CriticalSectionEnter
<1>13. ASSUME NEW w \in Worker, WorkerTake(w) PROVE OneCollector'
  <2>1. PICK l \in {"exec", "loop", "exited"} : pc' = [pc EXCEPT ![w] = l]
    BY <1>13 DEF WorkerTake, AfterIteration
  <2> QED BY <1>13, <2>1 DEF WorkerTake
<1>14. ASSUME NEW w \in Worker, ExecuteTask(w) PROVE OneCollector'
  <2>1. PICK l \in {"loop", "exited", "shut_enter"} :
          /\ pc' = [pc EXCEPT ![w] = l]
          /\ l = "shut_enter" => current[w] \in PoolTask
    BY <1>14 DEF ExecuteTask, DropPoolRef, AfterIteration
  <2>2. CASE current[w] \notin PoolTask
    <3> poolRefs' = poolRefs BY <1>14, <2>2 DEF ExecuteTask
    <3> QED BY <2>1, <2>2
  <2>3. CASE current[w] \in PoolTask
    <3>1. current[w] \in poolRefs /\ current[w] \notin Client
      BY <1>14, <2>3, PoolAssumption DEF RefsInv, InFlight, Executing
    <3>2. poolRefs' = poolRefs \ {current[w]}
      BY <1>14, <2>3 DEF ExecuteTask, DropPoolRef
    <3>3. ASSUME poolRefs' = {}, NEW t \in Thread PROVE pc[t] \notin Stopping
      <4> \A c \in Client : c \notin poolRefs BY <3>1, <3>2, <3>3
      <4> QED BY <3>1
    <3> QED BY <2>1, <3>3
  <2> QED BY <2>2, <2>3
<1>15. ASSUME NEW c \in Client, Shutdown(c) PROVE OneCollector'
  BY <1>15 DEF Shutdown
<1>16. ASSUME NEW t \in Thread, ShutEnter(t) PROVE OneCollector'
  BY <1>16 DEF ShutEnter, CriticalSectionEnter
<1>17. ASSUME NEW t \in Thread, ShutSet(t) PROVE OneCollector'
  BY <1>17 DEF ShutSet, CriticalSectionExit
<1>18. ASSUME NEW t \in Thread, ShutNotify(t) PROVE OneCollector'
  BY <1>18 DEF ShutNotify, WakeEveryWorker, NotifyAll
<1>19. ASSUME NEW t \in Thread, ShutJoin(t) PROVE OneCollector'
  BY <1>19 DEF ShutJoin, NextIndex
<1>20. ASSUME NEW t \in Thread, ShutJoined(t) PROVE OneCollector'
  BY <1>20 DEF ShutJoined
<1>21. ASSUME NEW t \in Thread, ShutDone(t) PROVE OneCollector'
  BY <1>21 DEF ShutDone
<1>22. ASSUME NEW t \in Thread, Free(t) PROVE OneCollector'
  BY <1>22 DEF Free, AfterIteration
<1>23. ASSUME NEW w \in Worker, Spurious(w) PROVE OneCollector'
  BY <1>23 DEF Spurious, SpuriousWakeup
<1>24. CASE Terminated BY <1>24 DEF Terminated, vars
<1> QED BY <1>1, <1>2, <1>3, <1>4, <1>5, <1>6, <1>7, <1>8, <1>9, <1>10,
  <1>11, <1>12, <1>13, <1>14, <1>15, <1>16, <1>17, <1>18, <1>19, <1>20,
  <1>21, <1>22, <1>23, <1>24 DEF Next, NewStep, PoolCall, WorkerStep,
  ClientChoice

LEMMA FlagIsSetStep ==
  ASSUME TypeOK, FlagIsSet, Next
  PROVE  FlagIsSet'
<1> VariableTypes BY DEF TypeOK
<1>1. shutdown => shutdown'
  BY DEF Next, NewStep, PoolCall, WorkerStep, ClientChoice, Terminated, vars,
    Retain, Release, SpawnWorker, SpawnFails, NewReturns, PostTask, PostEnter, PostAdd, PostNotify, WorkerEnter, WorkerSleep, WorkerWake, WorkerTake, ExecuteTask, Shutdown, ShutEnter, ShutSet, ShutNotify, ShutJoin, ShutJoined, ShutDone, Free, Spurious
<1>2. ASSUME NEW t \in Thread, pc'[t] \in FlagPC, pc[t] \notin FlagPC
      PROVE ShutSet(t)
  <2> USE <1>2 DEF VariableTypes, FlagPC, Goto
  <2>1. ~NewStep
    BY DEF NewStep, NewReturns, SpawnWorker, SpawnFails, DropPoolRef
  <2>2. ASSUME NEW u \in Thread PROVE ~\E k \in Task : PostTask(u, k)
    BY DEF PostTask
  <2>3. ASSUME NEW u \in Thread, PoolCall(u) PROVE ShutSet(t)
    <3>1. u = t
      BY <2>3 DEF PoolCall, PostEnter, PostAdd, PostNotify, ShutEnter, ShutSet, ShutNotify, ShutJoin, ShutJoined, ShutDone, Free
    <3> QED
      BY <2>3, <3>1 DEF PoolCall, PostEnter, PostAdd, PostNotify, ShutEnter, ShutNotify, ShutJoin, ShutJoined, ShutDone, Free, AfterIteration
  <2>4. ASSUME NEW w \in Worker PROVE ~(WorkerStep(w) \/ Spurious(w))
    BY DEF WorkerStep, WorkerEnter, WorkerSleep, WorkerWake, WorkerTake, ExecuteTask, Spurious, DropPoolRef, AfterIteration
  <2>5. ASSUME NEW c \in Client PROVE ~ClientChoice(c)
    BY DEF ClientChoice, Release, Shutdown, Retain, DropPoolRef
  <2>6. ~Terminated BY DEF Terminated, vars
  <2> QED BY <2>1, <2>2, <2>3, <2>4, <2>5, <2>6 DEF Next
<1>3. \A t \in Thread : ShutSet(t) => shutdown' BY DEF ShutSet
<1> QED BY <1>1, <1>2, <1>3 DEF FlagIsSet

LEMMA JoinTargetsStep ==
  ASSUME TypeOK, Spawned, JoinTargets, Next
  PROVE  JoinTargets'
<1> VariableTypes BY DEF TypeOK
<1>1. ASSUME NEW w \in Worker, SpawnWorker(w) PROVE JoinTargets'
  <2>1. /\ workers' = Append(workers, w) /\ joining' = joining
        /\ pc' = [pc EXCEPT ![w] = "loop"]
        /\ pc[Creator] = "new" /\ pc[w] = "unborn"
    BY <1>1 DEF SpawnWorker, Goto
  <2>2. w \notin Range(workers) /\ IsInjective(workers)
    BY <2>1 DEF Spawned, Born
  <2>3. Range(workers') = Range(workers) \cup {w}
    BY <2>1, <2>2, RangeOfAppend DEF VariableTypes
  <2>4. Born' = Born \cup {w} BY <2>1 DEF Born, VariableTypes
  <2> QED BY <2>1, <2>3, <2>4 DEF JoinTargets
<1>2. ASSUME NEW w \in Worker, SpawnFails(w) PROVE JoinTargets'
  <2>1. /\ workers' = workers /\ joining' = joining
        /\ pc' = [pc EXCEPT ![w] = "failed"] /\ pc[w] = "unborn"
    BY <1>2 DEF SpawnFails, Goto, joinVars
  <2>2. Born' = Born BY <2>1 DEF Born, VariableTypes
  <2> QED BY <2>1, <2>2 DEF JoinTargets
<1>3. CASE ~\E w \in Worker : SpawnWorker(w) \/ SpawnFails(w)
  <2>1. Born' = Born BY <1>3, BornStep
  <2>2. ASSUME NEW t \in Thread, ShutJoin(t) PROVE JoinTargets'
    <3>1. joinIndex[t] \in DOMAIN workers
      BY <2>2 DEF ShutJoin, TypeOK, VariableTypes, LocalState
    <3>2. workers[joinIndex[t]] \in Born BY <3>1 DEF JoinTargets, Range
    <3>3. workers' = workers BY <2>2 DEF ShutJoin
    <3>4. CASE joining' = joining BY <2>1, <3>3, <3>4 DEF JoinTargets
    <3>5. CASE joining' = [joining EXCEPT ![t] = workers[joinIndex[t]]]
      BY <2>1, <3>2, <3>3, <3>5 DEF JoinTargets, VariableTypes
    <3> QED BY <2>2, <3>4, <3>5 DEF ShutJoin
  <2>3. ASSUME NEW t \in Thread, ShutJoined(t) PROVE JoinTargets'
    BY <2>1, <2>3 DEF ShutJoined, JoinTargets, VariableTypes
  <2>4. ASSUME NEW t \in Thread, ShutDone(t) PROVE JoinTargets'
    <3> workers' = <<>> /\ joining' = joining BY <2>4 DEF ShutDone
    <3> QED BY <2>1 DEF JoinTargets, Range
  <2>5. CASE UNCHANGED <<workers, joining>>
    BY <2>1, <2>5 DEF JoinTargets
  <2> QED
    BY <1>3, <2>2, <2>3, <2>4, <2>5 DEF Next, NewStep, PoolCall, WorkerStep, ClientChoice, Terminated, vars, joinVars,
      Retain, Release, NewReturns, PostTask, PostEnter, PostAdd, PostNotify, WorkerEnter, WorkerSleep, WorkerWake, WorkerTake, ExecuteTask, Shutdown, ShutEnter, ShutSet, ShutNotify, Free, Spurious
<1> QED BY <1>1, <1>2, <1>3

LEMMA HaltInvariant == Spec => []HInv
<1>1. Init => HInv
  <2> SUFFICES ASSUME Init PROVE HInv OBVIOUS
  <2>1. IInv BY InitIInv
  <2>2. OneCollector /\ JoinTargets /\ FlagIsSet
    BY DEF Init, OneCollector, JoinTargets, FlagIsSet, FlagPC, Range
  <2> QED BY <2>1, <2>2 DEF HInv
<1>2. HInv /\ [Next]_vars => HInv'
  <2> SUFFICES ASSUME HInv, [Next]_vars PROVE HInv' OBVIOUS
  <2> USE DEF HInv
  <2>1. IInv' BY NextIInv
  <2>2. CASE Next
    <3> USE <2>2 DEF IInv
    <3>1. OneCollector' BY OneCollectorStep
    <3>2. FlagIsSet' /\ JoinTargets' BY FlagIsSetStep, JoinTargetsStep
    <3> QED BY <2>1, <3>1, <3>2
  <2>3. CASE UNCHANGED vars
    <3> OneCollector' /\ JoinTargets' /\ FlagIsSet'
      BY <2>3 DEF vars, poolVars, joinVars, OneCollector, JoinTargets, FlagIsSet, Born
    <3> QED BY <2>1
  <2> QED BY <2>2, <2>3
<1> QED BY <1>1, <1>2, PTL DEF Spec

(* A thread in pthread_join waits for a worker that is in its loop, in a   *)
(* task, or on its way through a call of its own; it cannot be one that    *)
(* collects the pool, unless it is the thread itself.                      *)
LEMMA JoinWaitsForSomebody ==
  ASSUME HInv, holder = None, NEW t \in Thread, pc[t] = "shut_wait"
  PROVE  \E u \in Thread : GoesOn(u)
<1> DEFINE w == joining[t]
<1> USE DEF HInv, IInv
<1>1. w \in Worker /\ pc[w] \notin {"unborn", "failed"} /\ shutdown
  BY DEF TypeOK, LocalState, JoinTargets, Born, FlagIsSet, FlagPC
<1>2. pc[w] \in WorkerPC BY <1>1 DEF TypeOK, LocalState
<1>3. CASE w = t \/ pc[w] = "exited"
  BY <1>3 DEF GoesOn, JoinReturns
<1>4. CASE pc[w] \in {"loop", "exec", "post_enter", "post_notify"}
  BY <1>1, <1>4 DEF GoesOn
<1>5. CASE pc[w] \in {"test", "post_add"}
  BY <1>1, <1>5, PoolAssumption DEF LockInv
<1>6. CASE pc[w] = "wait"
  BY <1>1, <1>6 DEF GoesOn, ShutdownWakeup
<1>7. CASE w # t /\ pc[w] \in Stopping
  <2>1. poolRefs = {}
    BY <1>1, <1>7 DEF RefsInv, RefsUsers, Stopping
  <2> QED BY <1>1, <1>7, <2>1 DEF OneCollector, Stopping, ShutPC
<1> HIDE DEF w
<1>8. pc[w] \in {"exited", "loop", "exec", "test", "wait", "post_enter",
                 "post_notify", "post_add"} \cup Stopping
  BY <1>1, <1>2 DEF WorkerPC, PoolPC, Stopping, ShutPC
<1> QED BY <1>3, <1>4, <1>5, <1>6, <1>7, <1>8

LEMMA SomebodyGoesOn ==
  ASSUME HInv
  PROVE  NobodyIsStuck
<1> USE DEF HInv, IInv
<1>1. CASE holder # None
  <2>1. holder \in Thread BY <1>1 DEF TypeOK, VariableTypes, CVTypeOK
  <2> QED BY <2>1 DEF NobodyIsStuck, GoesOn, LockInv
<1>2. ASSUME holder = None, NEW t \in Thread, pc[t] \in PoolPC
      PROVE \E u \in Thread : GoesOn(u)
  <2>1. CASE pc[t] = "shut_wait" BY <1>2, <2>1, JoinWaitsForSomebody
  <2>2. CASE pc[t] \in {"post_add", "shut_set"}
    BY <1>2, <2>2, PoolAssumption DEF LockInv
  <2>3. CASE pc[t] \notin {"shut_wait", "post_add", "shut_set"}
    BY <1>2, <2>3 DEF GoesOn, PoolPC
  <2> QED BY <2>1, <2>2, <2>3
<1>3. ASSUME holder = None, TasksWait PROVE \E u \in Thread : GoesOn(u)
  <2>1. CASE \E t \in Thread : pc[t] = "post_notify"
    BY <2>1 DEF GoesOn
  <2>2. ASSUME NEW w \in Worker, Awake(w) PROVE \E u \in Thread : GoesOn(u)
    <3>1. pc[w] \in WorkerPC BY DEF TypeOK, LocalState
    <3>2. pc[w] # "test" BY <1>3, PoolAssumption DEF LockInv
    <3>3. CASE pc[w] \in PoolPC BY <1>2, <1>3, <3>3
    <3>4. CASE pc[w] \in {"loop", "wait", "exec"}
      BY <1>3, <2>2, <3>4 DEF GoesOn, Awake
    <3> QED BY <2>2, <3>1, <3>2, <3>3, <3>4 DEF WorkerPC, Awake
  <2> QED BY <1>3, <2>1, <2>2 DEF TaskWakeup, TasksWait
<1> QED BY <1>1, <1>2, <1>3 DEF NobodyIsStuck

-----------------------------------------------------------------------------
(* The theorems.                                                           *)

(* Type correctness of the worker pool.                                    *)
THEOREM TypeCorrect == Spec => []TypeOK
<1>1. IInv => TypeOK BY DEF IInv
<1> QED BY Invariant, <1>1, PTL

(* Posting, queueing, executing and dropping never duplicate a task.       *)
THEOREM TasksAreNotDuplicated == Spec => []EachTaskOnce
<1>1. IInv => EachTaskOnce BY DEF IInv
<1> QED BY Invariant, <1>1, PTL

(* The reference on user_data is given back exactly once on every path.    *)
THEOREM UserDataIsBalanced == Spec => []UserDataBalanced
<1>1. IInv => UserDataBalanced BY DEF IInv
<1> QED BY Invariant, <1>1, PTL

(* No notification of the pool's condition variable is lost, although they *)
(* are sent after the critical section.                                    *)
THEOREM WakeupsAreNotLost == Spec => []NoLostWakeup
<1>1. HInv => NoLostWakeup
  <2> SUFFICES ASSUME HInv PROVE NoLostWakeup OBVIOUS
  <2>1. NobodyIsStuck BY SomebodyGoesOn
  <2>2. TaskWakeup /\ ShutdownWakeup BY DEF HInv, IInv
  <2> QED BY <2>1, <2>2 DEF NoLostWakeup, TasksWait, TaskWakeup, ShutdownWakeup
<1> QED BY HaltInvariant, <1>1, PTL

(* Threads that post, shut the pool down, collect it and join its workers, *)
(* in any number, do not all wait for each other.                          *)
THEOREM CallsDoNotDeadlock == Spec => []NobodyIsStuck
<1>1. HInv => NobodyIsStuck BY SomebodyGoesOn
<1> QED BY HaltInvariant, <1>1, PTL

=============================================================================
