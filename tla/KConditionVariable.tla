-------------------------- MODULE KConditionVariable --------------------------
(***************************************************************************)
(* The monitor of kcondition_variable.c: one mutex and one condition       *)
(* variable in a single object.  The operators are the critical section,   *)
(* the two notifications and the two halves of a wait; a module that uses  *)
(* a condition variable conjoins them to its own actions, so that the      *)
(* loop of KConditionVariableWait appears there with the real predicate.   *)
(*                                                                         *)
(* A thread that sleeps in pthread_cond_wait is in asleep.  A notification *)
(* (or a spurious wakeup, which POSIX allows at any time) takes it out,    *)
(* and it then competes for the mutex with everybody else.                 *)
(***************************************************************************)
CONSTANT None          \* no thread, no task

VARIABLES holder,      \* the thread inside the critical section, or None
          asleep       \* the threads blocked in pthread_cond_wait

cvVars == <<holder, asleep>>

CVTypeOK(Thread) ==
  /\ holder \in Thread \cup {None}
  /\ asleep \subseteq Thread

CVInit == holder = None /\ asleep = {}

(* KConditionVariableCriticalSectionEnter: blocks until the mutex is free. *)
CriticalSectionEnter(t) ==
  /\ holder = None
  /\ holder' = t
  /\ UNCHANGED asleep

(* KConditionVariableCriticalSectionExit. *)
CriticalSectionExit(t) ==
  /\ holder = t
  /\ holder' = None
  /\ UNCHANGED asleep

(* The loop of KConditionVariableWait found the predicate true: going to   *)
(* sleep and giving up the mutex are one atomic step.                      *)
WaitBlock(t) ==
  /\ holder = t
  /\ holder' = None
  /\ asleep' = asleep \cup {t}

(* pthread_cond_wait returns with the mutex, and the loop tests the        *)
(* predicate again.                                                        *)
WaitReturn(t) ==
  /\ t \notin asleep
  /\ CriticalSectionEnter(t)

(* KConditionVariableNotifyOne: wakes a sleeper if there is one; the       *)
(* caller need not hold the mutex.                                         *)
NotifyOne ==
  /\ \/ asleep = {} /\ asleep' = {}
     \/ \E t \in asleep : asleep' = asleep \ {t}
  /\ UNCHANGED holder

(* KConditionVariableNotifyAll. *)
NotifyAll == asleep' = {} /\ UNCHANGED holder

(* pthread_cond_wait returns although nobody notified. *)
SpuriousWakeup(t) ==
  /\ t \in asleep
  /\ asleep' = asleep \ {t}
  /\ UNCHANGED holder

=============================================================================
