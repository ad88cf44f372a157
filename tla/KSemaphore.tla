----------------------------- MODULE KSemaphore -----------------------------
(***************************************************************************)
(* The semaphore of ksemaphore.c over the one of each platform, and the    *)
(* mutex of kmutex.c, which is a semaphore made with a count of one.       *)
(* Users wait, do their work and signal; Strangers signal without having   *)
(* waited, as producers do and as nothing forbids of a mutex.              *)
(***************************************************************************)
EXTENDS Integers, FiniteSets

CONSTANTS User, Stranger,
          Platform,       \* some of "linux", "darwin" and "windows"
          InitialCount,   \* the argument of KSemaphoreNew
          MaxExtra        \* bound: signals of strangers that take effect

SemaphoreAssumption ==
  /\ IsFiniteSet(User) /\ IsFiniteSet(Stranger)
  /\ User \cap Stranger = {}
  /\ Platform \subseteq {"linux", "darwin", "windows"}
  /\ InitialCount \in Nat
  /\ MaxExtra \in Nat

VARIABLES platform,  \* where the program runs
          pc,        \* where each thread is
          count,     \* of the platform's semaphore
          told,      \* the last result of each thread's KSemaphoreSignal
          extra,     \* how many signals of strangers took effect (history)
          refused    \* how many signals the platform refused (history)

ledger == <<extra, refused>>
vars == <<platform, pc, count, told, ledger>>

Thread == User \cup Stranger

Goto(t, label) == pc' = [pc EXCEPT ![t] = label]

Init ==
  /\ platform \in Platform
  /\ pc = [t \in Thread |-> "idle"]
  /\ count = InitialCount
  /\ told = [t \in Thread |-> "nothing"]
  /\ extra = 0 /\ refused = 0

Waiting == {t \in Thread : pc[t] = "wait"}
Holding == {t \in User : pc[t] = "work"}

-----------------------------------------------------------------------------
(* KSemaphoreWait, and KMutexLock.                                         *)

Wait(t) ==
  /\ t \in User
  /\ pc[t] = "idle"
  /\ Goto(t, "wait")
  /\ UNCHANGED <<platform, count, told, ledger>>

NotBelowZero == count >= 0
Available == count > 0

Acquire(t) ==
  /\ pc[t] = "wait"
  /\ Available
  /\ count' = count - 1
  /\ Goto(t, "work")
  /\ UNCHANGED <<platform, told, ledger>>

(* A signal handler ends sem_wait with EINTR: K_HANDLE_EINTR calls again.  *)
TakeForSuccess(t) == Goto(t, "work")
WaitAgain(t) == Goto(t, "wait")

Interrupted(t) ==
  /\ platform = "linux"
  /\ pc[t] = "wait"
  /\ WaitAgain(t)
  /\ UNCHANGED <<platform, count, told, ledger>>

-----------------------------------------------------------------------------
(* KSemaphoreSignal, and KMutexUnlock.  Windows does not go beyond the     *)
(* count that the semaphore was made with, and fails.                      *)

CanSignal == platform = "windows" => count < InitialCount

(* The result: Darwin's call says whether a thread was woken.              *)
SomebodyWoke == Waiting # {}
Success ==
  CASE platform = "linux" -> TRUE
    [] platform = "darwin" -> SomebodyWoke
    [] platform = "windows" -> CanSignal

ForgetToIncrement == count' = count
Increment == count' = IF CanSignal THEN count + 1 ELSE count

Signal(t) ==
  /\ \/ t \in User /\ pc[t] = "work" /\ Goto(t, "idle")
        /\ UNCHANGED extra
     \/ t \in Stranger /\ extra < MaxExtra /\ UNCHANGED pc
        /\ extra' = extra + (IF CanSignal THEN 1 ELSE 0)
  /\ refused' = refused + (IF t \in User /\ ~CanSignal THEN 1 ELSE 0)
  /\ Increment
  /\ told' = [told EXCEPT ![t] = IF Success THEN "true" ELSE "false"]
  /\ UNCHANGED platform

Next == \E t \in Thread : \/ Wait(t) \/ Acquire(t) \/ Interrupted(t) \/ Signal(t)

Spec == Init /\ [][Next]_vars

(* The semaphore serves somebody when it can, whom is not said, and a      *)
(* thread that works signals in the end.                                   *)
Fairness ==
  /\ WF_vars(\E t \in User : Acquire(t))
  /\ \A t \in User : WF_vars(Signal(t))

FairSpec == Spec /\ Fairness

-----------------------------------------------------------------------------
(* Properties.                                                             *)

(* Every variable has its type.                                            *)
TypeOK ==
  /\ pc \in [Thread -> {"idle", "wait", "work"}]
  /\ platform \in Platform
  /\ count \in Nat
  /\ told \in [Thread -> {"nothing", "true", "false"}]
  /\ extra \in 0 .. MaxExtra /\ refused \in Nat

(* The limit of Windows refuses no more signals than strangers have added: *)
(* a signal that follows a wait succeeds, and is told so, when there are   *)
(* none.  (On Darwin the result is whether the signal woke a thread.)      *)
SignalSucceeds ==
  /\ refused <= extra
  /\ extra = 0 /\ platform # "darwin" => \A t \in User : told[t] # "false"

(* Permits are neither lost nor made: as many threads work as the count    *)
(* lacks, but for the signals that strangers have added and those that     *)
(* Windows has refused.  An interrupted wait is not a successful one, and  *)
(* a mutex that is only unlocked by who locked it excludes.                *)
Conserved ==
  /\ count + Cardinality(Holding) + refused = InitialCount + extra
  /\ SignalSucceeds

(* Somebody is served as long as somebody waits.                           *)
NotStuck == \A t \in User : pc[t] = "wait" ~> \E u \in User : pc[u] = "work"

=============================================================================
