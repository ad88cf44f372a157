--------------------------- MODULE KCountdownLatch ---------------------------
(***************************************************************************)
(* The countdown latch of kcountdown_latch.c.  A thread makes one call:    *)
(* KCountDownLatchCountDown for a Counter, KCountDownLatchWait for a       *)
(* Waiter.  There may be more calls than the count, and every thread       *)
(* holds a reference on the latch while it is inside a call.               *)
(***************************************************************************)
EXTENDS KConditionVariable, Integers, FiniteSets

CONSTANTS Counter,       \* threads that count down, once each
          Waiter,        \* threads that wait, once each
          InitialCount   \* the argument of KCountdownLatchNew

ASSUME LatchAssumption ==
  /\ IsFiniteSet(Counter)
  /\ Counter \cap Waiter = {}
  /\ None \notin Counter \cup Waiter
  /\ InitialCount \in Nat \ {0}

Thread == Counter \cup Waiter

VARIABLES pc,     \* where each thread is
          count   \* latch->count

vars == <<cvVars, pc, count>>

CounterPC == {"idle", "enter", "count", "notify", "returned"}
WaiterPC == {"idle", "enter", "test", "wait", "returned"}

Goto(t, label) == pc' = [pc EXCEPT ![t] = label]

Init ==
  /\ CVInit
  /\ pc = [t \in Thread |-> "idle"]
  /\ count = InitialCount

Call(t) ==
  /\ pc[t] = "idle"
  /\ Goto(t, "enter")
  /\ UNCHANGED <<cvVars, count>>

Enter(t) ==
  /\ pc[t] = "enter"
  /\ CriticalSectionEnter(t)
  /\ Goto(t, IF t \in Counter THEN "count" ELSE "test")
  /\ UNCHANGED count

-----------------------------------------------------------------------------
(* The switch of KCountDownLatchCountDown: a count of zero stays.          *)
DecrementToOne == count' = IF count <= 1 THEN count ELSE count - 1
Decrement == count' = IF count = 0 THEN 0 ELSE count - 1

(* should_signal is set by the call that takes the count to zero.          *)
CountDown(c) ==
  /\ pc[c] = "count"
  /\ Decrement
  /\ CriticalSectionExit(c)
  /\ Goto(c, IF count = 1 THEN "notify" ELSE "returned")

(* The notification comes after the critical section.                      *)
AnnounceToOne == NotifyOne
Announce == NotifyAll

CountDownNotify(c) ==
  /\ pc[c] = "notify"
  /\ Announce
  /\ Goto(c, "returned")
  /\ UNCHANGED count

-----------------------------------------------------------------------------
TestNothing == FALSE
KCountDownLatchCVPredicate == count # 0

WaitSleep(w) ==
  /\ pc[w] = "test"
  /\ KCountDownLatchCVPredicate
  /\ WaitBlock(w)
  /\ Goto(w, "wait")
  /\ UNCHANGED count

WaitWake(w) ==
  /\ pc[w] = "wait"
  /\ WaitReturn(w)
  /\ Goto(w, "test")
  /\ UNCHANGED count

WaitExit(w) ==
  /\ pc[w] = "test"
  /\ ~KCountDownLatchCVPredicate
  /\ CriticalSectionExit(w)
  /\ Goto(w, "returned")
  /\ UNCHANGED count

Spurious(w) == SpuriousWakeup(w) /\ UNCHANGED <<pc, count>>

(* Threads that still wait for the count when nobody counts any more are   *)
(* in the hands of their program.                                          *)
Stuck(t) == \/ pc[t] \in {"idle", "returned"}
            \/ t \in asleep /\ count # 0
Finished == (\A t \in Thread : Stuck(t)) /\ UNCHANGED vars

CounterStep(c) == Enter(c) \/ CountDown(c) \/ CountDownNotify(c)
WaiterStep(w) == Enter(w) \/ WaitSleep(w) \/ WaitWake(w) \/ WaitExit(w)

Next ==
  \/ \E t \in Thread : Call(t)
  \/ \E c \in Counter : CounterStep(c)
  \/ \E w \in Waiter : WaiterStep(w) \/ Spurious(w)
  \/ Finished

Spec == Init /\ [][Next]_vars

(* Whoever called goes on; nobody is obliged to call; wakeups without a    *)
(* notification do not go on for ever.                                     *)
Fairness ==
  /\ \A c \in Counter : WF_vars(CounterStep(c))
  /\ \A w \in Waiter : WF_vars(WaiterStep(w))
  /\ <>[][\A w \in Waiter : ~Spurious(w)]_vars

FairSpec == Spec /\ Fairness

-----------------------------------------------------------------------------
(* Properties.                                                             *)

(* Every variable has its type, and a call is at a place of its own code.  *)
TypeOK ==
  /\ CVTypeOK(Thread)
  /\ pc \in [Thread -> CounterPC \cup WaiterPC]
  /\ \A c \in Counter : pc[c] \in CounterPC
  /\ \A w \in Waiter : pc[w] \in WaiterPC
  /\ count \in 0 .. InitialCount

Counted == {c \in Counter : pc[c] \in {"notify", "returned"}}

(* No call is lost and none is counted twice: the count is what the calls  *)
(* that left the critical section make of the initial one, down to zero.   *)
CountIsExact ==
  count = IF Cardinality(Counted) < InitialCount
            THEN InitialCount - Cardinality(Counted) ELSE 0

(* KCountDownLatchWait returns when the number of jobs the latch was made  *)
(* for has been finished, and not before.                                  *)
WaitReturnsAtZero ==
  (\E w \in Waiter : pc[w] = "returned") =>
     Cardinality(Counted) >= InitialCount

(* The notification is sent after the critical section, and only by the    *)
(* call that reached zero: nobody sleeps through it, because who finds     *)
(* the count at zero does not go to sleep.                                 *)
ZeroIsAnnounced ==
  count = 0 /\ asleep # {} => \E c \in Counter : pc[c] = "notify"

(* If the count hits zero, any waiting threads are awoken, and later ones  *)
(* do not wait.                                                            *)
WaitersReturn ==
  \A w \in Waiter : count = 0 /\ pc[w] # "idle" ~> pc[w] = "returned"

=============================================================================
