------------------------ MODULE KCountdownLatchProofs ------------------------
(***************************************************************************)
(* Proofs about KCountdownLatch, for any number of threads and any count.  *)
(***************************************************************************)
EXTENDS KCountdownLatch, FiniteSetTheorems, TLAPS

LockInv ==
  /\ \A t \in Thread : holder = t <=> pc[t] \in {"count", "test"}
  /\ \A t \in asleep : t \in Waiter /\ pc[t] = "wait"

LatchInv == /\ TypeOK /\ LockInv /\ CountIsExact
            /\ WaitReturnsAtZero /\ ZeroIsAnnounced

USE LatchAssumption DEF Thread

LEMMA CountedIsFinite ==
  ASSUME LatchInv
  PROVE  IsFiniteSet(Counted) /\ Cardinality(Counted) \in Nat
BY FS_Subset, FS_CardinalityType DEF Counted

(* Leaving the critical section adds one call to the ones that counted.    *)
LEMMA CountedGrows ==
  ASSUME LatchInv, NEW c \in Counter, CountDown(c)
  PROVE  /\ Counted' = Counted \cup {c}
         /\ Cardinality(Counted') = Cardinality(Counted) + 1
<1>1. Counted' = Counted \cup {c}
  BY DEF CountDown, Goto, Counted, LatchInv, TypeOK
<1>2. c \notin Counted
  BY DEF CountDown, Counted
<1> QED BY <1>1, <1>2, CountedIsFinite, FS_AddElement

LEMMA CountedStays ==
  ASSUME LatchInv, NEW t \in Thread, NEW l,
         pc' = [pc EXCEPT ![t] = l],
         t \in Counter => (pc[t] \in {"notify", "returned"} <=> l \in {"notify", "returned"})
  PROVE  Counted' = Counted
BY DEF Counted, LatchInv, TypeOK

-----------------------------------------------------------------------------
LEMMA InitLatchInv == Init => LatchInv
<1> SUFFICES ASSUME Init PROVE LatchInv OBVIOUS
<1>1. Counted = {} /\ Cardinality(Counted) = 0
  BY FS_EmptySet DEF Init, Counted
<1> QED
  BY <1>1 DEF Init, CVInit, LatchInv, TypeOK, CVTypeOK, LockInv, CountIsExact,
    WaitReturnsAtZero, ZeroIsAnnounced, CounterPC, WaiterPC

(* A step that changes neither the count nor who counted.                  *)
LEMMA QuietStep ==
  ASSUME LatchInv, TypeOK', UNCHANGED count, Counted' = Counted,
         asleep' \subseteq asleep,
         \A c \in Counter : pc[c] = "notify" => pc'[c] = "notify",
         \A w \in Waiter : pc'[w] = "returned" => pc[w] = "returned"
  PROVE  CountIsExact' /\ WaitReturnsAtZero' /\ ZeroIsAnnounced'
<1>1. CountIsExact' BY DEF LatchInv, CountIsExact
<1>2. WaitReturnsAtZero' BY DEF LatchInv, WaitReturnsAtZero
<1>3. ZeroIsAnnounced' BY DEF LatchInv, ZeroIsAnnounced
<1> QED BY <1>1, <1>2, <1>3

LEMMA NextLatchInv ==
  ASSUME LatchInv, Next
  PROVE  LatchInv'
<1> TypeOK /\ LockInv BY DEF LatchInv
<1> USE DEF TypeOK, CVTypeOK, LockInv, Goto, CounterPC, WaiterPC
<1>1. ASSUME NEW t \in Thread, Call(t) PROVE LatchInv'
  <2>1. TypeOK' /\ LockInv' BY <1>1 DEF Call, cvVars
  <2>2. Counted' = Counted BY <1>1, CountedStays DEF Call
  <2>3. CountIsExact' /\ WaitReturnsAtZero' /\ ZeroIsAnnounced'
    BY <1>1, <2>1, <2>2, QuietStep DEF Call, cvVars
  <2> QED BY <2>1, <2>3 DEF LatchInv
<1>2. ASSUME NEW t \in Thread, Enter(t) PROVE LatchInv'
  <2>1. TypeOK' /\ LockInv' BY <1>2 DEF Enter, CriticalSectionEnter
  <2>2. Counted' = Counted BY <1>2, CountedStays DEF Enter
  <2>3. CountIsExact' /\ WaitReturnsAtZero' /\ ZeroIsAnnounced'
    BY <1>2, <2>1, <2>2, QuietStep DEF Enter, CriticalSectionEnter
  <2> QED BY <2>1, <2>3 DEF LatchInv
<1>3. ASSUME NEW c \in Counter, CountDown(c) PROVE LatchInv'
  <2>1. /\ pc[c] = "count" /\ count' = IF count = 0 THEN 0 ELSE count - 1
        /\ holder' = None /\ asleep' = asleep
        /\ pc' = [pc EXCEPT ![c] = IF count = 1 THEN "notify" ELSE "returned"]
    BY <1>3 DEF CountDown, Decrement, CriticalSectionExit
  <2>2. TypeOK' BY <2>1
  <2>3. LockInv' BY <2>1
  <2>4. Cardinality(Counted') = Cardinality(Counted) + 1
    BY <1>3, CountedGrows
  <2>5. Cardinality(Counted) \in Nat BY CountedIsFinite
  <2>6. CountIsExact'
    BY <2>1, <2>4, <2>5 DEF LatchInv, CountIsExact
  <2>7. WaitReturnsAtZero'
    BY <2>1, <2>4, <2>5 DEF LatchInv, WaitReturnsAtZero
  <2>8. ZeroIsAnnounced'
    BY <2>1 DEF LatchInv, ZeroIsAnnounced
  <2> QED BY <2>2, <2>3, <2>6, <2>7, <2>8 DEF LatchInv
<1>4. ASSUME NEW c \in Counter, CountDownNotify(c) PROVE LatchInv'
  <2>1. /\ pc[c] = "notify" /\ pc' = [pc EXCEPT ![c] = "returned"]
        /\ asleep' = {} /\ UNCHANGED <<holder, count>>
    BY <1>4 DEF CountDownNotify, Announce, NotifyAll
  <2>2. TypeOK' BY <2>1
  <2>3. LockInv' BY <2>1
  <2>4. Counted' = Counted BY <2>1, CountedStays
  <2>5. CountIsExact' BY <2>1, <2>4 DEF LatchInv, CountIsExact
  <2>6. WaitReturnsAtZero' BY <2>1, <2>4 DEF LatchInv, WaitReturnsAtZero
  <2>7. ZeroIsAnnounced' BY <2>1 DEF ZeroIsAnnounced
  <2> QED BY <2>2, <2>3, <2>5, <2>6, <2>7 DEF LatchInv
<1>5. ASSUME NEW w \in Waiter, WaitSleep(w) PROVE LatchInv'
  <2>1. /\ pc[w] = "test" /\ pc' = [pc EXCEPT ![w] = "wait"] /\ count # 0
        /\ holder' = None /\ asleep' = asleep \cup {w} /\ UNCHANGED count
    BY <1>5 DEF WaitSleep, WaitBlock, KCountDownLatchCVPredicate
  <2>2. TypeOK' BY <2>1
  <2>3. LockInv' BY <2>1
  <2>4. Counted' = Counted BY <2>1, CountedStays
  <2>5. CountIsExact' BY <2>1, <2>4 DEF LatchInv, CountIsExact
  <2>6. WaitReturnsAtZero' BY <2>1, <2>4 DEF LatchInv, WaitReturnsAtZero
  <2>7. ZeroIsAnnounced' BY <2>1 DEF ZeroIsAnnounced
  <2> QED BY <2>2, <2>3, <2>5, <2>6, <2>7 DEF LatchInv
<1>6. ASSUME NEW w \in Waiter, WaitWake(w) PROVE LatchInv'
  <2>1. TypeOK' /\ LockInv' BY <1>6 DEF WaitWake, WaitReturn, CriticalSectionEnter
  <2>2. Counted' = Counted BY <1>6, CountedStays DEF WaitWake
  <2>3. CountIsExact' /\ WaitReturnsAtZero' /\ ZeroIsAnnounced'
    BY <1>6, <2>1, <2>2, QuietStep DEF WaitWake, WaitReturn, CriticalSectionEnter
  <2> QED BY <2>1, <2>3 DEF LatchInv
<1>7. ASSUME NEW w \in Waiter, WaitExit(w) PROVE LatchInv'
  <2>1. /\ pc[w] = "test" /\ pc' = [pc EXCEPT ![w] = "returned"] /\ count = 0
        /\ holder' = None /\ UNCHANGED <<asleep, count>>
    BY <1>7 DEF WaitExit, CriticalSectionExit, KCountDownLatchCVPredicate
  <2>2. TypeOK' BY <2>1
  <2>3. LockInv' BY <2>1
  <2>4. Counted' = Counted BY <2>1, CountedStays
  <2>5. CountIsExact' BY <2>1, <2>4 DEF LatchInv, CountIsExact
  <2>6. WaitReturnsAtZero'
    <3>1. Cardinality(Counted) \in Nat BY CountedIsFinite
    <3> QED BY <2>1, <2>4, <3>1 DEF LatchInv, CountIsExact, WaitReturnsAtZero
  <2>7. ZeroIsAnnounced' BY <2>1 DEF LatchInv, ZeroIsAnnounced
  <2> QED BY <2>2, <2>3, <2>5, <2>6, <2>7 DEF LatchInv
<1>8. ASSUME NEW w \in Waiter, Spurious(w) PROVE LatchInv'
  <2>1. TypeOK' /\ LockInv' BY <1>8 DEF Spurious, SpuriousWakeup
  <2>2. Counted' = Counted BY <1>8 DEF Spurious, Counted
  <2>3. CountIsExact' /\ WaitReturnsAtZero' /\ ZeroIsAnnounced'
    BY <1>8, <2>1, <2>2, QuietStep DEF Spurious, SpuriousWakeup
  <2> QED BY <2>1, <2>3 DEF LatchInv
<1>9. CASE UNCHANGED vars
  <2>1. TypeOK' /\ LockInv' BY <1>9 DEF vars, cvVars
  <2>2. Counted' = Counted BY <1>9 DEF vars, Counted
  <2>3. CountIsExact' /\ WaitReturnsAtZero' /\ ZeroIsAnnounced'
    BY <1>9, <2>1, <2>2, QuietStep DEF vars, cvVars
  <2> QED BY <2>1, <2>3 DEF LatchInv
<1> QED BY <1>1, <1>2, <1>3, <1>4, <1>5, <1>6, <1>7, <1>8, <1>9
        DEF Next, CounterStep, WaiterStep, Finished

LEMMA LatchInvariant == Spec => []LatchInv
<1>1. LatchInv /\ UNCHANGED vars => LatchInv'
  BY DEF LatchInv, vars, cvVars, TypeOK, CVTypeOK, LockInv, CountIsExact,
    Counted, WaitReturnsAtZero, ZeroIsAnnounced
<1>2. LatchInv /\ [Next]_vars => LatchInv'
  BY <1>1, NextLatchInv
<1> QED BY InitLatchInv, <1>2, PTL DEF Spec

(* Type correctness of the latch.                                          *)
THEOREM LatchTypeCorrect == Spec => []TypeOK
<1>1. LatchInv => TypeOK BY DEF LatchInv
<1> QED BY LatchInvariant, <1>1, PTL

(* Concurrent calls of KCountDownLatchCountDown are all counted.           *)
THEOREM CountsAreNotLost == Spec => []CountIsExact
<1>1. LatchInv => CountIsExact BY DEF LatchInv
<1> QED BY LatchInvariant, <1>1, PTL

(* KCountDownLatchWait returns when enough calls have counted down.        *)
THEOREM WaitIsNotShort == Spec => []WaitReturnsAtZero
<1>1. LatchInv => WaitReturnsAtZero BY DEF LatchInv
<1> QED BY LatchInvariant, <1>1, PTL

(* No thread sleeps when the count is zero and nobody will notify it.      *)
THEOREM AnnouncementIsNotLost == Spec => []ZeroIsAnnounced
<1>1. LatchInv => ZeroIsAnnounced BY DEF LatchInv
<1> QED BY LatchInvariant, <1>1, PTL

=============================================================================
