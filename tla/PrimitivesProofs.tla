--------------------------- MODULE PrimitivesProofs ---------------------------
(***************************************************************************)
(* Proofs about KThread and KSemaphore, as MCPrimitives instantiates them, *)
(* for any holders of references, any threads and any number of permits.   *)
(*                                                                         *)
(* Of a thread object the invariant is what each reference is for: one for *)
(* each owner, one of the new thread until it gives it back, and one that  *)
(* KThreadNew has not handed to its caller yet.  Of a semaphore it is the  *)
(* balance of permits, and the limit that Windows keeps.                   *)
(***************************************************************************)
EXTENDS MCPrimitives, KCountdownLatchProofs

Actor == T!Actor
Joining == {"join", "wait", "set"}

ThreadRef ==
  IF threadPC[Self] \in {"start", "release"} \/ threadPC[Creator] = "create"
    THEN 1 ELSE 0
NewRef == IF threadPC[Creator] \in {"create", "store"} THEN 1 ELSE 0

RefsAreCounted ==
  /\ IsFiniteSet(owners)
  /\ refs = Cardinality(owners) + ThreadRef + NewRef

(* Who is where in KThreadNew and KThreadMain.                             *)
ThreadPlaces ==
  /\ threadPC[Self] \notin {"new", "create", "store", "idle"}
  /\ threadPC[Creator] \in {"new", "create", "store", "idle"} \cup Joining
  /\ \A t \in Actor \ {Self, Creator} : threadPC[t] \in {"idle"} \cup Joining
  /\ threadPC[Creator] \in {"new", "create"} =>
       /\ threadPC[Self] = "none"
       /\ collector = None /\ ~freed /\ ~is_joined
  /\ threadPC[Creator] \in {"new", "create", "store"} => owners = {}
  /\ Self \in owners \/ threadPC[Self] = "main" => called
  /\ Self \in owners => threadPC[Self] \in {"main"} \cup Joining

(* KThreadJoin and KThreadDeInit are entered with a reference, the latter  *)
(* with the last one.                                                      *)
JoinersHoldOn ==
  /\ \A t \in Actor : threadPC[t] \in Joining =>
       t = collector \/ t \in owners \cap Joiner
  /\ collector # None => threadPC[collector] \in Joining
  /\ collector # None \/ freed => refs = 0

ThreadInv == T!TypeOK /\ RefsAreCounted /\ ThreadPlaces /\ JoinersHoldOn

LEMMA ThreadConstants ==
  /\ IsFiniteSet(Holder)
  /\ Creator \in Holder /\ Creator # Self /\ Joiner \subseteq Holder
  /\ Host \in {"posix", "windows"} /\ None \notin Holder \cup {Self}
BY PrimitivesAssumption DEF T!ThreadAssumption, T!IsFiniteSet, IsFiniteSet

USE ThreadConstants DEF Actor, T!Actor, Joining

LEMMA ThreadInvInit == T!Init => ThreadInv
<1> SUFFICES ASSUME T!Init PROVE ThreadInv OBVIOUS
<1> USE DEF T!Init
<1>1. T!TypeOK BY DEF T!TypeOK
<1>2. RefsAreCounted BY FS_EmptySet DEF RefsAreCounted, ThreadRef, NewRef
<1>3. ThreadPlaces BY DEF ThreadPlaces
<1>4. JoinersHoldOn BY DEF JoinersHoldOn
<1> QED BY <1>1, <1>2, <1>3, <1>4 DEF ThreadInv

(* Whoever has a reference keeps the count above zero.                     *)
LEMMA OwnerCounts ==
  ASSUME ThreadInv
  PROVE  /\ Cardinality(owners) \in Nat
         /\ \A h \in owners : refs >= 1
         /\ refs = 0 => owners = {}
         /\ owners = {} => refs = ThreadRef + NewRef
<1>1. Cardinality(owners) \in Nat
  BY FS_CardinalityType DEF ThreadInv, RefsAreCounted
<1>2. Cardinality(owners) = 0 <=> owners = {}
  BY FS_EmptySet DEF ThreadInv, RefsAreCounted
<1> QED BY <1>1, <1>2 DEF ThreadInv, RefsAreCounted, ThreadRef, NewRef

LEMMA AllocStep ==
  ASSUME ThreadInv, T!Alloc
  PROVE  ThreadInv'
<1> USE DEF ThreadInv, T!Alloc, T!Goto, T!RetainForMain
<1>1. T!TypeOK' BY DEF T!TypeOK
<1>2. RefsAreCounted'
  BY FS_EmptySet DEF T!TypeOK, RefsAreCounted, ThreadPlaces, ThreadRef, NewRef
<1>3. ThreadPlaces' BY DEF T!TypeOK, ThreadPlaces
<1>4. JoinersHoldOn' BY DEF T!TypeOK, ThreadPlaces, JoinersHoldOn
<1> QED BY <1>1, <1>2, <1>3, <1>4

LEMMA CreateStep ==
  ASSUME ThreadInv, T!Create
  PROVE  ThreadInv'
<1> USE DEF ThreadInv, T!Create, T!objectVars
<1>1. T!TypeOK' BY DEF T!TypeOK
<1>2. RefsAreCounted'
  BY DEF T!TypeOK, RefsAreCounted, ThreadPlaces, ThreadRef, NewRef
<1>3. ThreadPlaces' BY DEF T!TypeOK, ThreadPlaces
<1>4. JoinersHoldOn' BY DEF T!TypeOK, ThreadPlaces, JoinersHoldOn
<1> QED BY <1>1, <1>2, <1>3, <1>4

LEMMA CreateFailsStep ==
  ASSUME ThreadInv, T!CreateFails
  PROVE  ThreadInv'
<1> USE DEF ThreadInv, T!CreateFails, T!Goto
<1>1. T!TypeOK' BY DEF T!TypeOK
<1>2. RefsAreCounted'
  BY FS_EmptySet DEF T!TypeOK, RefsAreCounted, ThreadPlaces, ThreadRef, NewRef
<1>3. ThreadPlaces' BY DEF T!TypeOK, ThreadPlaces
<1>4. JoinersHoldOn' BY DEF T!TypeOK, ThreadPlaces, JoinersHoldOn
<1> QED BY <1>1, <1>2, <1>3, <1>4

LEMMA StoreStep ==
  ASSUME ThreadInv, T!Store
  PROVE  ThreadInv'
<1> USE DEF ThreadInv, T!Store, T!Goto
<1>1. T!TypeOK' BY DEF T!TypeOK
<1>2. RefsAreCounted'
  <2>1. IsFiniteSet(owners') /\ Cardinality(owners') = 1
    BY FS_Singleton
  <2>2. Cardinality(owners) = 0 BY FS_EmptySet DEF ThreadPlaces
  <2> QED BY <2>1, <2>2 DEF T!TypeOK, RefsAreCounted, ThreadPlaces, ThreadRef, NewRef
<1>3. ThreadPlaces' BY DEF T!TypeOK, ThreadPlaces
<1>4. JoinersHoldOn' BY OwnerCounts DEF T!TypeOK, ThreadPlaces, JoinersHoldOn, NewRef, ThreadRef
<1> QED BY <1>1, <1>2, <1>3, <1>4

(* The last reference is given back by its owner or by the new thread.     *)
LEMMA GiveBackStep ==
  ASSUME ThreadInv, NEW t \in Actor, NEW next,
         \/ /\ t \in owners /\ owners' = owners \ {t}
            /\ threadPC[t] = T!Outside(t) /\ next = threadPC[t]
         \/ t = Self /\ threadPC[t] = "release" /\ next = "call" /\ owners' = owners,
         T!GiveBack(t, next), UNCHANGED <<is_joined, is_valid, called>>
  PROVE  ThreadInv'
<1> USE DEF ThreadInv, T!Goto, T!Outside
<1>n. Cardinality(owners) \in Nat BY OwnerCounts
<1>1. refs >= 1
  BY <1>n, OwnerCounts DEF RefsAreCounted, ThreadRef, NewRef
<1>2. collector = None /\ ~freed /\ refs \in Nat
  BY <1>1 DEF JoinersHoldOn, T!TypeOK
<1>3. /\ refs' = refs - 1 /\ freed' = freed
      /\ \/ refs = 1 /\ collector' = t /\ threadPC' = [threadPC EXCEPT ![t] = "join"]
         \/ refs # 1 /\ collector' = collector /\ threadPC' = [threadPC EXCEPT ![t] = next]
  BY DEF T!GiveBack
<1>4. threadPC[Creator] \notin {"new", "create"}
  BY DEF ThreadPlaces
<1>5. T!TypeOK' BY <1>1, <1>2, <1>3 DEF T!TypeOK
<1>6. RefsAreCounted'
  <2>1. CASE t \in owners /\ owners' = owners \ {t} /\ threadPC[t] = T!Outside(t) /\ next = threadPC[t]
    <3>1. IsFiniteSet(owners') /\ Cardinality(owners') = Cardinality(owners) - 1
      BY <2>1, FS_RemoveElement DEF RefsAreCounted
    <3>2. ThreadRef' = ThreadRef /\ NewRef' = NewRef
      BY <1>3, <2>1 DEF ThreadRef, NewRef, T!TypeOK, ThreadPlaces
    <3> QED BY <1>n, <1>3, <3>1, <3>2 DEF RefsAreCounted, ThreadRef, NewRef
  <2>2. CASE t = Self /\ threadPC[t] = "release" /\ next = "call" /\ owners' = owners
    <3>1. ThreadRef' = 0 /\ ThreadRef = 1 /\ NewRef' = NewRef
      BY <1>3, <1>4, <2>2 DEF ThreadRef, NewRef, T!TypeOK, ThreadPlaces
    <3> QED BY <1>n, <1>3, <2>2, <3>1 DEF RefsAreCounted, NewRef
  <2> QED BY <2>1, <2>2
<1>7. ThreadPlaces' BY <1>3, <1>4 DEF T!TypeOK, ThreadPlaces
<1>8. JoinersHoldOn' BY <1>2, <1>3 DEF T!TypeOK, ThreadPlaces, JoinersHoldOn
<1> QED BY <1>5, <1>6, <1>7, <1>8

LEMMA GiveStep ==
  ASSUME ThreadInv, NEW h \in Holder, NEW g \in Holder, T!Give(h, g)
  PROVE  ThreadInv'
<1> USE DEF ThreadInv, T!Give
<1>1. refs >= 1 /\ refs \in Nat BY OwnerCounts DEF T!TypeOK
<1>2. T!TypeOK' BY <1>1 DEF T!TypeOK
<1>3. RefsAreCounted'
  <2>1. /\ IsFiniteSet(owners') /\ Cardinality(owners') = Cardinality(owners) + 1
    BY FS_AddElement DEF RefsAreCounted
  <2> QED BY <2>1, OwnerCounts DEF RefsAreCounted, ThreadRef, NewRef
<1>4. ThreadPlaces' BY DEF T!TypeOK, ThreadPlaces
<1>5. JoinersHoldOn' BY <1>1 DEF T!TypeOK, JoinersHoldOn
<1> QED BY <1>2, <1>3, <1>4, <1>5

(* KThreadJoin returns to a caller that keeps its reference, or ends the   *)
(* deinitializer.                                                          *)
LEMMA LeaveStep ==
  ASSUME ThreadInv, NEW t \in Actor, threadPC[t] \in Joining, T!Leave(t),
         is_joined' \in BOOLEAN, is_valid' \in BOOLEAN
  PROVE  ThreadInv'
<1> USE DEF ThreadInv
<1>1. /\ threadPC' = [threadPC EXCEPT ![t] = IF t # Self THEN "idle"
                                             ELSE IF called THEN "main" ELSE "call"]
      /\ freed' = (freed \/ collector = t)
      /\ collector' = (IF collector = t THEN None ELSE collector)
      /\ UNCHANGED <<refs, owners, called>>
  BY DEF T!Leave, T!Goto
<1>2. threadPC[Creator] \notin {"new", "create"}
  BY DEF ThreadPlaces, JoinersHoldOn
<1>3. T!TypeOK' BY <1>1 DEF T!TypeOK
<1>4. RefsAreCounted'
  <2>1. ThreadRef' = ThreadRef /\ NewRef' = NewRef
    BY <1>1, <1>2 DEF ThreadRef, NewRef, T!TypeOK
  <2> QED BY <1>1, <2>1 DEF RefsAreCounted
<1>5. ThreadPlaces' BY <1>1, <1>2 DEF T!TypeOK, ThreadPlaces, JoinersHoldOn
<1>6. JoinersHoldOn'
  <2>1. collector = t => owners = {} BY OwnerCounts DEF JoinersHoldOn
  <2> QED BY <1>1, <2>1 DEF T!TypeOK, JoinersHoldOn
<1> QED BY <1>3, <1>4, <1>5, <1>6

(* A step of one actor between two places at which it has the same         *)
(* references.                                                             *)
LEMMA WalkStep ==
  ASSUME ThreadInv, NEW t \in Actor, NEW l,
         threadPC' = [threadPC EXCEPT ![t] = l], UNCHANGED T!objectVars,
         UNCHANGED <<is_joined, is_valid>>,
         \/ threadPC[t] = "start" /\ l = "release" /\ called' = called
         \/ threadPC[t] = "call" /\ l = "main" /\ called'
         \/ /\ threadPC[t] = "main" /\ l = "ended" /\ called' = called
            /\ t \notin owners
         \/ /\ threadPC[t] = T!Outside(t) /\ l = "join" /\ called' = called
            /\ t \in owners \cap Joiner
         \/ /\ threadPC[t] \in Joining /\ l \in {"wait", "set"}
            /\ called' = called
  PROVE  ThreadInv'
<1> USE DEF ThreadInv, T!objectVars, T!Outside
<1>1. T!TypeOK' BY DEF T!TypeOK
<1>2. RefsAreCounted'
  <2>1. ThreadRef' = ThreadRef /\ NewRef' = NewRef
    BY DEF ThreadRef, NewRef, T!TypeOK, ThreadPlaces
  <2> QED BY <2>1 DEF RefsAreCounted
<1>3. ThreadPlaces'
  <2>1. threadPC[Creator] \in {"new", "create"} => t # Self /\ t # Creator /\ threadPC'[Creator] = threadPC[Creator]
    BY DEF T!TypeOK, ThreadPlaces, JoinersHoldOn
  <2> QED BY <2>1 DEF T!TypeOK, ThreadPlaces
<1>4. JoinersHoldOn' BY DEF T!TypeOK, JoinersHoldOn, ThreadPlaces
<1> QED BY <1>1, <1>2, <1>3, <1>4

LEMMA ThreadInvStep ==
  ASSUME ThreadInv, T!Next
  PROVE  ThreadInv'
<1> Self \in Actor /\ Holder \subseteq Actor OBVIOUS
<1>1. ASSUME NEW t \in Actor, T!JoinStep(t) PROVE ThreadInv'
  <2>1. CASE T!NothingToJoin(t)
    BY <2>1, LeaveStep DEF T!NothingToJoin, ThreadInv, T!TypeOK
  <2>2. CASE T!JoinTest(t)
    BY <2>2, WalkStep DEF T!JoinTest, T!Goto
  <2>3. CASE T!JoinWait(t)
    BY <2>3, WalkStep DEF T!JoinWait, T!Goto
  <2>4. CASE T!JoinSet(t)
    BY <2>4, LeaveStep DEF T!JoinSet
  <2> QED BY <1>1, <2>1, <2>2, <2>3, <2>4 DEF T!JoinStep
<1>2. ASSUME NEW h \in Holder, T!Release(h) PROVE ThreadInv'
  BY <1>2, GiveBackStep DEF T!Release, T!Free
<1>3. ASSUME NEW h \in Holder, T!Join(h) PROVE ThreadInv'
  BY <1>3, WalkStep DEF T!Join, T!Free, T!Goto
<1>4. CASE T!MainReleases
  BY <1>4, GiveBackStep DEF T!MainReleases
<1>5. CASE T!ReadMain
  BY <1>5, WalkStep DEF T!ReadMain, T!Goto
<1>6. CASE T!CallMain
  BY <1>6, WalkStep DEF T!CallMain, T!Goto
<1>7. CASE T!MainReturns
  BY <1>7, WalkStep DEF T!MainReturns, T!Goto
<1>8. CASE UNCHANGED T!vars
  BY <1>8 DEF T!vars, T!objectVars, ThreadInv, T!TypeOK, RefsAreCounted,
    ThreadRef, NewRef, ThreadPlaces, JoinersHoldOn
<1> QED
  BY <1>1, <1>2, <1>3, <1>4, <1>5, <1>6, <1>7, <1>8, AllocStep, CreateStep,
    CreateFailsStep, StoreStep, GiveStep
  DEF T!Next, T!NewStep, T!MainStep, T!Finished

(* Nobody is left who could use an object that is collected.               *)
LEMMA ThreadInvIsSafe == ThreadInv => NoUseAfterFree
<1> SUFFICES ASSUME ThreadInv, freed \/ collector # None
             PROVE  /\ owners = {} /\ refs = 0
                    /\ threadPC[Self] \notin {"start", "release"}
                    /\ threadPC[Creator] # "store"
                    /\ \A t \in Actor \ {collector} : threadPC[t] \notin Joining
  BY DEF NoUseAfterFree, T!NoUseAfterFree
<1>1. refs = 0 /\ owners = {}
  BY OwnerCounts DEF ThreadInv, JoinersHoldOn
<1>2. ThreadRef = 0 /\ NewRef = 0
  BY <1>1, OwnerCounts DEF ThreadRef, NewRef
<1> QED BY <1>1, <1>2 DEF ThreadInv, JoinersHoldOn, ThreadRef, NewRef

-----------------------------------------------------------------------------
(* KThreadJoin does not look at the result of pthread_join, which fails at *)
(* once for the thread itself and may fail when somebody else joins the    *)
(* thread too.  What it promises holds where neither happens.              *)
OneJoiner ==
  Host = "windows" \/ (Self \notin Joiner /\ \A g, h \in Joiner : g = h)

JoinedInv ==
  is_joined \/ (\E t \in Actor : threadPC[t] = "set") =>
    threadPC[Self] = "ended" \/ refs = 0

(* The thread stays ended, and a collected object collected.               *)
LEMMA EndedOrCollected ==
  ASSUME ThreadInv, T!Next
  PROVE  /\ threadPC[Self] = "ended" => threadPC'[Self] = "ended"
         /\ refs = 0 => refs' = 0 \/ threadPC[Creator] = "new"
<1> USE DEF ThreadInv
<1>1. refs = 0 => owners = {} /\ ThreadRef = 0
  BY OwnerCounts DEF ThreadRef, NewRef
<1>2. ASSUME threadPC[Self] = "ended" PROVE threadPC'[Self] = "ended"
  <2>1. threadPC[Creator] # "create" BY <1>2 DEF ThreadPlaces
  <2> QED
    BY <1>2, <2>1 DEF T!Next, T!NewStep, T!MainStep, T!JoinStep, T!Alloc, T!Create,
      T!CreateFails, T!Store, T!ReadMain, T!MainReleases, T!CallMain, T!MainReturns,
      T!Release, T!Join, T!Give, T!NothingToJoin, T!JoinTest, T!JoinWait, T!JoinSet,
      T!Leave, T!GiveBack, T!Goto, T!Finished, T!vars, T!Free, T!Outside, T!TypeOK
<1>3. ASSUME refs = 0, threadPC[Creator] # "new" PROVE refs' = 0
  <2>1. owners = {} /\ threadPC[Self] # "release"
    BY <1>1, <1>3 DEF ThreadRef
  <2> QED
    BY <1>3, <2>1 DEF T!Next, T!NewStep, T!MainStep, T!JoinStep, T!Alloc, T!Create,
      T!CreateFails, T!Store, T!ReadMain, T!MainReleases, T!CallMain, T!MainReturns,
      T!Release, T!Join, T!Give, T!NothingToJoin, T!JoinTest, T!JoinWait, T!JoinSet,
      T!Leave, T!Goto, T!Finished, T!vars, T!objectVars
<1> QED BY <1>2, <1>3

LEMMA JoinedStep ==
  ASSUME OneJoiner, ThreadInv, JoinedInv, T!Next
  PROVE  JoinedInv'
<1> USE DEF ThreadInv
<1>1. ASSUME is_joined \/ (\E t \in Actor : threadPC[t] = "set")
      PROVE  threadPC'[Self] = "ended" \/ refs' = 0
  <2>1. threadPC[Creator] # "new"
    BY <1>1 DEF ThreadPlaces, JoinersHoldOn
  <2> QED BY <1>1, <2>1, EndedOrCollected DEF JoinedInv
<1>2. ASSUME NEW t \in Actor, T!JoinWait(t)
      PROVE  threadPC[Self] = "ended" \/ refs = 0
  <2>1. SUFFICES ASSUME threadPC[Self] # "ended", collector = None PROVE FALSE
    BY DEF JoinersHoldOn
  <2>2. Host = "posix" /\ T!JoinFails(t) /\ threadPC[t] = "wait"
    BY <1>2, <2>1 DEF T!JoinWait, T!WaitIsOver, T!WaitForSingleObject
  <2>3. t \in Joiner /\ \A u \in Actor : threadPC[u] = "wait" => u \in Joiner
    BY <2>1, <2>2 DEF JoinersHoldOn, T!TypeOK
  <2> QED BY <2>2, <2>3 DEF T!JoinFails, OneJoiner
<1>3. ASSUME ~is_joined, is_joined' PROVE \E t \in Actor : threadPC[t] = "set"
  BY <1>3 DEF T!Next, T!NewStep, T!MainStep, T!JoinStep, T!Alloc, T!Create,
    T!CreateFails, T!Store, T!ReadMain, T!MainReleases, T!CallMain, T!MainReturns,
    T!Release, T!Join, T!Give, T!NothingToJoin, T!JoinTest, T!JoinWait, T!JoinSet,
    T!Finished, T!vars
<1>4. ASSUME NEW t \in Actor, threadPC'[t] = "set"
      PROVE  threadPC[t] = "set" \/ T!JoinWait(t)
  BY <1>4 DEF T!Next, T!NewStep, T!MainStep, T!JoinStep, T!Alloc, T!Create,
      T!CreateFails, T!Store, T!ReadMain, T!MainReleases, T!CallMain, T!MainReturns,
      T!Release, T!Join, T!Give, T!NothingToJoin, T!JoinTest, T!JoinWait, T!JoinSet,
      T!Leave, T!GiveBack, T!Goto, T!Finished, T!vars, T!Free, T!Outside, T!TypeOK
<1>5. ASSUME NEW t \in Actor, T!JoinWait(t)
      PROVE  threadPC'[Self] = "ended" \/ refs' = 0
  <2>1. threadPC[Creator] # "new"
    BY <1>5 DEF T!JoinWait, ThreadPlaces, JoinersHoldOn
  <2> QED BY <1>2, <1>5, <2>1, EndedOrCollected
<1> QED BY <1>1, <1>3, <1>4, <1>5 DEF JoinedInv

-----------------------------------------------------------------------------
(* KSemaphore.                                                             *)

Balance ==
  permits + Cardinality(S!Holding) + refused = Permits + extra

SemInv ==
  /\ S!TypeOK /\ Balance /\ S!SignalSucceeds
  /\ \A t \in Stranger : semPC[t] = "idle"

LEMMA SemConstants ==
  /\ IsFiniteSet(User) /\ User \cap Stranger = {}
  /\ Platform \subseteq {"linux", "darwin", "windows"}
  /\ Permits \in Nat /\ MaxExtra \in Nat
BY PrimitivesAssumption DEF S!SemaphoreAssumption, S!IsFiniteSet, IsFiniteSet

USE SemConstants DEF S!Thread

LEMMA SameCardinality == \A X : S!Cardinality(X) = Cardinality(X)
BY DEF S!Cardinality, Cardinality

LEMMA HoldingIsFinite == IsFiniteSet(S!Holding) /\ Cardinality(S!Holding) \in Nat
BY FS_Subset, FS_CardinalityType DEF S!Holding

LEMMA SemInvInit == S!Init => SemInv
<1> SUFFICES ASSUME S!Init PROVE SemInv OBVIOUS
<1>1. S!Holding = {} BY DEF S!Init, S!Holding
<1>2. Balance BY <1>1, FS_EmptySet DEF S!Init, Balance
<1> QED BY <1>2 DEF SemInv, S!Init, S!TypeOK, S!SignalSucceeds

LEMMA SemInvStep ==
  ASSUME SemInv, S!Next
  PROVE  SemInv'
<1> USE DEF SemInv, S!TypeOK, S!Goto, S!ledger
<1>1. ASSUME NEW t \in S!Thread, S!Wait(t) PROVE SemInv'
  <2>1. S!Holding' = S!Holding BY <1>1 DEF S!Wait, S!Holding
  <2> QED BY <1>1, <2>1 DEF S!Wait, Balance, S!SignalSucceeds
<1>2. ASSUME NEW t \in S!Thread, S!Interrupted(t) PROVE SemInv'
  <2>1. S!Holding' = S!Holding BY <1>2 DEF S!Interrupted, S!WaitAgain, S!Holding
  <2> QED BY <1>2, <2>1 DEF S!Interrupted, S!WaitAgain, Balance, S!SignalSucceeds
<1>3. ASSUME NEW t \in S!Thread, S!Acquire(t) PROVE SemInv'
  <2>1. /\ semPC[t] = "wait" /\ t \in User /\ permits > 0 /\ permits' = permits - 1
        /\ semPC' = [semPC EXCEPT ![t] = "work"]
        /\ UNCHANGED <<platform, told, extra, refused>>
    BY <1>3 DEF S!Acquire, S!Available
  <2>2. S!Holding' = S!Holding \cup {t} /\ t \notin S!Holding
    BY <2>1 DEF S!Holding
  <2>3. Cardinality(S!Holding') = Cardinality(S!Holding) + 1
    BY <2>2, HoldingIsFinite, FS_AddElement
  <2>4. Balance' BY <2>1, <2>3, HoldingIsFinite DEF Balance
  <2> QED BY <2>1, <2>4 DEF S!SignalSucceeds
<1>4. ASSUME NEW t \in User, semPC[t] = "work", S!Signal(t) PROVE SemInv'
  <2>1. /\ semPC' = [semPC EXCEPT ![t] = "idle"] /\ extra' = extra
        /\ platform' = platform
        /\ refused' = refused + (IF S!CanSignal THEN 0 ELSE 1)
        /\ permits' = (IF S!CanSignal THEN permits + 1 ELSE permits)
        /\ told' = [told EXCEPT ![t] = IF S!Success THEN "true" ELSE "false"]
    BY <1>4 DEF S!Signal, S!Increment
  <2>2. S!Holding' = S!Holding \ {t} /\ t \in S!Holding
    BY <1>4, <2>1 DEF S!Holding
  <2>3. Cardinality(S!Holding') = Cardinality(S!Holding) - 1 /\ Cardinality(S!Holding) >= 1
    BY <2>2, HoldingIsFinite, FS_RemoveElement, FS_EmptySet
  <2>4. Balance' BY <2>1, <2>3, HoldingIsFinite DEF Balance
  <2>5. ~S!CanSignal => extra >= refused + 1
    BY <2>3, HoldingIsFinite DEF S!CanSignal, Balance
  <2>6. platform # "darwin" /\ S!CanSignal => S!Success
    BY DEF S!Success
  <2>7. S!SignalSucceeds' BY <2>1, <2>5, <2>6 DEF S!SignalSucceeds
  <2> QED BY <2>1, <2>4, <2>7
<1>5. ASSUME NEW t \in Stranger, S!Signal(t) PROVE SemInv'
  <2>1. /\ extra < MaxExtra /\ semPC' = semPC /\ platform' = platform
        /\ extra' = extra + (IF S!CanSignal THEN 1 ELSE 0)
        /\ refused' = refused
        /\ permits' = (IF S!CanSignal THEN permits + 1 ELSE permits)
        /\ told' = [told EXCEPT ![t] = IF S!Success THEN "true" ELSE "false"]
    BY <1>5 DEF S!Signal, S!Increment
  <2>2. S!Holding' = S!Holding BY <2>1 DEF S!Holding
  <2>3. Balance' BY <2>1, <2>2, HoldingIsFinite DEF Balance
  <2>4. S!SignalSucceeds' BY <2>1 DEF S!SignalSucceeds
  <2> QED BY <2>1, <2>3, <2>4
<1> QED BY <1>1, <1>2, <1>3, <1>4, <1>5 DEF S!Next, S!Signal

-----------------------------------------------------------------------------
(* The three of them.                                                      *)

PrimitivesInv == LatchInv /\ ThreadInv /\ SemInv

LEMMA MCInitIsTheirs == MCInit => Init /\ T!Init /\ S!Init
BY DEF MCInit

LEMMA MCNextIsTheirs ==
  [MCNext]_<<component, vars, threadVars, semVars>> =>
    [Next]_vars /\ [T!Next]_(T!vars) /\ [S!Next]_(S!vars)
BY DEF MCNext, threadVars, semVars, T!vars, T!objectVars, S!vars, S!ledger

LEMMA PrimitivesInvariant == MCSpec => []PrimitivesInv
<1>1. LatchInv /\ UNCHANGED vars => LatchInv'
  BY DEF LatchInv, vars, cvVars, TypeOK, CVTypeOK, LockInv, CountIsExact,
    Counted, WaitReturnsAtZero, ZeroIsAnnounced
<1>2. ThreadInv /\ UNCHANGED T!vars => ThreadInv'
  BY DEF T!vars, T!objectVars, ThreadInv, T!TypeOK, RefsAreCounted, ThreadRef,
    NewRef, ThreadPlaces, JoinersHoldOn
<1>3. SemInv /\ UNCHANGED S!vars => SemInv'
  BY DEF S!vars, S!ledger, SemInv, S!TypeOK, Balance, S!Holding, S!SignalSucceeds
<1>4. MCInit => PrimitivesInv
  BY MCInitIsTheirs, InitLatchInv, ThreadInvInit, SemInvInit DEF PrimitivesInv
<1>5. PrimitivesInv /\ [MCNext]_<<component, vars, threadVars, semVars>> => PrimitivesInv'
  BY <1>1, <1>2, <1>3, MCNextIsTheirs, NextLatchInv, ThreadInvStep, SemInvStep
  DEF PrimitivesInv
<1> QED BY <1>4, <1>5, PTL DEF MCSpec

(* Type correctness; in particular no count of references and no count of  *)
(* permits ever goes below zero.                                           *)
THEOREM PrimitivesTypeCorrect == MCSpec => []MCTypeOK
<1>1. PrimitivesInv => MCTypeOK
  BY DEF PrimitivesInv, LatchInv, ThreadInv, SemInv, MCTypeOK
<1> QED BY PrimitivesInvariant, <1>1, PTL

(* Of a thread object shared by any number of holders nobody has a         *)
(* reference, or is inside a function, when it is collected or freed.      *)
THEOREM ThreadIsNotUsedAfterFree == MCSpec => []NoUseAfterFree
<1>1. PrimitivesInv => NoUseAfterFree BY ThreadInvIsSafe DEF PrimitivesInv
<1> QED BY PrimitivesInvariant, <1>1, PTL

(* KThreadJoin returns when the thread has ended, if one other thread      *)
(* calls it, and on Windows always.                                        *)
THEOREM JoinWaitsForTheThread == OneJoiner => (MCSpec => []JoinedMeansEnded)
<1> SUFFICES ASSUME OneJoiner PROVE MCSpec => []JoinedMeansEnded OBVIOUS
<1>1. MCInit => JoinedInv
  BY DEF MCInit, T!Init, JoinedInv
<1>2. JoinedInv /\ UNCHANGED T!vars => JoinedInv'
  BY DEF T!vars, T!objectVars, JoinedInv
<1>3. PrimitivesInv /\ JoinedInv /\ [MCNext]_<<component, vars, threadVars, semVars>> => JoinedInv'
  BY <1>2, MCNextIsTheirs, JoinedStep DEF PrimitivesInv
<1>4. JoinedInv => JoinedMeansEnded
  BY DEF JoinedInv, JoinedMeansEnded, T!JoinedMeansEnded
<1> QED BY PrimitivesInvariant, <1>1, <1>3, <1>4, PTL DEF MCSpec

(* Whatever interrupts the waits, whoever signals, and whichever platform  *)
(* refuses what, no permit is lost or made; a signal that follows a wait   *)
(* succeeds.                                                               *)
THEOREM PermitsAreConserved == MCSpec => []Conserved
<1>1. PrimitivesInv => Conserved
  BY SameCardinality DEF PrimitivesInv, SemInv, Balance, Conserved, S!Conserved
<1> QED BY PrimitivesInvariant, <1>1, PTL

=============================================================================
