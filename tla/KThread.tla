------------------------------ MODULE KThread ------------------------------
(***************************************************************************)
(* A thread object of kthread.c and the references on it.  KThreadNew      *)
(* takes two: one for the caller and one for the new thread, which gives   *)
(* its own back before it calls the procedure it was made for.  Whoever    *)
(* gives back the last one runs KThreadDeInit, which joins the thread.     *)
(*                                                                         *)
(* The actors are the holders of references; the new thread is one of them *)
(* when its procedure may be handed a reference.  A holder has one         *)
(* reference at most: a thread that has more is as many holders.           *)
(***************************************************************************)
EXTENDS Integers, FiniteSets

CONSTANTS Holder,     \* who can have a reference
          Creator,    \* the caller of KThreadNew
          Joiner,     \* holders that call KThreadJoin
          Self,       \* the new thread
          Platform,   \* "posix" or "windows"
          None

ThreadAssumption ==
  /\ IsFiniteSet(Holder)
  /\ Creator \in Holder \ {Self}
  /\ Joiner \subseteq Holder
  /\ Platform \in {"posix", "windows"}
  /\ None \notin Holder \cup {Self}

VARIABLES pc,          \* where each actor is
          refs,        \* ref_count of the object
          owners,      \* the holders that have a reference
          collector,   \* who is in KThreadDeInit
          freed,       \* the object has been freed
          is_joined, is_valid,   \* thread->is_joined and thread->is_valid
          called       \* the procedure has been called

objectVars == <<refs, owners, collector, freed>>
vars == <<pc, objectVars, is_joined, is_valid, called>>

Actor == Holder \cup {Self}

(* Where an actor is when it is in no function of the library: the new     *)
(* thread is in its procedure then.                                        *)
Outside(t) == IF t = Self THEN "main" ELSE "idle"

Goto(t, label) == pc' = [pc EXCEPT ![t] = label]

Init ==
  /\ pc = [t \in Actor |-> IF t = Self THEN "none"
                           ELSE IF t = Creator THEN "new" ELSE "idle"]
  /\ refs = 0
  /\ owners = {}
  /\ collector = None
  /\ freed = FALSE
  /\ is_joined = FALSE /\ is_valid = FALSE
  /\ called = FALSE

-----------------------------------------------------------------------------
(* KObjectRelease.  The last reference leads to the deinitializer.         *)
GiveBack(t, next) ==
  /\ refs' = refs - 1
  /\ IF refs = 1 THEN collector' = t /\ Goto(t, "join")
                 ELSE Goto(t, next) /\ UNCHANGED collector
  /\ UNCHANGED freed

-----------------------------------------------------------------------------
(* KThreadNew.  The second reference is taken before there is a thread.    *)
RetainLater == refs' = 1
RetainForMain == refs' = 2

Alloc ==
  /\ pc[Creator] = "new"
  /\ RetainForMain
  /\ Goto(Creator, "create")
  /\ UNCHANGED <<owners, collector, freed, is_joined, is_valid, called>>

(* pthread_create: the new thread runs before its handle is stored.        *)
Create ==
  /\ pc[Creator] = "create"
  /\ pc' = [pc EXCEPT ![Creator] = "store", ![Self] = "start"]
  /\ UNCHANGED <<objectVars, is_joined, is_valid, called>>

(* Both references are given back by the creator, who alone has them.  The *)
(* second one leads to the deinitializer.                                  *)
CreateFails ==
  /\ pc[Creator] = "create"
  /\ refs' = 0
  /\ collector' = Creator
  /\ Goto(Creator, "join")
  /\ UNCHANGED <<owners, freed, is_joined, is_valid, called>>

Store ==
  /\ pc[Creator] = "store"
  /\ is_valid' = TRUE
  /\ owners' = {Creator}
  /\ Goto(Creator, "idle")
  /\ UNCHANGED <<refs, collector, freed, is_joined, called>>

-----------------------------------------------------------------------------
(* KThreadMain: main and user_data are read, the reference is given back,  *)
(* and the procedure is called.                                            *)
ReadMain ==
  /\ pc[Self] = "start"
  /\ Goto(Self, "release")
  /\ UNCHANGED <<objectVars, is_joined, is_valid, called>>

MainReleases ==
  /\ pc[Self] = "release"
  /\ GiveBack(Self, "call")
  /\ UNCHANGED <<owners, is_joined, is_valid, called>>

CallMain ==
  /\ pc[Self] = "call"
  /\ called' = TRUE
  /\ Goto(Self, "main")
  /\ UNCHANGED <<objectVars, is_joined, is_valid>>

MainReturns ==
  /\ pc[Self] = "main"
  /\ Self \notin owners
  /\ Goto(Self, "ended")
  /\ UNCHANGED <<objectVars, is_joined, is_valid, called>>

-----------------------------------------------------------------------------
(* What a holder does with its reference.                                  *)

Free(t) == pc[t] = Outside(t)

(* KThreadRetain, and the new reference is handed to another holder.       *)
Give(h, g) ==
  /\ Free(h) /\ h \in owners
  /\ pc[g] \in {"idle", "main"} /\ g \notin owners
  /\ refs' = refs + 1
  /\ owners' = owners \cup {g}
  /\ UNCHANGED <<pc, collector, freed, is_joined, is_valid, called>>

Release(h) ==
  /\ Free(h) /\ h \in owners
  /\ owners' = owners \ {h}
  /\ GiveBack(h, pc[h])
  /\ UNCHANGED <<is_joined, is_valid, called>>

Join(h) ==
  /\ Free(h) /\ h \in owners \cap Joiner
  /\ Goto(h, "join")
  /\ UNCHANGED <<objectVars, is_joined, is_valid, called>>

-----------------------------------------------------------------------------
(* KThreadJoin, called by a holder or by KThreadDeInit; the object is      *)
(* freed when the latter returns.                                          *)

Leave(t) ==
  /\ Goto(t, IF t # Self THEN "idle" ELSE IF called THEN "main" ELSE "call")
  /\ freed' = (freed \/ collector = t)
  /\ collector' = IF collector = t THEN None ELSE collector
  /\ UNCHANGED <<refs, owners, called>>

NothingToJoin(t) ==
  /\ pc[t] = "join"
  /\ is_joined \/ ~is_valid
  /\ Leave(t)
  /\ UNCHANGED <<is_joined, is_valid>>

JoinTest(t) ==
  /\ pc[t] = "join"
  /\ ~is_joined /\ is_valid
  /\ Goto(t, "wait")
  /\ UNCHANGED <<objectVars, is_joined, is_valid, called>>

(* The wait ends with the thread.  pthread_join of the calling thread      *)
(* fails at once (EDEADLK), and so can one of a thread that somebody else  *)
(* is joining; KThreadJoin does not look at the result.                    *)
DoNotWait(t) == TRUE
WaitForSingleObject(t) == pc[Self] = "ended"
JoinFails(t) == t = Self \/ \E u \in Actor \ {t} : pc[u] = "wait"
WaitIsOver(t) ==
  WaitForSingleObject(t) \/ (Platform = "posix" /\ JoinFails(t))

JoinWait(t) ==
  /\ pc[t] = "wait"
  /\ WaitIsOver(t)
  /\ Goto(t, "set")
  /\ UNCHANGED <<objectVars, is_joined, is_valid, called>>

JoinSet(t) ==
  /\ pc[t] = "set"
  /\ is_joined' = TRUE /\ is_valid' = FALSE
  /\ Leave(t)

JoinStep(t) == NothingToJoin(t) \/ JoinTest(t) \/ JoinWait(t) \/ JoinSet(t)

(* KThreadNew, once it is called.                                          *)
NewStep == Create \/ CreateFails \/ Store
MainStep == ReadMain \/ MainReleases \/ CallMain

(* Nobody is inside the library, and the thread has ended.                 *)
Finished ==
  (\A t \in Actor : pc[t] \in {"idle", "none", "ended"}) /\ UNCHANGED vars

Next ==
  \/ Alloc \/ NewStep \/ MainStep \/ MainReturns
  \/ \E h \in Holder : Release(h) \/ Join(h) \/ \E g \in Holder : Give(h, g)
  \/ \E t \in Actor : JoinStep(t)
  \/ Finished

Spec == Init /\ [][Next]_vars

(* Every actor that is inside the library goes on, and the procedure gives *)
(* back the references it is handed, again and again, and ends.            *)
ProcEnds ==
  /\ SF_vars(MainReturns)
  /\ IF Self \in Holder THEN SF_vars(Release(Self)) ELSE TRUE

Fairness ==
  /\ WF_vars(NewStep) /\ WF_vars(MainStep) /\ ProcEnds
  /\ \A t \in Actor : WF_vars(JoinStep(t))

FairSpec == Spec /\ Fairness

-----------------------------------------------------------------------------
(* Properties.                                                             *)

(* Every variable has its type.                                            *)
TypeOK ==
  /\ pc \in [Actor -> {"none", "new", "create", "store", "start", "release",
                       "call", "main", "ended", "idle", "join", "wait", "set"}]
  /\ refs \in Nat
  /\ owners \subseteq Holder
  /\ collector \in Actor \cup {None}
  /\ freed \in BOOLEAN /\ is_joined \in BOOLEAN /\ is_valid \in BOOLEAN
  /\ called \in BOOLEAN

(* The object is freed when nobody can use it any more, neither through a  *)
(* reference nor from inside a function that was entered with one; and     *)
(* nothing is collected while somebody has a reference.                    *)
NoUseAfterFree ==
  freed \/ collector # None =>
    /\ owners = {} /\ refs = 0
    /\ pc[Self] \notin {"start", "release"} /\ pc[Creator] # "store"
    /\ \A t \in Actor \ {collector} : pc[t] \notin {"join", "wait", "set"}

(* KThreadJoin returns, to whoever shares the object, when the thread has  *)
(* ended.  (The object that the thread itself collects is not shared.)     *)
JoinedMeansEnded == is_joined => pc[Self] = "ended" \/ refs = 0

(* "Once created the supplied proc is invoked on that thread."             *)
ProcIsInvoked == pc[Self] = "start" ~> called

(* Who joins, or drops the last reference, gets out of it.                 *)
JoinReturns == \A t \in Actor : pc[t] = "join" ~> pc[t] \notin {"join", "wait", "set"}

=============================================================================
