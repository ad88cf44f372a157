---------------------------- MODULE KAutorelease ----------------------------
(***************************************************************************)
(* The autorelease pools of kautorelease.c, one per thread: an array that  *)
(* takes a reference on each object added to it, and gives all of them     *)
(* back when it is popped.  Popping runs deinitializers, which may add     *)
(* more to the array that KArrayRemoveAllObjects is working on.            *)
(***************************************************************************)
EXTENDS KObject, FiniteSets

CONSTANT MaxPool   \* bound: objects in one pool

ReleaseAssumption ==
  /\ IsFiniteSet(Object) /\ IsFiniteSet(Thread)
  /\ None \notin Object
  /\ MaxPool \in Nat

VARIABLES mishap,     \* what may go wrong in this behaviour
          pool,       \* the objects of each thread's tPool
          moved,      \* realloc has moved the buffer that a pop reads from
          borrowed    \* what each thread uses without a reference of its own

poolVars == <<pool, moved, borrowed>>
vars == <<heapVars, mishap, poolVars>>

(* A deinitializer may pop the pool that is being popped, and a realloc    *)
(* may move the buffer.                                                    *)
Mishap == {"none", "nested pop", "realloc moves"}

Init ==
  /\ HeapInit
  /\ mishap \in Mishap
  /\ pool = [t \in Thread |-> <<>>]
  /\ moved = [t \in Thread |-> FALSE]
  /\ borrowed = [t \in Thread |-> {}]

Popping(t) == \E n \in DOMAIN stack[t] : stack[t][n].call = "pop"

-----------------------------------------------------------------------------
(* KAutoreleasePoolAddObject: KArrayAddObject calls realloc each time.     *)

Append1(t, o) ==
  /\ Len(pool[t]) < MaxPool
  /\ pool' = [pool EXCEPT ![t] = Append(@, o)]
  /\ \/ UNCHANGED moved
     \/ mishap = "realloc moves" /\ moved' = [moved EXCEPT ![t] = Popping(t)]

AddObject(t, o) ==
  /\ Idle(t) /\ o \in owned[t]
  /\ Append1(t, o)
  /\ ref_count' = [ref_count EXCEPT ![o] = @ + 1]
  /\ UNCHANGED <<memory, field, owned, stack, misused, borrowed>>

(* KAutoreleaseMove: the reference goes to the pool, and the caller uses   *)
(* the object on; or there is no memory, the object is released, and the   *)
(* caller gets NULL.                                                       *)
UseAnyway(t, o) == borrowed' = [borrowed EXCEPT ![t] = @ \cup {o}]
ReturnNull(t, o) == UNCHANGED borrowed

Move(t, o) ==
  /\ Idle(t) /\ o \in owned[t]
  /\ owned' = [owned EXCEPT ![t] = @ \ {o}]
  /\ \/ /\ Append1(t, o)
        /\ borrowed' = [borrowed EXCEPT ![t] = @ \cup {o}]
        /\ UNCHANGED <<memory, ref_count, stack, misused>>
     \/ /\ KObjectRelease(t, o, stack[t])
        /\ ReturnNull(t, o)
        /\ UNCHANGED <<pool, moved>>
  /\ UNCHANGED field

(* A deinitializer autoreleases what its object holds.                     *)
DeinitMoves(t) ==
  /\ Top(t, "deinit") /\ field[Deinitialized(t)] # None
  /\ ClearField(t)
  /\ Append1(t, field[Deinitialized(t)])
  /\ UNCHANGED <<memory, ref_count, owned, stack, misused, borrowed>>

-----------------------------------------------------------------------------
(* KAutoreleasePoolPop: KArrayRemoveAllObjects reads the buffer once and   *)
(* the length each time round.                                             *)

Pop(t) ==
  /\ \/ Idle(t)
     \/ /\ Top(t, "deinit") /\ pool[t] # <<>>
        /\ Popping(t) => mishap = "nested pop"
  /\ stack' = [stack EXCEPT ![t] = <<Frame("pop", None, 1)>> \o @]
  /\ borrowed' = [borrowed EXCEPT ![t] = {}]
  /\ UNCHANGED <<memory, ref_count, field, owned, misused, pool, moved>>

PopIndex(t) == Head(stack[t]).index

PopRelease(t) ==
  /\ Top(t, "pop") /\ PopIndex(t) <= Len(pool[t])
  /\ IF moved[t]
       THEN misused' = TRUE /\ UNCHANGED <<memory, ref_count, stack>>
       ELSE KObjectRelease(t, pool[t][PopIndex(t)],
              <<Frame("pop", None, PopIndex(t) + 1)>> \o Tail(stack[t]))
  /\ UNCHANGED <<field, owned, poolVars>>

PopReturns(t) ==
  /\ Top(t, "pop") /\ PopIndex(t) > Len(pool[t])
  /\ pool' = [pool EXCEPT ![t] = <<>>]
  /\ moved' = [moved EXCEPT ![t] = FALSE]
  /\ stack' = [stack EXCEPT ![t] = Tail(@)]
  /\ UNCHANGED <<memory, ref_count, field, owned, misused, borrowed>>

Return(t) == \/ DeinitMoves(t) \/ PopRelease(t) \/ PopReturns(t)
             \/ (DeinitReleases(t) \/ Free(t)) /\ UNCHANGED poolVars

Next ==
  /\ \/ /\ ~misused
        /\ \E t \in Thread :
             \/ Program(t) /\ UNCHANGED poolVars
             \/ \E o \in Object : AddObject(t, o) \/ Move(t, o)
             \/ Pop(t) \/ Return(t)
     \/ misused /\ UNCHANGED <<heapVars, poolVars>>
  /\ UNCHANGED mishap

Spec == Init /\ [][Next]_vars

-----------------------------------------------------------------------------
(* Properties.                                                             *)

(* Every variable has its type.                                            *)
TypeOK ==
  /\ memory \in [Object -> {"none", "live", "deinit", "freed"}]
  /\ ref_count \in [Object -> Int]
  /\ field \in [Object -> Object \cup {None}]
  /\ owned \in [Thread -> SUBSET Object]
  /\ mishap \in Mishap
  /\ misused \in BOOLEAN
  /\ pool \in [Thread -> Seq(Object)]
  /\ moved \in [Thread -> BOOLEAN]
  /\ borrowed \in [Thread -> SUBSET Object]

(* Positions of a pool below the one that is being popped are given back.  *)
Holding(t, o) ==
  {n \in DOMAIN pool[t] :
     /\ pool[t][n] = o
     /\ \A m \in DOMAIN stack[t] :
          stack[t][m].call = "pop" => stack[t][m].index <= n}

Holders(o) ==
  Cardinality({t \in Thread : o \in owned[t]})
    + Cardinality({p \in Object : field[p] = o})
    + Cardinality({at \in Thread \X (1 .. MaxPool) : at[2] \in Holding(at[1], o)})

(* An object lives exactly as long as somebody has a reference on it: a    *)
(* thread, another object that is not freed, or the unreleased part of an  *)
(* autorelease pool, to which deinitializers add while it is popped.  No   *)
(* reference is given back twice, and none is forgotten.                   *)
LivesWhileReferenced ==
  mishap = "none" =>
    /\ ~misused
    /\ \A o \in Object :
         /\ ref_count[o] = Holders(o)
         /\ memory[o] = "live" <=> Holders(o) > 0

(* What KAutoreleaseMove has returned can be used until the thread pops    *)
(* its pool, whatever other threads give back in the meantime.             *)
AutoreleasedIsUsable ==
  mishap = "none" => \A t \in Thread : \A o \in borrowed[t] : memory[o] = "live"

(* KArrayRemoveAllObjects relinquishes the references that the array owns, *)
(* each of them once, and reads nothing that was freed.                    *)
RelinquishedOnce == ~misused

=============================================================================
