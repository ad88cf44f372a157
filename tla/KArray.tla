------------------------------- MODULE KArray -------------------------------
(***************************************************************************)
(* The array of karray.c: objects in the slots of an allocation, which is  *)
(* made as large as the next power of two before each addition and never   *)
(* smaller than it has to be.  An array is used by one thread at a time.   *)
(***************************************************************************)
EXTENDS KAllocation, FiniteSets, Sequences

CONSTANTS Object, None,
          RefSize,     \* sizeof(KObjectRef)
          MaxLength    \* bound: objects are added up to here

(* At the bound the size of the array has not wrapped yet.                 *)
ArrayAssumption ==
  /\ None \notin Object
  /\ Width \in 1 .. 32 /\ RefSize \in Nat \ {0} /\ MaxLength \in Nat
  /\ MaxLength * RefSize <= 2^(Width - 1)

VARIABLES length,   \* array->length
          items,    \* array->items
          slots,    \* what is in the buffer of items
          held,     \* references the array has on each object
          reply     \* the last call, and its result or the object released

vars == <<length, items, slots, held, reply>>

Slot == 0 .. MaxLength - 1

Init ==
  /\ length = 0
  /\ items = KAllocationNew
  /\ slots = [n \in Slot |-> None]
  /\ held = [o \in Object |-> 0]
  /\ reply = <<>>

-----------------------------------------------------------------------------
(* KArrayAddObject, with room and without.                                 *)

SizeOfThePresent == KAllocationNextPowerOfTwoSize(length * RefSize)
Needed == KAllocationNextPowerOfTwoSize((length + 1) * RefSize)

AddObject(o) ==
  /\ length < MaxLength
  /\ \E t \in Truncated(items, Needed) :
       /\ t.ok
       /\ items' = t.result
  /\ slots' = [slots EXCEPT ![length] = o]
  /\ held' = [held EXCEPT ![o] = @ + 1]
  /\ length' = length + 1
  /\ reply' = <<"add", TRUE>>

AddFails ==
  /\ length < MaxLength
  /\ \E t \in Truncated(items, Needed) :
       /\ ~t.ok
       /\ items' = t.result
  /\ reply' = <<"add", FALSE>>
  /\ UNCHANGED <<length, slots, held>>

-----------------------------------------------------------------------------
(* KArrayRemoveObjectAtIndex.  The objects behind move one slot down; what *)
(* is left in a slot that is not in use is not modelled.                   *)

ShiftLess(index) ==
  [n \in Slot |-> IF n >= index /\ n + 2 < length THEN slots[n + 1] ELSE slots[n]]
Shift(index) ==
  [n \in Slot |-> IF n >= index /\ n + 1 < length THEN slots[n + 1] ELSE slots[n]]

RemoveObject(index) ==
  /\ index < length
  /\ held' = [held EXCEPT ![slots[index]] = @ - 1]
  /\ slots' = [Shift(index) EXCEPT ![length - 1] = None]
  /\ length' = length - 1
  /\ reply' = <<"remove", slots[index]>>
  /\ UNCHANGED items

RemoveNothing ==
  /\ reply' = <<"remove", None>>
  /\ UNCHANGED <<length, items, slots, held>>

-----------------------------------------------------------------------------
(* KArrayRemoveAllObjects.  The buffer stays.                              *)

Occurrences(o) == Cardinality({n \in Slot : n < length /\ slots[n] = o})

RemoveAllObjects ==
  /\ held' = [o \in Object |-> held[o] - Occurrences(o)]
  /\ slots' = [n \in Slot |-> None]
  /\ length' = 0
  /\ reply' = <<"clear", length>>
  /\ UNCHANGED items

Next ==
  \/ \E o \in Object : AddObject(o)
  \/ \E index \in Slot : RemoveObject(index)
  \/ AddFails \/ RemoveNothing \/ RemoveAllObjects

Spec == Init /\ [][Next]_vars

-----------------------------------------------------------------------------
(* Properties.                                                             *)

(* Every variable has its type; only the slots in use hold an object.      *)
TypeOK ==
  /\ length \in 0 .. MaxLength
  /\ items \in [size : 0 .. 2^Width, bytes : 0 .. 2^Width]
  /\ slots \in [Slot -> Object \cup {None}]
  /\ \A n \in Slot : slots[n] # None <=> n < length
  /\ held \in [Object -> Nat]

(* The size is the least power of two that is not below the argument,      *)
(* wherever there is one of Width bits.                                    *)
NextPowerOfTwo ==
  \A x \in 1 .. 2^(Width - 1) :
    LET p == KAllocationNextPowerOfTwoSize(x) IN
    /\ p >= x /\ p < 2 * x
    /\ \E n \in 0 .. Width - 1 : p = 2^n

(* Every object is stored inside of the memory that the array has, also    *)
(* after an addition that failed: "If the truncation fails, the existing   *)
(* allocation remained unchanged."  The memory grows by powers of two.     *)
InBounds == length * RefSize <= items.bytes /\ NextPowerOfTwo

Abstract == INSTANCE ObjectList WITH
              contents <- [n \in 1 .. length |-> slots[n - 1]]

(* In its slots the array is a sequence of objects, on each of which it    *)
(* holds one reference per occurrence.                                     *)
ImplementsObjectList == Abstract!Spec

=============================================================================
