------------------------------- MODULE KList -------------------------------
(***************************************************************************)
(* The doubly linked list of klist.c.  An entry is a piece of memory, with *)
(* a pointer each way and an object; entries are allocated and freed, and  *)
(* an allocation may fail.  The list is used by one thread at a time.      *)
(***************************************************************************)
EXTENDS Integers, FiniteSets, Sequences

CONSTANTS Object,
          Memory,   \* where entries can be allocated
          None      \* NULL

ListAssumption == IsFiniteSet(Memory) /\ None \notin Memory \cup Object

VARIABLES root, count,         \* the fields of the list
          next, prev, item,    \* the fields of each entry
          allocated,           \* the entries in use
          held,                \* references the list has on each object
          reply                \* the last call and what it returned

entryVars == <<next, prev, item>>
vars == <<root, count, entryVars, allocated, held, reply>>

Pointer == Memory \cup {None}

(* The entries from the root on; a cycle is cut off where memory ends.     *)
Follow(first, succ) ==
  LET at[n \in 1 .. Cardinality(Memory)] ==
        IF n = 1 THEN first
        ELSE LET e == at[n - 1] IN IF e = None THEN None ELSE succ[e]
      length == Cardinality({n \in DOMAIN at : at[n] # None})
  IN [n \in 1 .. length |-> at[n]]

Chain == Follow(root, next)

Last == Chain[Len(Chain)]

Init ==
  /\ root = None /\ count = 0
  /\ next = [e \in Memory |-> None]
  /\ prev = [e \in Memory |-> None]
  /\ item = [e \in Memory |-> None]
  /\ allocated = {}
  /\ held = [o \in Object |-> 0]
  /\ reply = <<>>

-----------------------------------------------------------------------------
(* KListAddObject.  calloc clears the new entry.                           *)

LinkForwardOnly(e) ==
  /\ next' = [next EXCEPT ![Last] = e, ![e] = None]
  /\ prev' = [prev EXCEPT ![e] = None]
LinkAfterLast(e) ==
  /\ next' = [next EXCEPT ![Last] = e, ![e] = None]
  /\ prev' = [prev EXCEPT ![e] = Last]

AddObject(o, e) ==
  /\ e \notin allocated
  /\ allocated' = allocated \cup {e}
  /\ item' = [item EXCEPT ![e] = o]
  /\ held' = [held EXCEPT ![o] = @ + 1]
  /\ \/ /\ root = None
        /\ root' = e
        /\ next' = [next EXCEPT ![e] = None]
        /\ prev' = [prev EXCEPT ![e] = None]
     \/ /\ root # None
        /\ LinkAfterLast(e)
        /\ UNCHANGED root
  /\ count' = count + 1
  /\ reply' = <<"add", TRUE>>

AddFails ==
  /\ reply' = <<"add", FALSE>>
  /\ UNCHANGED <<root, count, entryVars, allocated, held>>

-----------------------------------------------------------------------------
(* KListRemoveObjectAtIndex.  Indices count from zero.                     *)

EntryAt(index) == Chain[index + 1]

KeepRoot(index, e) == UNCHANGED root
MoveRoot(index, e) == root' = IF index = 0 THEN next[e] ELSE root

(* A freed entry is cleared: nothing may depend on what is left in it.     *)
Unlink(e) ==
  /\ next' = [m \in Memory |-> CASE m = e -> None
                                  [] m = prev[e] -> next[e]
                                  [] OTHER -> next[m]]
  /\ prev' = [m \in Memory |-> CASE m = e -> None
                                  [] m = next[e] -> prev[e]
                                  [] OTHER -> prev[m]]

RemoveObject(index) ==
  LET e == EntryAt(index) IN
  /\ index < Len(Chain)
  /\ Unlink(e)
  /\ MoveRoot(index, e)
  /\ allocated' = allocated \ {e}
  /\ held' = [held EXCEPT ![item[e]] = @ - 1]
  /\ count' = count - 1
  /\ reply' = <<"remove", item[e]>>
  /\ item' = [item EXCEPT ![e] = None]

RemoveNothing ==
  /\ reply' = <<"remove", None>>
  /\ UNCHANGED <<root, count, entryVars, allocated, held>>

(* KListRemoveAllObjects, of which the deinitializer is a call.            *)
InChain(o) == Cardinality({n \in DOMAIN Chain : item[Chain[n]] = o})

RemoveAllObjects ==
  /\ held' = [o \in Object |-> held[o] - InChain(o)]
  /\ LET freed == {Chain[n] : n \in DOMAIN Chain}
         Clear(field) == [m \in Memory |-> IF m \in freed THEN None ELSE field[m]]
     IN /\ allocated' = allocated \ freed
        /\ next' = Clear(next) /\ prev' = Clear(prev) /\ item' = Clear(item)
  /\ root' = None
  /\ count' = 0
  /\ reply' = <<"clear", Len(Chain)>>

Next ==
  \/ \E o \in Object, e \in Memory : AddObject(o, e)
  \/ \E index \in 0 .. Cardinality(Memory) - 1 : RemoveObject(index)
  \/ AddFails \/ RemoveNothing \/ RemoveAllObjects

Spec == Init /\ [][Next]_vars

-----------------------------------------------------------------------------
(* Properties.                                                             *)

(* Every variable has its type.                                            *)
TypeOK ==
  /\ root \in Pointer /\ count \in 0 .. Cardinality(Memory)
  /\ next \in [Memory -> Pointer] /\ prev \in [Memory -> Pointer]
  /\ item \in [Memory -> Object \cup {None}]
  /\ allocated \subseteq Memory
  /\ held \in [Object -> Nat]
  /\ reply \in {<<>>} \cup ({"add"} \X BOOLEAN)
                 \cup ({"remove"} \X (Object \cup {None})) \cup ({"clear"} \X Nat)

(* Both chains of pointers are one list, of memory that is in use, and     *)
(* nothing else is in use: no entry is leaked and none is used after free. *)
(* The assertions K_ASSERT(removed == list->count) of the removals and     *)
(* K_ASSERT(count == removed) of the deinitializer hold.                   *)
WellLinked ==
  /\ count = Len(Chain)
  /\ {Chain[n] : n \in DOMAIN Chain} = allocated
  /\ Len(Chain) = Cardinality(allocated)
  /\ root # None => prev[root] = None
  /\ \A e \in allocated : next[e] # None => prev[next[e]] = e

Abstract == INSTANCE ObjectList WITH
              contents <- [n \in DOMAIN Chain |-> item[Chain[n]]]

(* Through its pointers the list is a sequence of objects, on each of      *)
(* which it holds one reference per occurrence.                            *)
ImplementsObjectList == Abstract!Spec

=============================================================================
