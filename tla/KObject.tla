------------------------------ MODULE KObject ------------------------------
(***************************************************************************)
(* The reference counted objects of kobject.c.  A thread has at most one   *)
(* reference of its own on each object, and each object has one field that *)
(* may refer to another.  Who gives back the last reference runs the       *)
(* deinitializer, on its own stack, and frees the memory.                  *)
(***************************************************************************)
EXTENDS Integers, Sequences

CONSTANTS Object, Thread, None

VARIABLES memory,      \* "none", "live", "deinit" or "freed"
          ref_count,   \* of the control block of each object
          field,       \* the object that each one holds a reference on
          owned,       \* the objects each thread has a reference on
          stack,       \* the calls each thread is inside of, innermost first
          misused      \* a reference was given back that nobody had

heapVars == <<memory, ref_count, field, owned, stack, misused>>

Frame(call, o, n) == [call |-> call, object |-> o, index |-> n]
Top(t, call) == stack[t] # <<>> /\ Head(stack[t]).call = call
Idle(t) == stack[t] = <<>>

HeapInit ==
  /\ memory = [o \in Object |-> "none"]
  /\ ref_count = [o \in Object |-> 0]
  /\ field = [o \in Object |-> None]
  /\ owned = [t \in Thread |-> {}]
  /\ stack = [t \in Thread |-> <<>>]
  /\ misused = FALSE

(* KObjectRelease of o by t, which goes on with the calls of rest.         *)
LastOfTwo(o) == ref_count[o] \in {1, 2}
Last(o) == ref_count[o] = 1

KObjectRelease(t, o, rest) ==
  /\ ref_count' = [ref_count EXCEPT ![o] = @ - 1]
  /\ misused' = (ref_count[o] = 0)
  /\ IF Last(o)
       THEN /\ memory' = [memory EXCEPT ![o] = "deinit"]
            /\ stack' = [stack EXCEPT ![t] = <<Frame("deinit", o, 0)>> \o rest]
       ELSE /\ stack' = [stack EXCEPT ![t] = rest]
            /\ UNCHANGED memory

-----------------------------------------------------------------------------
(* The program.                                                            *)

(* KObjectNew, whose initializer may keep an object that the caller has.   *)
New(t, o, f) ==
  /\ Idle(t) /\ memory[o] = "none" /\ f \in owned[t] \cup {None}
  /\ memory' = [memory EXCEPT ![o] = "live"]
  /\ field' = [field EXCEPT ![o] = f]
  /\ ref_count' = [p \in Object |-> IF p = o THEN 1
                     ELSE IF p = f THEN ref_count[p] + 1 ELSE ref_count[p]]
  /\ owned' = [owned EXCEPT ![t] = @ \cup {o}]
  /\ UNCHANGED <<stack, misused>>

(* KObjectRetain, and the new reference goes to another thread.            *)
Give(t, u, o) ==
  /\ Idle(t) /\ o \in owned[t] \ owned[u]
  /\ ref_count' = [ref_count EXCEPT ![o] = @ + 1]
  /\ owned' = [owned EXCEPT ![u] = @ \cup {o}]
  /\ UNCHANGED <<memory, field, stack, misused>>

Drop(t, o) ==
  /\ Idle(t) /\ o \in owned[t]
  /\ owned' = [owned EXCEPT ![t] = @ \ {o}]
  /\ KObjectRelease(t, o, stack[t])
  /\ UNCHANGED field

-----------------------------------------------------------------------------
(* The deinitializer gives back what the object holds; then it is freed.   *)

Deinitialized(t) == Head(stack[t]).object
ClearField(t) == field' = [field EXCEPT ![Deinitialized(t)] = None]

DeinitReleases(t) ==
  /\ Top(t, "deinit") /\ field[Deinitialized(t)] # None
  /\ ClearField(t)
  /\ KObjectRelease(t, field[Deinitialized(t)], stack[t])
  /\ UNCHANGED owned

Free(t) ==
  /\ Top(t, "deinit") /\ field[Deinitialized(t)] = None
  /\ memory' = [memory EXCEPT ![Deinitialized(t)] = "freed"]
  /\ stack' = [stack EXCEPT ![t] = Tail(@)]
  /\ UNCHANGED <<ref_count, field, owned, misused>>

Program(t) ==
  \/ \E o \in Object, f \in Object \cup {None} : New(t, o, f)
  \/ \E o \in Object : Drop(t, o) \/ \E u \in Thread : Give(t, u, o)

=============================================================================
