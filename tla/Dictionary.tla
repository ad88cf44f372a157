----------------------------- MODULE Dictionary -----------------------------
(***************************************************************************)
(* What a map promises: it remembers the last value set for each name, and *)
(* answers every call.  Setting a value may be refused (no memory), which  *)
(* changes nothing; removing succeeds exactly when there is a value.       *)
(***************************************************************************)
EXTENDS FiniteSets

CONSTANTS Name, Value, None

VARIABLES contents,   \* the value of each name, or None
          size,       \* what a count of the map returns
          reply       \* the last call and what it returned

vars == <<contents, size, reply>>

Present(c) == {n \in Name : c[n] # None}

Init ==
  /\ contents = [n \in Name |-> None]
  /\ size = 0
  /\ reply = [call |-> "new", name |-> None, ok |-> TRUE]

Change(c) == contents' = c /\ size' = Cardinality(Present(c))

Set(n, v) ==
  /\ Change([contents EXCEPT ![n] = v])
  /\ reply' = [call |-> "set", name |-> n, ok |-> TRUE]

SetRefused(n) ==
  /\ reply' = [call |-> "set", name |-> n, ok |-> FALSE]
  /\ UNCHANGED <<contents, size>>

Remove(n) ==
  /\ Change([contents EXCEPT ![n] = None])
  /\ reply' = [call |-> "remove", name |-> n, ok |-> contents[n] # None]

Clear == Change([n \in Name |-> None]) /\ UNCHANGED reply

Next == \/ \E n \in Name : Remove(n) \/ SetRefused(n) \/ \E v \in Value : Set(n, v)
        \/ Clear

Spec == Init /\ [][Next]_vars

=============================================================================
