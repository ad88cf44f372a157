----------------------------- MODULE ObjectList -----------------------------
(***************************************************************************)
(* What a list of objects promises: a sequence, appended to at its end,    *)
(* from which the object at an index can be taken out.                     *)
(***************************************************************************)
EXTENDS Integers, Sequences, SequencesExt

CONSTANTS Object, None

VARIABLES contents,   \* the objects in the list
          held,       \* how many references the list has on each
          reply       \* the last call and what it returned

vars == <<contents, held, reply>>

Init ==
  /\ contents = <<>>
  /\ held = [o \in Object |-> 0]
  /\ reply = <<>>

Add(o) ==
  /\ contents' = Append(contents, o)
  /\ held' = [held EXCEPT ![o] = @ + 1]
  /\ reply' = <<"add", TRUE>>

AddRefused == reply' = <<"add", FALSE>> /\ UNCHANGED <<contents, held>>

(* The caller gets the reference with the object.                          *)
RemoveIndex(i) ==
  /\ contents' = RemoveAt(contents, i)
  /\ held' = [held EXCEPT ![contents[i]] = @ - 1]
  /\ reply' = <<"remove", contents[i]>>

RemoveOutside == reply' = <<"remove", None>> /\ UNCHANGED <<contents, held>>

RemoveAll ==
  /\ contents' = <<>>
  /\ held' = [o \in Object |-> 0]
  /\ reply' = <<"clear", Len(contents)>>

Next ==
  \/ \E o \in Object : Add(o)
  \/ \E i \in 1 .. Len(contents) : RemoveIndex(i)
  \/ AddRefused \/ RemoveOutside \/ RemoveAll

Spec == Init /\ [][Next]_vars

=============================================================================
