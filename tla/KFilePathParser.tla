--------------------------- MODULE KFilePathParser ---------------------------
(***************************************************************************)
(* The loop of KFilePathNewWithString in kfile_path.c, one iteration a     *)
(* step.  A component is the stretch of the string it is copied from.      *)
(* Positions count from zero, as in the code: the byte at position i is    *)
(* str[i + 1].                                                             *)
(***************************************************************************)
EXTENDS Integers, Sequences

CONSTANTS Char,        \* what a string is made of
          Separator,   \* '/' and '\'
          Input        \* the strings that are parsed

ASSUME ParserAssumption ==
  /\ Separator \subseteq Char
  /\ Input \subseteq Seq(Char)

VARIABLES str,           \* the string
          i,             \* the position the loop is at
          start,         \* where the current component began
          components,    \* path->components
          is_absolute,   \* path->is_absolute
          parsing        \* KFilePathNewWithString has not returned

vars == <<str, i, start, components, is_absolute, parsing>>

Stretch == [from : Nat, to : Nat]   \* from is in it, to is not

SeparatorAt(p) == str[p + 1] \in Separator

Init ==
  /\ str \in Input
  /\ i = 0 /\ start = 0
  /\ components = <<>>
  /\ is_absolute = FALSE
  /\ parsing = TRUE

(* KStringNewWithData(buffer + start, count) at the end of the list, when  *)
(* there is anything between start and the end.                            *)
AddStretch(end) ==
  components' = IF end > start
                  THEN Append(components, [from |-> start, to |-> end])
                  ELSE components

(* The iteration at a byte of a component does nothing.                    *)
Advance ==
  /\ parsing /\ i < Len(str)
  /\ ~SeparatorAt(i)
  /\ i' = i + 1
  /\ UNCHANGED <<str, start, components, is_absolute, parsing>>

SkipOneMore == start' = i + 2
StartAfterSeparator == start' = i + 1

(* The iteration at a separator.  The first byte makes the path absolute.  *)
Split ==
  /\ parsing /\ i < Len(str)
  /\ SeparatorAt(i)
  /\ is_absolute' = (is_absolute \/ i = 0)
  /\ AddStretch(i)
  /\ StartAfterSeparator
  /\ i' = i + 1
  /\ UNCHANGED <<str, parsing>>

(* After the loop: the component that no separator ends.                   *)
ForgetTheRest == UNCHANGED components
AddTheRest == AddStretch(Len(str))

Return ==
  /\ parsing /\ i = Len(str)
  /\ AddTheRest
  /\ parsing' = FALSE
  /\ UNCHANGED <<str, i, start, is_absolute>>

Returned == ~parsing /\ UNCHANGED vars

Next == Advance \/ Split \/ Return \/ Returned

Spec == Init /\ [][Next]_vars

-----------------------------------------------------------------------------
(* Properties.                                                             *)

(* Every variable has its type, and the cursors are inside the string.     *)
TypeOK ==
  /\ str \in Seq(Char)
  /\ i \in 0 .. Len(str)
  /\ start \in 0 .. i
  /\ components \in Seq(Stretch)
  /\ is_absolute \in BOOLEAN
  /\ parsing \in BOOLEAN

(* No component is empty, none reaches beyond the string, and none holds a *)
(* separator: the path never names a component the caller did not write.   *)
NoEmptyComponent ==
  \A n \in DOMAIN components :
    /\ components[n].from < components[n].to
    /\ components[n].to <= Len(str)
    /\ \A p \in components[n].from .. components[n].to - 1 : ~SeparatorAt(p)

(* A component ends only at a separator or at the end of the string, so    *)
(* that two neighbours are never one name cut in two.                      *)
WholeNames ==
  \A n \in DOMAIN components :
    /\ components[n].from > 0 => SeparatorAt(components[n].from - 1)
    /\ components[n].to < Len(str) => SeparatorAt(components[n].to)

(* The components are in the order of the string.                          *)
InOrder ==
  \A m, n \in DOMAIN components : m < n => components[m].to <= components[n].from

(* When the path is returned every byte that is not a separator is in a    *)
(* component.                                                              *)
NothingForgotten ==
  ~parsing => \A p \in 0 .. Len(str) - 1 :
    SeparatorAt(p) \/ \E n \in DOMAIN components :
                        components[n].from <= p /\ p < components[n].to

(* A path is absolute exactly when the string begins with a separator.     *)
AbsoluteFromFirstByte ==
  ~parsing => (is_absolute <=> str # <<>> /\ SeparatorAt(0))

(* The path is the string cut at its separators, however many stand in a   *)
(* row: every name is in it, whole and in order, and nothing else.         *)
PathOfTheString ==
  /\ NoEmptyComponent /\ WholeNames /\ InOrder
  /\ NothingForgotten /\ AbsoluteFromFirstByte

=============================================================================
