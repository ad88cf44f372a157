--------------------------- MODULE MCCollections ---------------------------
(* KMap, KList and KArray for TLC, one in each behaviour: each is used by  *)
(* one thread, and a step of one leaves the others alone.                  *)
EXTENDS MCKMap

CONSTANTS Item, Memory, Width, RefSize, MaxLength

VARIABLES collection,   \* the one that is used
          root, count, next, prev, item, allocated, listHeld, listReply,
          length, items, slots, arrayHeld, arrayReply

L == INSTANCE KList WITH
       Object <- Item, held <- listHeld, reply <- listReply
A == INSTANCE KArray WITH
       Object <- Item, held <- arrayHeld, reply <- arrayReply

ASSUME CollectionsAssumption == L!ListAssumption /\ A!ArrayAssumption

listVars == <<root, count, next, prev, item, allocated, listHeld, listReply>>
arrayVars == <<length, items, slots, arrayHeld, arrayReply>>
MCInit ==
  /\ collection \in {"map", "list", "array"}
  /\ Init /\ L!Init /\ A!Init

MCNext ==
  /\ \/ collection = "map" /\ Next /\ UNCHANGED <<listVars, arrayVars>>
     \/ collection = "list" /\ L!Next /\ UNCHANGED <<vars, arrayVars>>
     \/ collection = "array" /\ A!Next /\ UNCHANGED <<vars, listVars>>
  /\ UNCHANGED collection

MCSpec == MCInit /\ [][MCNext]_<<collection, vars, listVars, arrayVars>>

(* The variables of the three have their types.                            *)
MCTypeOK == TypeOK /\ L!TypeOK /\ A!TypeOK

(* The entries are doubly linked and counted, and none is leaked or used   *)
(* after free.                                                             *)
WellLinked == L!WellLinked

(* The list is a sequence of objects.                                      *)
ListImplementsObjectList == L!ImplementsObjectList

(* The objects are inside of the allocation, which grows by powers of two. *)
InBounds == collection = "array" => A!InBounds

(* The array is a sequence of objects.                                     *)
ArrayImplementsObjectList == A!ImplementsObjectList

=============================================================================
