-------------------------------- MODULE KMap --------------------------------
(***************************************************************************)
(* The hash map of kmap.c: an array of buckets, each a list of entries     *)
(* that hold a reference on a key and on a value.  KMapSetValue doubles    *)
(* the array when there are as many entries as buckets.  The map is used   *)
(* by one thread at a time; any allocation may fail.                       *)
(*                                                                         *)
(* A key stands for itself (the references are on objects); Ident says     *)
(* which keys the equality callback takes for the same, and Hash is the    *)
(* hash callback, which agrees with it.                                    *)
(***************************************************************************)
EXTENDS Integers, Sequences, FiniteSets, SequencesExt

CONSTANTS Key, Value, None,
          Name,             \* what keys are compared by
          Ident,            \* the name of each key
          Hash,             \* the hash of each name
          InitialBuckets,   \* kMapInitialBucketsSize
          MaxRefs           \* bound: references on one object

ASSUME MapAssumption ==
  /\ Ident \in [Key -> Name]
  /\ Hash \in [Name -> Nat]
  /\ InitialBuckets \in Nat \ {0}
  /\ None \notin Key \cup Value \cup Name

kMapBucketGrowthFactor == 2

VARIABLES buckets,        \* map->buckets: for each one the list of entries
          object_count,   \* map->object_count
          refs,           \* references the entries hold on each object
          reply           \* the last call and what it returned

vars == <<buckets, object_count, refs, reply>>

Object == Key \cup Value
Entry == [key : Key, value : Value]

Answer(call, k, ok) == reply' = [call |-> call, name |-> Ident[k], ok |-> ok]

-----------------------------------------------------------------------------
(* KMapGetBucket, and the search that every call does in the bucket: the   *)
(* first entry whose key is equal, or none.                                *)

Index(bs, k) == (Hash[Ident[k]] % Len(bs)) + 1

Equal(j, k) == Ident[j] = Ident[k]

Matches(bs, k) ==
  {i \in DOMAIN bs[Index(bs, k)] : Equal(bs[Index(bs, k)][i].key, k)}

First(bs, k) == CHOOSE i \in Matches(bs, k) : \A j \in Matches(bs, k) : i <= j

Found(bs, k) == bs[Index(bs, k)][First(bs, k)]

KMapGetValue(bs, k) ==
  IF Matches(bs, k) = {} THEN None ELSE Found(bs, k).value

-----------------------------------------------------------------------------
(* KMapSetValueNoRehash: the entry of the key keeps its key and gets the   *)
(* value, or a new entry is added at the end of the bucket.                *)

Updated(bs, k, v) == [bs EXCEPT ![Index(bs, k)][First(bs, k)].value = v]

Added(bs, k, v) ==
  [bs EXCEPT ![Index(bs, k)] = Append(@, [key |-> k, value |-> v])]

WithValue(bs, k, v) ==
  IF Matches(bs, k) = {} THEN Added(bs, k, v) ELSE Updated(bs, k, v)

EmptyBuckets(size) == [i \in 1 .. size |-> <<>>]

-----------------------------------------------------------------------------
(* KMapRehashIfNecessary.  The entries are set in a new map, bucket by     *)
(* bucket and in the order of each list, with new entry objects; the old   *)
(* ones go with the old map, so that no reference changes.                 *)

Entries(bs) == FlattenSeq(bs)

SpreadInOldBuckets(bs, size) ==
  [i \in 1 .. size |-> IF i <= Len(bs) THEN bs[i] ELSE <<>>]
Spread(bs, size) ==
  LET entries == Entries(bs)
      new[n \in 0 .. Len(entries)] ==
        IF n = 0 THEN EmptyBuckets(size)
        ELSE WithValue(new[n - 1], entries[n].key, entries[n].value)
  IN new[Len(entries)]

(* KMapRehashIfNecessary fails when there is no memory, and KMapSetValue   *)
(* does not look at its result.  After earlier failures there are entries  *)
(* enough to make the new map grow again while it is filled; two entries   *)
(* that end in one bucket were in one bucket all the way, in this order.   *)
Sizes(size, count) ==
  {size * kMapBucketGrowthFactor ^ d : d \in 1 .. count + 1}

Rehashed(bs, count) ==
  {bs} \cup {Spread(bs, size) : size \in
               {n \in Sizes(Len(bs), count) : n <= count * kMapBucketGrowthFactor}}

-----------------------------------------------------------------------------
Init ==
  /\ buckets = EmptyBuckets(InitialBuckets)
  /\ object_count = 0
  /\ refs = [o \in Object |-> 0]
  /\ reply = [call |-> "new", name |-> None, ok |-> TRUE]

One(condition) == IF condition THEN 1 ELSE 0

(* KMapSetValue of a key that is in the map, and of a new one.             *)
KeepOldValue(v, old) == [refs EXCEPT ![v] = @ + 1]
ForgetToRetain(v, old) == [refs EXCEPT ![old] = @ - 1]
SwapValue(v, old) == [o \in Object |-> refs[o] + One(o = v) - One(o = old)]

Update(k, v) ==
  /\ Matches(buckets, k) # {}
  /\ refs[v] < MaxRefs
  /\ refs' = SwapValue(v, Found(buckets, k).value)
  /\ buckets' \in Rehashed(WithValue(buckets, k, v), object_count)
  /\ Answer("set", k, TRUE)
  /\ UNCHANGED object_count

Insert(k, v) ==
  /\ Matches(buckets, k) = {}
  /\ refs[k] < MaxRefs /\ refs[v] < MaxRefs
  /\ refs' = [o \in Object |-> refs[o] + One(o = k) + One(o = v)]
  /\ object_count' = object_count + 1
  /\ buckets' \in Rehashed(WithValue(buckets, k, v), object_count + 1)
  /\ Answer("set", k, TRUE)

(* The entry or its place in the list could not be allocated.              *)
InsertFails(k) ==
  /\ Matches(buckets, k) = {}
  /\ Answer("set", k, FALSE)
  /\ UNCHANGED <<buckets, object_count, refs>>

(* KMapRemoveValue takes the entry out of the list, which hands its        *)
(* reference on the entry to the caller, and drops it without release.     *)
ForgetCount == object_count' = object_count
CountRemoved == object_count' = object_count - 1

RemoveEntry(k) ==
  /\ Matches(buckets, k) # {}
  /\ buckets' = [buckets EXCEPT ![Index(buckets, k)] =
                   RemoveAt(@, First(buckets, k))]
  /\ CountRemoved
  /\ Answer("remove", k, TRUE)
  /\ UNCHANGED refs

RemoveNothing(k) ==
  /\ Matches(buckets, k) = {}
  /\ Answer("remove", k, FALSE)
  /\ UNCHANGED <<buckets, object_count, refs>>

(* The last KMapRelease: the array releases its buckets, the buckets their *)
(* entries, and the entries their key and value.  Nothing is left.         *)
Occurrences(bs, o) ==
  Cardinality({i \in DOMAIN Entries(bs) : Entries(bs)[i].key = o})
    + Cardinality({i \in DOMAIN Entries(bs) : Entries(bs)[i].value = o})

KMapDeInit ==
  /\ buckets # <<>>
  /\ buckets' = <<>>
  /\ object_count' = 0
  /\ refs' = [o \in Object |-> refs[o] - Occurrences(buckets, o)]
  /\ UNCHANGED reply

Freed == buckets = <<>>

Next ==
  \/ /\ ~Freed
     /\ \E k \in Key : \/ \E v \in Value : Update(k, v) \/ Insert(k, v)
                       \/ InsertFails(k) \/ RemoveEntry(k) \/ RemoveNothing(k)
  \/ KMapDeInit
  \/ Freed /\ UNCHANGED vars

Spec == Init /\ [][Next]_vars

-----------------------------------------------------------------------------
(* Properties.                                                             *)

(* Every variable has its type.                                            *)
TypeOK ==
  /\ buckets \in Seq(Seq(Entry))
  /\ object_count \in Nat
  /\ refs \in [Object -> Nat]
  /\ reply \in [call : {"new", "set", "remove"}, name : Name \cup {None},
                ok : BOOLEAN]

(* The assertion of KMapRehashIfNecessary never fails: setting the entries *)
(* one by one in a new map gives as many as object_count says, because no  *)
(* two of them have equal keys.                                            *)
RehashAssertion ==
  /\ object_count = Len(Entries(buckets))
  /\ \A i, j \in DOMAIN Entries(buckets) :
       Equal(Entries(buckets)[i].key, Entries(buckets)[j].key) => i = j

(* A collection holds a strong reference on the objects in it: no object   *)
(* of an entry can have been destroyed, as every call but a removal takes  *)
(* and gives back exactly the references on what it puts into entries and  *)
(* takes out of them, also when they move, and so does the end of the map. *)
ReferencesFollowEntries ==
  [][ \/ ~Freed /\ \E k \in Key : RemoveEntry(k)
      \/ \A o \in Object : refs'[o] - refs[o] =
           Occurrences(buckets', o) - Occurrences(buckets, o)]_vars

(* Nothing but the entries of the map holds references for the map.        *)
HoldsNothingElse == \A o \in Object : refs[o] <= Occurrences(buckets, o)

Contents(n) ==
  IF Freed \/ ~\E k \in Key : Ident[k] = n THEN None
  ELSE KMapGetValue(buckets, CHOOSE k \in Key : Ident[k] = n)

Map == INSTANCE Dictionary WITH
         contents <- [n \in Name |-> Contents(n)], size <- object_count

(* KMapGetValue returns what was set last, through collisions, updates,    *)
(* removals and rehashes, also when one of them fails.                     *)
ImplementsDictionary == Map!Spec

=============================================================================
