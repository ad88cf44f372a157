--------------------------- MODULE ResourcesProofs ---------------------------
(***************************************************************************)
(* Proofs about KFileHandle, KMapping and KAutorelease, as MCResources     *)
(* instantiates them, for any handles, mappings, objects and threads.      *)
(***************************************************************************)
EXTENDS MCResources, KFilePathProofs, FiniteSetTheorems

-----------------------------------------------------------------------------
(* KFileHandle.  A descriptor that was opened for a handle is the one the  *)
(* handle has stored, until the handle is closed.                          *)

HandlesInUse ==
  \A h \in Handle :
    /\ pc[h] = "idle" => refs[h] > 0
    /\ pc[h] # "new" => handle[h] \in Fd
    /\ pc[h] = "new" => ~closed[h]
    /\ pc[h] = "freed" \/ answer[h] = "true" => closed[h]

DescriptorsAreStored ==
  \A h \in Handle, f \in Fd :
    table[f] = h => pc[h] # "new" /\ handle[h] = f /\ ~closed[h]

NothingIsTaken ==
  errors = {} =>
    /\ \A o \in Other : mine[o] # None => table[mine[o]] = o
    /\ \A h \in Handle :
         pc[h] \in {"idle", "close"} /\ ~closed[h] => table[handle[h]] = h

HandleInv ==
  FH!TypeOK /\ HandlesInUse /\ DescriptorsAreStored /\ NothingIsTaken

LEMMA HandleConstants ==
  /\ Handle \cap Other = {}
  /\ None \notin Handle \cup Other \cup Fd
  /\ MaxRefs \in Nat \ {0}
BY ResourcesAssumption DEF FH!HandleAssumption

USE HandleConstants

LEMMA HandleInvInit == FH!Init => HandleInv
<1> SUFFICES ASSUME FH!Init PROVE HandleInv OBVIOUS
<1> USE DEF FH!Init
<1>1. FH!TypeOK
  <2>1. errors \subseteq CloseErrors OBVIOUS
  <2>2. refs \in [Handle -> 0 .. MaxRefs] BY SMT
  <2> QED BY <2>1, <2>2 DEF FH!TypeOK
<1>2. HandlesInUse /\ DescriptorsAreStored /\ NothingIsTaken
  BY DEF HandlesInUse, DescriptorsAreStored, NothingIsTaken
<1> QED BY <1>1, <1>2 DEF HandleInv

(* Every step of a handle, and of the rest of the process, that is not a   *)
(* call of close.                                                          *)
LEMMA NewStep ==
  ASSUME HandleInv, NEW h \in Handle, NEW f \in Fd, FH!New(h, f),
         UNCHANGED errors
  PROVE  HandleInv'
<1> USE DEF HandleInv, FH!New, FH!Goto, FH!TypeOK
<1>1. FH!TypeOK' OBVIOUS
<1>2. HandlesInUse' BY DEF HandlesInUse
<1>3. DescriptorsAreStored' BY DEF DescriptorsAreStored, HandlesInUse
<1>4. NothingIsTaken' BY DEF NothingIsTaken, HandlesInUse
<1> QED BY <1>1, <1>2, <1>3, <1>4

LEMMA ReferenceStep ==
  ASSUME HandleInv, NEW h \in Handle,
         FH!Retain(h) \/ FH!Release(h) \/ FH!Close(h), UNCHANGED errors
  PROVE  HandleInv'
<1> USE DEF HandleInv, FH!Retain, FH!Release, FH!Close, FH!LastReference,
      FH!Goto, FH!TypeOK
<1>1. FH!TypeOK' BY DEF HandlesInUse
<1>2. HandlesInUse' BY DEF HandlesInUse
<1>3. DescriptorsAreStored' BY DEF DescriptorsAreStored
<1>4. NothingIsTaken' BY DEF NothingIsTaken
<1> QED BY <1>1, <1>2, <1>3, <1>4

(* A call that does not reach close(2), or that it answers with EBADF.     *)
LEMMA NothingClosedStep ==
  ASSUME HandleInv, NEW h \in Handle, pc[h] = "close", NEW ok \in BOOLEAN,
         FH!CloseReturns(h, ok), ok => closed[h],
         UNCHANGED <<errors, table, mine, handle, closed, refs>>
  PROVE  HandleInv'
<1> USE DEF HandleInv, FH!CloseReturns, FH!Goto, FH!TypeOK
<1>1. FH!TypeOK' OBVIOUS
<1>2. HandlesInUse' BY DEF HandlesInUse
<1>3. DescriptorsAreStored' BY DEF DescriptorsAreStored
<1>4. NothingIsTaken' BY DEF NothingIsTaken
<1> QED BY <1>1, <1>2, <1>3, <1>4

LEMMA CloseSucceedsStep ==
  ASSUME HandleInv, NEW h \in Handle, FH!CloseSucceeds(h), UNCHANGED errors
  PROVE  HandleInv'
<1> USE DEF HandleInv, FH!CloseSucceeds, FH!Call, FH!AlreadyClosed,
      FH!CloseDescriptor, FH!SetClosed, FH!CloseReturns, FH!Goto, FH!TypeOK
<1>0. handle[h] \in Fd BY DEF HandlesInUse
<1>1. FH!TypeOK' BY <1>0
<1>2. HandlesInUse' BY DEF HandlesInUse
<1>3. DescriptorsAreStored' BY <1>0 DEF DescriptorsAreStored
<1>4. NothingIsTaken' BY <1>0 DEF NothingIsTaken
<1> QED BY <1>1, <1>2, <1>3, <1>4

(* close(2) has closed the descriptor and fails.                           *)
LEMMA CloseErrorStep ==
  ASSUME HandleInv, NEW h \in Handle,
         FH!CloseInterrupted(h) \/ FH!CloseFails(h), UNCHANGED errors
  PROVE  HandleInv'
<1> USE DEF HandleInv, FH!CloseInterrupted, FH!CloseFails, FH!Call,
      FH!AlreadyClosed, FH!CloseDescriptor, FH!CloseReturns, FH!Goto, FH!TypeOK
<1>0. handle[h] \in Fd /\ errors # {} BY DEF HandlesInUse
<1>1. FH!TypeOK' BY <1>0
<1>2. HandlesInUse' BY DEF HandlesInUse
<1>3. DescriptorsAreStored' BY <1>0 DEF DescriptorsAreStored
<1>4. NothingIsTaken' BY <1>0 DEF NothingIsTaken
<1> QED BY <1>1, <1>2, <1>3, <1>4

LEMMA OthersStep ==
  ASSUME HandleInv, NEW o \in Other, UNCHANGED errors,
         FH!OtherCloses(o) \/ \E f \in Fd : FH!OtherOpens(o, f)
  PROVE  HandleInv'
<1> USE DEF HandleInv, FH!OtherCloses, FH!OtherOpens, FH!TypeOK
<1>1. FH!TypeOK' OBVIOUS
<1>2. HandlesInUse' BY DEF HandlesInUse
<1>3. DescriptorsAreStored' BY DEF DescriptorsAreStored
<1>4. NothingIsTaken' BY DEF NothingIsTaken, HandlesInUse
<1> QED BY <1>1, <1>2, <1>3, <1>4

LEMMA HandleInvStep == HandleInv /\ FH!Next => HandleInv'
<1> SUFFICES ASSUME HandleInv, FH!Next PROVE HandleInv' OBVIOUS
<1>1. ASSUME NEW h \in Handle, FH!HandleStep(h), UNCHANGED errors
      PROVE  HandleInv'
  <2>1. CASE FH!CloseAgain(h)
    BY <1>1, <2>1, NothingClosedStep DEF FH!CloseAgain, FH!AlreadyClosed
  <2>2. CASE FH!CloseBadDescriptor(h)
    BY <1>1, <2>2, NothingClosedStep DEF FH!CloseBadDescriptor, FH!Call
  <2> QED BY <1>1, <2>1, <2>2, NewStep, ReferenceStep, CloseSucceedsStep,
        CloseErrorStep DEF FH!HandleStep
<1>2. ASSUME UNCHANGED FH!vars PROVE HandleInv'
  BY <1>2 DEF FH!vars, HandleInv, FH!TypeOK, HandlesInUse,
    DescriptorsAreStored, NothingIsTaken
<1> QED BY <1>1, <1>2, OthersStep DEF FH!Next, FH!vars

LEMMA HandleInvIsSafe == HandleInv => DescriptorsMatchHandles
BY DEF HandleInv, HandlesInUse, DescriptorsAreStored, NothingIsTaken,
  DescriptorsMatchHandles, FH!DescriptorsMatchHandles,
  FH!DescriptorsKeepTheirOwner, FH!DescriptorsAreReturned, FH!Usable
-----------------------------------------------------------------------------
(* KMapping.  The references on the object that unmaps the file are those  *)
(* of the program, one of the mapping and, in KFileHandleNewMapping, its   *)
(* own.                                                                    *)

OfNew(m) == IF mappingPC[m] \in {"wrap", "hand_over"} THEN 1 ELSE 0
OfMapping(m) == IF mappingRefs[m] > 0 \/ mappingPC[m] = "deinit" THEN 1 ELSE 0

FileIsCounted ==
  \A m \in Mapping :
    /\ fileRefs[m] = kept[m] + OfNew(m) + OfMapping(m)
    /\ fileRefs[m] > 0 <=> file[m] = "valid"

MappingPlaces ==
  \A m \in Mapping :
    /\ mappingPC[m] \in {"new", "section"} => file[m] = "none" /\ fileRefs[m] = 0
    /\ mappingPC[m] \notin {"hand_over", "live"} => mappingRefs[m] = 0
    /\ mappingPC[m] = "live" => mappingRefs[m] > 0
    /\ section[m] =>
         /\ windows
         /\ mappingPC[m] = "section" \/ file[m] \in {"valid", "unmap", "close"}

RegionsAreMapped ==
  /\ \A m \in Mapping :
       file[m] \in {"valid", "unmap"} =>
         address[m] \in Region /\ region[address[m]] = m
  /\ \A m \in Mapping, r \in Region :
       region[r] = m => file[m] \in {"valid", "unmap"} /\ address[m] = r
  /\ \A o \in Other : theirs[o] # None => region[theirs[o]] = o

MappingInv == MP!TypeOK /\ FileIsCounted /\ MappingPlaces /\ RegionsAreMapped

LEMMA MappingConstants ==
  /\ Mapping \cap Other = {}
  /\ None \notin Mapping \cup Other \cup Region
  /\ MaxRefs \in Nat \ {0}
BY ResourcesAssumption DEF MP!MappingAssumption

USE MappingConstants DEF MP!table

LEMMA MappingInvInit == MP!Init => MappingInv
<1> SUFFICES ASSUME MP!Init PROVE MappingInv OBVIOUS
<1> USE DEF MP!Init
<1>1. MP!TypeOK BY SMT DEF MP!TypeOK
<1>2. FileIsCounted BY DEF FileIsCounted, OfNew, OfMapping
<1>3. MappingPlaces /\ RegionsAreMapped BY DEF MappingPlaces, RegionsAreMapped
<1> QED BY <1>1, <1>2, <1>3 DEF MappingInv

LEMMA NewMappingStep ==
  ASSUME MappingInv, NEW m \in Mapping, UNCHANGED windows,
         MP!CreateFileMapping(m) \/ MP!NewFails(m)
  PROVE  MappingInv'
<1> USE DEF MappingInv, MP!CreateFileMapping, MP!NewFails, MP!CloseSection,
      MP!Goto, MP!TypeOK
<1>1. MP!TypeOK' OBVIOUS
<1>2. FileIsCounted' BY DEF FileIsCounted, MappingPlaces, OfNew, OfMapping
<1>3. MappingPlaces' BY DEF MappingPlaces
<1>4. RegionsAreMapped' BY DEF RegionsAreMapped
<1> QED BY <1>1, <1>2, <1>3, <1>4

LEMMA MapFileStep ==
  ASSUME MappingInv, NEW m \in Mapping, NEW r \in Region, UNCHANGED windows,
         MP!MapFile(m, r)
  PROVE  MappingInv'
<1> USE DEF MappingInv, MP!MapFile, MP!Goto, MP!TypeOK
<1>0. mappingPC[m] \in {"new", "section"} /\ file[m] = "none" /\ fileRefs[m] = 0
  BY DEF MappingPlaces
<1>1. MP!TypeOK' OBVIOUS
<1>2. FileIsCounted' BY <1>0 DEF FileIsCounted, MappingPlaces, OfNew, OfMapping
<1>3. MappingPlaces' BY <1>0 DEF MappingPlaces
<1>4. RegionsAreMapped' BY <1>0 DEF RegionsAreMapped
<1> QED BY <1>1, <1>2, <1>3, <1>4

LEMMA WrapStep ==
  ASSUME MappingInv, NEW m \in Mapping, UNCHANGED windows, MP!KMappingNew(m)
  PROVE  MappingInv'
<1> USE DEF MappingInv, MP!KMappingNew, MP!RetainUserData, MP!Goto, MP!TypeOK
<1>1. MP!TypeOK' OBVIOUS
<1>2. FileIsCounted' BY DEF FileIsCounted, MappingPlaces, OfNew, OfMapping
<1>3. MappingPlaces' BY DEF MappingPlaces
<1>4. RegionsAreMapped' BY DEF RegionsAreMapped
<1> QED BY <1>1, <1>2, <1>3, <1>4

(* The program retains or releases the mapping, or keeps its user_data.    *)
LEMMA ProgramStep ==
  ASSUME MappingInv, NEW m \in Mapping, UNCHANGED windows,
         MP!Retain(m) \/ MP!Release(m) \/ MP!KeepUserData(m)
  PROVE  MappingInv'
<1> USE DEF MappingInv, MP!Retain, MP!Release, MP!KeepUserData, MP!Goto, MP!TypeOK
<1>1. MP!TypeOK' OBVIOUS
<1>2. FileIsCounted' BY DEF FileIsCounted, MappingPlaces, OfNew, OfMapping
<1>3. MappingPlaces' BY DEF MappingPlaces, FileIsCounted, OfNew, OfMapping
<1>4. RegionsAreMapped' BY DEF RegionsAreMapped
<1> QED BY <1>1, <1>2, <1>3, <1>4

(* Whoever gives back a reference on the file has one.                     *)
LEMMA ReleaseFileStep ==
  ASSUME MappingInv, NEW m \in Mapping, UNCHANGED windows,
         MP!HandOver(m) \/ MP!KMappingDeInit(m) \/ MP!DropUserData(m)
  PROVE  MappingInv'
<1> USE DEF MappingInv, MP!HandOver, MP!KMappingDeInit, MP!DropUserData,
      MP!ReleaseFile, MP!Goto, MP!TypeOK
<1>0. fileRefs[m] > 0 /\ file[m] = "valid"
  BY DEF FileIsCounted, OfNew, OfMapping
<1>1. MP!TypeOK' BY <1>0
<1>2. FileIsCounted' BY <1>0 DEF FileIsCounted, MappingPlaces, OfNew, OfMapping
<1>3. MappingPlaces' BY <1>0 DEF MappingPlaces
<1>4. RegionsAreMapped' BY <1>0 DEF RegionsAreMapped
<1> QED BY <1>1, <1>2, <1>3, <1>4

LEMMA UnmapStep ==
  ASSUME MappingInv, NEW m \in Mapping, UNCHANGED windows,
         MP!Unmap(m) \/ MP!CloseHandle(m)
  PROVE  MappingInv'
<1> USE DEF MappingInv, MP!Unmap, MP!CloseHandle, MP!CloseSection, MP!TypeOK
<1>0. fileRefs[m] = 0
  <2>1. fileRefs[m] \in Nat /\ file[m] # "valid" OBVIOUS
  <2> QED BY <2>1 DEF FileIsCounted
<1>1. MP!TypeOK'
  <2>1. MP!Unmap(m) => MP!TypeOK' BY DEF RegionsAreMapped
  <2>2. MP!CloseHandle(m) => MP!TypeOK' OBVIOUS
  <2> QED BY <2>1, <2>2
<1>2. FileIsCounted' BY <1>0 DEF FileIsCounted, OfNew, OfMapping
<1>3. MappingPlaces' BY <1>0 DEF MappingPlaces
<1>4. RegionsAreMapped' BY DEF RegionsAreMapped
<1> QED BY <1>1, <1>2, <1>3, <1>4

LEMMA OtherMapsStep ==
  ASSUME MappingInv, NEW o \in Other, UNCHANGED windows,
         MP!OtherUnmaps(o) \/ \E r \in Region : MP!OtherMaps(o, r)
  PROVE  MappingInv'
<1> USE DEF MappingInv, MP!OtherUnmaps, MP!OtherMaps, MP!TypeOK
<1>1. MP!TypeOK' OBVIOUS
<1>2. FileIsCounted' BY DEF FileIsCounted, OfNew, OfMapping
<1>3. MappingPlaces' BY DEF MappingPlaces
<1>4. RegionsAreMapped' BY DEF RegionsAreMapped
<1> QED BY <1>1, <1>2, <1>3, <1>4

LEMMA MappingInvStep == MappingInv /\ MP!Next => MappingInv'
BY NewMappingStep, MapFileStep, WrapStep, ProgramStep, ReleaseFileStep,
  UnmapStep, OtherMapsStep DEF MP!Next, MP!Step

LEMMA MappingInvIsSafe == MappingInv => MappedExactlyWhileReferenced
<1> SUFFICES ASSUME MappingInv PROVE MappedExactlyWhileReferenced OBVIOUS
<1> USE DEF MappingInv, MP!TypeOK
<1>1. ASSUME NEW m \in Mapping, MP!Referenced(m)
      PROVE  region[address[m]] = m
  <2>1. fileRefs[m] > 0 BY <1>1 DEF MP!Referenced, FileIsCounted, OfNew, OfMapping
  <2> QED BY <2>1 DEF FileIsCounted, RegionsAreMapped
<1>2. ASSUME NEW m \in Mapping, ~MP!Referenced(m), ~MP!InLibrary(m)
      PROVE  ~section[m] /\ \A r \in Region : region[r] # m
  <2>1. /\ mappingPC[m] \in {"new", "gone"} /\ file[m] \notin {"unmap", "close"}
        /\ kept[m] = 0 /\ mappingRefs[m] = 0
    BY <1>2 DEF MP!Referenced, MP!InLibrary, MappingPlaces
  <2>2. fileRefs[m] = 0 BY <2>1 DEF FileIsCounted, OfNew, OfMapping
  <2>3. file[m] # "valid" BY <2>2 DEF FileIsCounted
  <2> QED BY <2>1, <2>3 DEF MappingPlaces, RegionsAreMapped
<1> QED BY <1>1, <1>2 DEF RegionsAreMapped, MappedExactlyWhileReferenced,
      MP!MappedExactlyWhileReferenced
-----------------------------------------------------------------------------
(* KAutorelease.  First the calls that a thread is inside of: deinit, and  *)
(* at most one pop, whose index is the first position not yet given back.  *)

Calls ==
  [call : {"deinit"}, object : Object, index : {0}]
    \cup [call : {"pop"}, object : {None}, index : Nat \ {0}]

NoPop(s) == \A m \in DOMAIN s : s[m].call # "pop"

AtMostOnePop(s) ==
  \A m, n \in DOMAIN s : s[m].call = "pop" /\ s[n].call = "pop" => m = n

PopsUpTo(s, n) == \A m \in DOMAIN s : s[m].call = "pop" => s[m].index <= n

(* Only objects of a certain set are being deinitialized.                  *)
Deinits(s, objects) ==
  \A m \in DOMAIN s : s[m].call = "deinit" => s[m].object \in objects

LEMMA ReleaseConstants ==
  /\ IsFiniteSet(Object) /\ IsFiniteSet(Thread)
  /\ None \notin Object
  /\ MaxPool \in Nat
BY ResourcesAssumption DEF AR!ReleaseAssumption, AR!IsFiniteSet, IsFiniteSet

(* A call is entered.                                                      *)
LEMMA CallIsEntered ==
  ASSUME NEW s \in Seq(Calls), NEW c \in Calls
  PROVE  /\ <<c>> \o s \in Seq(Calls)
         /\ NoPop(<<c>> \o s) <=> c.call # "pop" /\ NoPop(s)
         /\ AtMostOnePop(s) /\ (c.call = "pop" => NoPop(s)) => AtMostOnePop(<<c>> \o s)
         /\ \A n : PopsUpTo(<<c>> \o s, n)
                     <=> (c.call = "pop" => c.index <= n) /\ PopsUpTo(s, n)
         /\ \A objects : Deinits(<<c>> \o s, objects)
                     <=> (c.call = "deinit" => c.object \in objects) /\ Deinits(s, objects)
<1> DEFINE r == <<c>> \o s
<1>1. r \in Seq(Calls) /\ Len(r) = Len(s) + 1 OBVIOUS
<1>2. r[1] = c /\ \A m \in DOMAIN s : r[m + 1] = s[m] OBVIOUS
<1>3. DOMAIN s = 1 .. Len(s) /\ DOMAIN r = 1 .. Len(s) + 1 /\ Len(s) \in Nat
  BY <1>1
<1>4. \A m \in DOMAIN r : m = 1 \/ (m - 1 \in DOMAIN s /\ r[m] = s[m - 1])
  BY <1>2, <1>3
<1>5. 1 \in DOMAIN r /\ \A m \in DOMAIN s : m + 1 \in DOMAIN r
  BY <1>3
<1> HIDE DEF r
<1>6. NoPop(r) <=> c.call # "pop" /\ NoPop(s) BY <1>2, <1>4, <1>5 DEF NoPop
<1>7. AtMostOnePop(s) /\ (c.call = "pop" => NoPop(s)) => AtMostOnePop(r)
  BY <1>2, <1>3, <1>4 DEF NoPop, AtMostOnePop
<1>8. \A n : PopsUpTo(r, n) <=> (c.call = "pop" => c.index <= n) /\ PopsUpTo(s, n)
  BY <1>2, <1>4, <1>5 DEF PopsUpTo
<1>9. \A objects : Deinits(r, objects)
                <=> (c.call = "deinit" => c.object \in objects) /\ Deinits(s, objects)
  BY <1>2, <1>4, <1>5 DEF Deinits
<1> QED BY <1>1, <1>6, <1>7, <1>8, <1>9 DEF r

(* The innermost call returns.                                             *)
LEMMA CallReturns ==
  ASSUME NEW s \in Seq(Calls), s # <<>>
  PROVE  /\ Head(s) \in Calls /\ Tail(s) \in Seq(Calls)
         /\ Head(s).call = "pop" => ~NoPop(s)
         /\ Head(s).call # "pop" => (NoPop(s) <=> NoPop(Tail(s)))
         /\ AtMostOnePop(s) =>
              AtMostOnePop(Tail(s)) /\ (Head(s).call = "pop" => NoPop(Tail(s)))
         /\ \A n : PopsUpTo(s, n) <=>
              (Head(s).call = "pop" => Head(s).index <= n) /\ PopsUpTo(Tail(s), n)
         /\ \A objects : Deinits(s, objects) <=>
              (Head(s).call = "deinit" => Head(s).object \in objects)
                /\ Deinits(Tail(s), objects)
<1> DEFINE r == Tail(s)
<1>1. /\ Head(s) \in Calls /\ r \in Seq(Calls) /\ Len(s) = Len(r) + 1
      /\ Head(s) = s[1] /\ \A m \in 1 .. Len(r) : r[m] = s[m + 1]
  OBVIOUS
<1>2. DOMAIN r = 1 .. Len(r) /\ DOMAIN s = 1 .. Len(r) + 1 /\ Len(r) \in Nat
  BY <1>1
<1> HIDE DEF r
<1>3. \A m \in DOMAIN s : m = 1 \/ (m - 1 \in DOMAIN r /\ s[m] = r[m - 1])
  BY <1>1, <1>2
<1>4. 1 \in DOMAIN s /\ \A m \in DOMAIN r : m + 1 \in DOMAIN s /\ s[m + 1] = r[m]
  BY <1>1, <1>2
<1>5. AtMostOnePop(s) =>
        AtMostOnePop(r) /\ (Head(s).call = "pop" => NoPop(r))
  <2> SUFFICES ASSUME AtMostOnePop(s)
               PROVE  AtMostOnePop(r) /\ (Head(s).call = "pop" => NoPop(r))
    OBVIOUS
  <2>1. \A m, n \in DOMAIN r : r[m].call = "pop" /\ r[n].call = "pop" => m + 1 = n + 1
    BY <1>4 DEF AtMostOnePop
  <2>2. AtMostOnePop(r) BY <2>1, <1>2 DEF AtMostOnePop
  <2>3. \A m \in DOMAIN r : Head(s).call = "pop" /\ r[m].call = "pop" => m + 1 = 1
    BY <1>1, <1>4 DEF AtMostOnePop
  <2> QED BY <2>2, <2>3, <1>2 DEF NoPop
<1>6. Head(s).call = "pop" => ~NoPop(s) BY <1>1, <1>4 DEF NoPop
<1>7. Head(s).call # "pop" => (NoPop(s) <=> NoPop(r))
  BY <1>1, <1>3, <1>4 DEF NoPop
<1>8. \A n : PopsUpTo(s, n) <=>
               (Head(s).call = "pop" => Head(s).index <= n) /\ PopsUpTo(r, n)
  BY <1>1, <1>3, <1>4 DEF PopsUpTo
<1>9. \A objects : Deinits(s, objects) <=>
               (Head(s).call = "deinit" => Head(s).object \in objects)
                 /\ Deinits(r, objects)
  BY <1>1, <1>3, <1>4 DEF Deinits
<1> QED BY <1>1, <1>5, <1>6, <1>7, <1>8, <1>9 DEF r
(* Then the references: of threads, of objects, and of the positions of    *)
(* the pools that no pop has given back.                                   *)
OwnersOf(o) == {t \in Thread : o \in owned[t]}
FieldsOf(o) == {q \in Object : field[q] = o}
Held(t, o) == {n \in DOMAIN pool[t] : pool[t][n] = o /\ PopsUpTo(stack[t], n)}
PlacesOf(o) == {at \in Thread \X (1 .. MaxPool) : at[2] \in Held(at[1], o)}

ReferencesAreCounted ==
  \A o \in Object :
    ref_count[o] = Cardinality(OwnersOf(o)) + Cardinality(FieldsOf(o))
                     + Cardinality(PlacesOf(o))

ObjectsLive ==
  \A o \in Object :
    /\ memory[o] = "live" <=> ref_count[o] > 0
    /\ memory[o] = "none" => field[o] = None

Gone == {o \in Object : memory[o] \in {"deinit", "freed"}}

CallsAreNested ==
  \A t \in Thread :
    /\ AtMostOnePop(stack[t])
    /\ PopsUpTo(stack[t], Len(pool[t]) + 1)
    /\ Deinits(stack[t], Gone)

BorrowedIsHeld ==
  \A t \in Thread :
    /\ Len(pool[t]) <= MaxPool
    /\ NoPop(stack[t]) \/ borrowed[t] = {}
    /\ \A o \in borrowed[t] : Held(t, o) # {}

HeapInv ==
  /\ ~misused /\ \A t \in Thread : ~moved[t]
  /\ ReferencesAreCounted /\ ObjectsLive /\ CallsAreNested /\ BorrowedIsHeld

ReleaseTypeOK == AR!TypeOK /\ stack \in [Thread -> Seq(Calls)]

ReleaseInv == ReleaseTypeOK /\ (mishap = "none" => HeapInv)
USE ReleaseConstants

One(p, o) == IF p = o THEN 1 ELSE 0

LEMMA OneMore ==
  ASSUME NEW S, NEW x, IsFiniteSet(S), x \notin S
  PROVE  IsFiniteSet(S \cup {x}) /\ Cardinality(S \cup {x}) = Cardinality(S) + 1
BY FS_AddElement

LEMMA OneLess ==
  ASSUME NEW S, NEW x, IsFiniteSet(S), x \in S
  PROVE  Cardinality(S \ {x}) = Cardinality(S) - 1
BY FS_RemoveElement

LEMMA PartsAreFinite ==
  /\ \A o \in Object :
       /\ IsFiniteSet(OwnersOf(o)) /\ Cardinality(OwnersOf(o)) \in Nat
       /\ IsFiniteSet(FieldsOf(o)) /\ Cardinality(FieldsOf(o)) \in Nat
       /\ IsFiniteSet(PlacesOf(o)) /\ Cardinality(PlacesOf(o)) \in Nat
<1> SUFFICES ASSUME NEW o \in Object
             PROVE  /\ IsFiniteSet(OwnersOf(o)) /\ Cardinality(OwnersOf(o)) \in Nat
                    /\ IsFiniteSet(FieldsOf(o)) /\ Cardinality(FieldsOf(o)) \in Nat
                    /\ IsFiniteSet(PlacesOf(o)) /\ Cardinality(PlacesOf(o)) \in Nat
  OBVIOUS
<1>1. IsFiniteSet(1 .. MaxPool) BY FS_Interval
<1>2. IsFiniteSet(Thread \X (1 .. MaxPool)) BY <1>1, FS_Product
<1>3. IsFiniteSet(OwnersOf(o)) BY FS_Subset DEF OwnersOf
<1>4. IsFiniteSet(FieldsOf(o)) BY FS_Subset DEF FieldsOf
<1>5. IsFiniteSet(PlacesOf(o)) BY <1>2, FS_Subset DEF PlacesOf
<1> QED BY <1>3, <1>4, <1>5, FS_CardinalityType

(* A thread gets a reference, or gives its reference up.                   *)
LEMMA OwnerAdded ==
  ASSUME ReleaseTypeOK, NEW t \in Thread, NEW o \in Object, o \notin owned[t],
         owned' = [owned EXCEPT ![t] = @ \cup {o}]
  PROVE  \A p \in Object :
           Cardinality(OwnersOf(p)') = Cardinality(OwnersOf(p)) + One(p, o)
<1> SUFFICES ASSUME NEW p \in Object
             PROVE  Cardinality(OwnersOf(p)') = Cardinality(OwnersOf(p)) + One(p, o)
  OBVIOUS
<1> USE DEF ReleaseTypeOK, AR!TypeOK
<1>1. CASE p # o
  <2>1. OwnersOf(p)' = OwnersOf(p) BY <1>1 DEF OwnersOf
  <2> QED BY <1>1, <2>1, PartsAreFinite DEF One
<1>2. CASE p = o
  <2>1. OwnersOf(p)' = OwnersOf(p) \cup {t} /\ t \notin OwnersOf(p) BY <1>2 DEF OwnersOf
  <2> QED BY <1>2, <2>1, PartsAreFinite, OneMore DEF One
<1> QED BY <1>1, <1>2

LEMMA OwnerRemoved ==
  ASSUME ReleaseTypeOK, NEW t \in Thread, NEW o \in Object, o \in owned[t],
         owned' = [owned EXCEPT ![t] = @ \ {o}]
  PROVE  \A p \in Object :
           Cardinality(OwnersOf(p)') = Cardinality(OwnersOf(p)) - One(p, o)
<1> SUFFICES ASSUME NEW p \in Object
             PROVE  Cardinality(OwnersOf(p)') = Cardinality(OwnersOf(p)) - One(p, o)
  OBVIOUS
<1> USE DEF ReleaseTypeOK, AR!TypeOK
<1>1. CASE p # o
  <2>1. OwnersOf(p)' = OwnersOf(p) BY <1>1 DEF OwnersOf
  <2> QED BY <1>1, <2>1, PartsAreFinite DEF One
<1>2. CASE p = o
  <2>1. OwnersOf(p)' = OwnersOf(p) \ {t} /\ t \in OwnersOf(p) BY <1>2 DEF OwnersOf
  <2> QED BY <1>2, <2>1, PartsAreFinite, OneLess DEF One
<1> QED BY <1>1, <1>2

(* A field is set, or cleared.                                             *)
LEMMA FieldSet ==
  ASSUME ReleaseTypeOK, NEW q \in Object, NEW f \in Object \cup {None},
         field[q] = None, field' = [field EXCEPT ![q] = f]
  PROVE  \A p \in Object :
           Cardinality(FieldsOf(p)') = Cardinality(FieldsOf(p)) + One(p, f)
<1> SUFFICES ASSUME NEW p \in Object
             PROVE  Cardinality(FieldsOf(p)') = Cardinality(FieldsOf(p)) + One(p, f)
  OBVIOUS
<1> USE DEF ReleaseTypeOK, AR!TypeOK
<1>1. CASE p # f
  <2>1. FieldsOf(p)' = FieldsOf(p) BY <1>1 DEF FieldsOf
  <2> QED BY <1>1, <2>1, PartsAreFinite DEF One
<1>2. CASE p = f
  <2>1. FieldsOf(p)' = FieldsOf(p) \cup {q} /\ q \notin FieldsOf(p) BY <1>2 DEF FieldsOf
  <2> QED BY <1>2, <2>1, PartsAreFinite, OneMore DEF One
<1> QED BY <1>1, <1>2

LEMMA FieldCleared ==
  ASSUME ReleaseTypeOK, NEW q \in Object, field[q] # None,
         field' = [field EXCEPT ![q] = None]
  PROVE  \A p \in Object :
           Cardinality(FieldsOf(p)') = Cardinality(FieldsOf(p)) - One(p, field[q])
<1> SUFFICES ASSUME NEW p \in Object
             PROVE  Cardinality(FieldsOf(p)')
                      = Cardinality(FieldsOf(p)) - One(p, field[q])
  OBVIOUS
<1> USE DEF ReleaseTypeOK, AR!TypeOK
<1>1. CASE p # field[q]
  <2>1. FieldsOf(p)' = FieldsOf(p) BY <1>1 DEF FieldsOf
  <2> QED BY <1>1, <2>1, PartsAreFinite DEF One
<1>2. CASE p = field[q]
  <2>1. FieldsOf(p)' = FieldsOf(p) \ {q} /\ q \in FieldsOf(p) BY <1>2 DEF FieldsOf
  <2> QED BY <1>2, <2>1, PartsAreFinite, OneLess DEF One
<1> QED BY <1>1, <1>2

SamePops(u) == \A n : PopsUpTo(stack'[u], n) <=> PopsUpTo(stack[u], n)

LEMMA PlacesKept ==
  ASSUME ReleaseTypeOK, UNCHANGED pool, \A u \in Thread : SamePops(u)
  PROVE  /\ \A u \in Thread, p \in Object : Held(u, p)' = Held(u, p)
         /\ \A p \in Object : Cardinality(PlacesOf(p)') = Cardinality(PlacesOf(p))
<1>1. \A u \in Thread, p \in Object : Held(u, p)' = Held(u, p)
  BY DEF Held, SamePops
<1>2. ASSUME NEW p \in Object PROVE PlacesOf(p)' = PlacesOf(p)
  BY <1>1 DEF PlacesOf
<1> QED BY <1>1, <1>2

(* An object is added to a pool, also to one that is being popped.         *)
LEMMA PlaceAdded ==
  ASSUME ReleaseTypeOK, CallsAreNested, NEW t \in Thread, NEW o \in Object,
         Len(pool[t]) < MaxPool, pool' = [pool EXCEPT ![t] = Append(@, o)],
         \A u \in Thread : SamePops(u)
  PROVE  /\ pool' \in [Thread -> Seq(Object)]
         /\ Len(pool'[t]) = Len(pool[t]) + 1
         /\ \A u \in Thread, p \in Object : Held(u, p) \subseteq Held(u, p)'
         /\ Held(t, o)' # {}
         /\ \A p \in Object :
              Cardinality(PlacesOf(p)') = Cardinality(PlacesOf(p)) + One(p, o)
<1> DEFINE last == Len(pool[t]) + 1
<1> USE DEF ReleaseTypeOK, AR!TypeOK
<1>1. /\ pool[t] \in Seq(Object) /\ Len(pool[t]) \in Nat
      /\ DOMAIN pool[t] = 1 .. Len(pool[t])
      /\ last \in 1 .. MaxPool /\ last \notin DOMAIN pool[t]
  OBVIOUS
<1>2. /\ pool' \in [Thread -> Seq(Object)]
      /\ pool'[t] = Append(pool[t], o)
      /\ \A u \in Thread \ {t} : pool'[u] = pool[u]
  OBVIOUS
<1>3. /\ DOMAIN pool'[t] = DOMAIN pool[t] \cup {last}
      /\ Len(pool'[t]) = last
      /\ pool'[t][last] = o
      /\ \A n \in DOMAIN pool[t] : pool'[t][n] = pool[t][n]
  BY <1>1, <1>2
<1>4. \A n : PopsUpTo(stack'[t], n) <=> PopsUpTo(stack[t], n)
  BY DEF SamePops
<1>5. PopsUpTo(stack[t], last) BY DEF CallsAreNested
<1>6. \A u \in Thread \ {t}, p \in Object : Held(u, p)' = Held(u, p)
  BY <1>2 DEF Held, SamePops
<1> HIDE DEF last
<1>7. \A p \in Object :
        Held(t, p)' = IF p = o THEN Held(t, p) \cup {last} ELSE Held(t, p)
  BY <1>3, <1>4, <1>5 DEF Held
<1>8. ASSUME NEW p \in Object
      PROVE  Cardinality(PlacesOf(p)') = Cardinality(PlacesOf(p)) + One(p, o)
  <2>1. CASE p # o
    <3>1. \A u \in Thread : Held(u, p)' = Held(u, p) BY <1>6, <1>7, <2>1
    <3>2. PlacesOf(p)' = PlacesOf(p) BY <3>1 DEF PlacesOf
    <3> QED BY <2>1, <3>2, PartsAreFinite DEF One
  <2>2. CASE p = o
    <3>1. Held(t, p)' = Held(t, p) \cup {last} /\ last \notin Held(t, p)
      BY <1>1, <1>7, <2>2 DEF Held
    <3>2. /\ <<t, last>> \in PlacesOf(p)' /\ <<t, last>> \notin PlacesOf(p)
          /\ \A at \in Thread \X (1 .. MaxPool) :
               at \in PlacesOf(p)' <=> at \in PlacesOf(p) \/ at = <<t, last>>
      BY <1>1, <1>6, <3>1 DEF PlacesOf
    <3>3. PlacesOf(p)' = PlacesOf(p) \cup {<<t, last>>}
      BY <3>2 DEF PlacesOf
    <3> QED BY <2>2, <3>2, <3>3, PartsAreFinite, OneMore DEF One
  <2> QED BY <2>1, <2>2
<1>9. \A u \in Thread, p \in Object : Held(u, p) \subseteq Held(u, p)'
  BY <1>6, <1>7
<1>10. Held(t, o)' # {} BY <1>7
<1>11. Len(pool'[t]) = Len(pool[t]) + 1 BY <1>3 DEF last
<1> QED BY <1>2, <1>8, <1>9, <1>10, <1>11
(* A pop gives back the reference of one position of its pool.             *)
LEMMA PlaceGivenBack ==
  ASSUME ReleaseTypeOK, BorrowedIsHeld, UNCHANGED pool,
         NEW t \in Thread, NEW i0 \in DOMAIN pool[t],
         \A n : PopsUpTo(stack[t], n) <=> i0 <= n,
         \A n : PopsUpTo(stack'[t], n) <=> i0 + 1 <= n,
         \A u \in Thread \ {t} : SamePops(u)
  PROVE  /\ \A u \in Thread \ {t}, p \in Object : Held(u, p)' = Held(u, p)
         /\ \A p \in Object :
              Cardinality(PlacesOf(p)')
                = Cardinality(PlacesOf(p)) - One(p, pool[t][i0])
<1> USE DEF ReleaseTypeOK, AR!TypeOK
<1>1. /\ DOMAIN pool[t] = 1 .. Len(pool[t]) /\ Len(pool[t]) \in Nat
      /\ Len(pool[t]) <= MaxPool
  BY DEF BorrowedIsHeld
<1>2. i0 \in 1 .. MaxPool /\ DOMAIN pool[t] \subseteq Int BY <1>1
<1>3. \A u \in Thread \ {t}, p \in Object : Held(u, p)' = Held(u, p)
  BY DEF Held, SamePops
<1>4. ASSUME NEW p \in Object
      PROVE  /\ p = pool[t][i0] => Held(t, p)' = Held(t, p) \ {i0} /\ i0 \in Held(t, p)
             /\ p # pool[t][i0] => Held(t, p)' = Held(t, p)
  <2>1. i0 <= i0 /\ \A n \in DOMAIN pool[t] : i0 + 1 <= n <=> i0 <= n /\ n # i0
    BY <1>1, <1>2
  <2>2. \A n : n \in Held(t, p) <=> n \in DOMAIN pool[t] /\ pool[t][n] = p /\ i0 <= n
    BY DEF Held
  <2>3. \A n : n \in Held(t, p)'
                 <=> n \in DOMAIN pool[t] /\ pool[t][n] = p /\ i0 + 1 <= n
    BY DEF Held
  <2>4. p = pool[t][i0] => i0 \in Held(t, p) BY <2>1, <2>2
  <2>5. p = pool[t][i0] => Held(t, p)' = Held(t, p) \ {i0}
    BY <2>1, <2>2, <2>3
  <2>6. p # pool[t][i0] => Held(t, p)' = Held(t, p)
    BY <2>1, <2>2, <2>3 DEF Held
  <2> QED BY <2>4, <2>5, <2>6
<1>5. ASSUME NEW p \in Object
      PROVE  Cardinality(PlacesOf(p)')
               = Cardinality(PlacesOf(p)) - One(p, pool[t][i0])
  <2>1. CASE p # pool[t][i0]
    <3>1. \A u \in Thread : Held(u, p)' = Held(u, p)
      <4>1. Held(t, p)' = Held(t, p) BY <1>4, <2>1
      <4> QED BY <1>3, <4>1
    <3>2. PlacesOf(p)' = PlacesOf(p) BY <3>1 DEF PlacesOf
    <3> QED BY <2>1, <3>2, PartsAreFinite DEF One
  <2>2. CASE p = pool[t][i0]
    <3>1. Held(t, p)' = Held(t, p) \ {i0} /\ i0 \in Held(t, p)
      BY <1>4, <2>2
    <3>2. /\ <<t, i0>> \in PlacesOf(p) /\ <<t, i0>> \notin PlacesOf(p)'
          /\ \A at \in Thread \X (1 .. MaxPool) :
               at \in PlacesOf(p)' <=> at \in PlacesOf(p) /\ at # <<t, i0>>
      BY <1>2, <1>3, <3>1 DEF PlacesOf
    <3>3. PlacesOf(p)' = PlacesOf(p) \ {<<t, i0>>}
      BY <3>2 DEF PlacesOf
    <3> QED BY <2>2, <3>2, <3>3, PartsAreFinite, OneLess DEF One
  <2> QED BY <2>1, <2>2
<1> QED BY <1>3, <1>5

(* What KObjectRelease does to the calls and the objects.                  *)
LEMMA ReleaseKeepsTypes ==
  ASSUME ReleaseTypeOK, NEW t \in Thread, NEW o \in Object,
         NEW rest \in Seq(Calls), AR!KObjectRelease(t, o, rest)
  PROVE  /\ memory' \in [Object -> {"none", "live", "deinit", "freed"}]
         /\ ref_count' = [ref_count EXCEPT ![o] = @ - 1]
         /\ ref_count' \in [Object -> Int]
         /\ misused' = (ref_count[o] = 0)
         /\ stack' \in [Thread -> Seq(Calls)]
         /\ \A u \in Thread \ {t} : stack'[u] = stack[u]
         /\ \/ stack'[t] = rest /\ memory' = memory /\ ref_count[o] # 1
            \/ /\ stack'[t] = <<AR!Frame("deinit", o, 0)>> \o rest
               /\ memory' = [memory EXCEPT ![o] = "deinit"] /\ ref_count[o] = 1
<1> USE DEF ReleaseTypeOK, AR!TypeOK
<1>1. AR!Frame("deinit", o, 0) \in Calls BY DEF AR!Frame, Calls
<1>2. <<AR!Frame("deinit", o, 0)>> \o rest \in Seq(Calls)
  BY <1>1, CallIsEntered
<1>3. /\ ref_count' = [ref_count EXCEPT ![o] = @ - 1]
      /\ misused' = (ref_count[o] = 0)
      /\ \/ /\ stack' = [stack EXCEPT ![t] = rest]
            /\ memory' = memory /\ ref_count[o] # 1
         \/ /\ stack' = [stack EXCEPT ![t] = <<AR!Frame("deinit", o, 0)>> \o rest]
            /\ memory' = [memory EXCEPT ![o] = "deinit"] /\ ref_count[o] = 1
  BY DEF AR!KObjectRelease, AR!Last
<1>4. ref_count' \in [Object -> Int] BY <1>3
<1>5. stack' \in [Thread -> Seq(Calls)] /\ \A u \in Thread \ {t} : stack'[u] = stack[u]
  <2>1. PICK s \in Seq(Calls) : stack' = [stack EXCEPT ![t] = s] BY <1>2, <1>3
  <2> QED BY <2>1
<1>6. memory' \in [Object -> {"none", "live", "deinit", "freed"}] BY <1>3
<1>7. \/ stack'[t] = rest /\ memory' = memory /\ ref_count[o] # 1
      \/ /\ stack'[t] = <<AR!Frame("deinit", o, 0)>> \o rest
         /\ memory' = [memory EXCEPT ![o] = "deinit"] /\ ref_count[o] = 1
  BY <1>3
<1> QED BY <1>3, <1>4, <1>5, <1>6, <1>7

LEMMA ReleaseKeepsObjects ==
  ASSUME ReleaseTypeOK, HeapInv, NEW t \in Thread, NEW o \in Object,
         NEW rest \in Seq(Calls), AR!KObjectRelease(t, o, rest),
         ref_count[o] > 0, \A p \in Object : field'[p] \in {field[p], None}
  PROVE  /\ ~misused' /\ ObjectsLive' /\ Gone \subseteq Gone'
         /\ NoPop(stack'[t]) <=> NoPop(rest)
         /\ AtMostOnePop(rest) => AtMostOnePop(stack'[t])
         /\ \A n : PopsUpTo(stack'[t], n) <=> PopsUpTo(rest, n)
         /\ Deinits(rest, Gone) => Deinits(stack'[t], Gone')
<1> USE DEF ReleaseTypeOK, AR!TypeOK, HeapInv
<1>1. ref_count[o] # 0 /\ memory[o] = "live" BY DEF ObjectsLive
<1>2. ~misused' BY <1>1, ReleaseKeepsTypes
<1>3. memory' = IF ref_count[o] = 1 THEN [memory EXCEPT ![o] = "deinit"] ELSE memory
  BY ReleaseKeepsTypes
<1>4. ref_count' = [ref_count EXCEPT ![o] = @ - 1] BY ReleaseKeepsTypes
<1>5. ObjectsLive' BY <1>1, <1>3, <1>4 DEF ObjectsLive
<1>6. Gone \subseteq Gone' BY <1>1, <1>3 DEF Gone
<1>7. \A s : Deinits(s, Gone) => Deinits(s, Gone')
  BY <1>6 DEF Deinits
<1>8. AR!Frame("deinit", o, 0) \in Calls BY DEF AR!Frame, Calls
<1>9. CASE stack'[t] = rest BY <1>2, <1>5, <1>6, <1>7, <1>9
<1>10. CASE /\ stack'[t] = <<AR!Frame("deinit", o, 0)>> \o rest
            /\ ref_count[o] = 1
  <2>1. o \in Gone' BY <1>3, <1>10 DEF Gone
  <2>2. AR!Frame("deinit", o, 0).call = "deinit" /\ AR!Frame("deinit", o, 0).object = o
    BY DEF AR!Frame
  <2> QED BY <1>2, <1>5, <1>6, <1>7, <1>8, <1>10, <2>1, <2>2, CallIsEntered
<1> QED BY <1>9, <1>10, ReleaseKeepsTypes
(* Whoever has a reference on an object has a live one.                    *)
LEMMA ReferencedIsLive ==
  ASSUME ReleaseTypeOK, HeapInv, NEW o \in Object
  PROVE  /\ ref_count[o] \in Nat
         /\ \A t \in Thread : o \in owned[t] \/ Held(t, o) # {} =>
              ref_count[o] > 0 /\ memory[o] = "live"
         /\ \A q \in Object : field[q] = o => ref_count[o] > 0 /\ memory[o] = "live"
<1>1. /\ Cardinality(OwnersOf(o)) \in Nat /\ Cardinality(FieldsOf(o)) \in Nat
      /\ Cardinality(PlacesOf(o)) \in Nat
      /\ ref_count[o] = Cardinality(OwnersOf(o)) + Cardinality(FieldsOf(o))
                          + Cardinality(PlacesOf(o))
  BY PartsAreFinite DEF HeapInv, ReferencesAreCounted
<1>2. /\ OwnersOf(o) # {} => Cardinality(OwnersOf(o)) # 0
      /\ FieldsOf(o) # {} => Cardinality(FieldsOf(o)) # 0
      /\ PlacesOf(o) # {} => Cardinality(PlacesOf(o)) # 0
  BY PartsAreFinite, FS_EmptySet
<1>3. OwnersOf(o) # {} \/ FieldsOf(o) # {} \/ PlacesOf(o) # {} =>
        ref_count[o] > 0 /\ memory[o] = "live"
  BY <1>1, <1>2 DEF HeapInv, ObjectsLive
<1>4. ASSUME NEW t \in Thread, Held(t, o) # {} PROVE PlacesOf(o) # {}
  <2>1. PICK n \in DOMAIN pool[t] : n \in Held(t, o) BY <1>4 DEF Held
  <2>2. DOMAIN pool[t] = 1 .. Len(pool[t]) /\ Len(pool[t]) \in Nat
    BY DEF ReleaseTypeOK, AR!TypeOK
  <2>3. n \in 1 .. MaxPool BY <2>2 DEF HeapInv, BorrowedIsHeld
  <2>4. <<t, n>> \in PlacesOf(o) BY <2>1, <2>3 DEF PlacesOf
  <2> QED BY <2>4
<1>5. ASSUME NEW t \in Thread, o \in owned[t] PROVE OwnersOf(o) # {}
  BY <1>5 DEF OwnersOf
<1>6. ASSUME NEW q \in Object, field[q] = o PROVE FieldsOf(o) # {}
  BY <1>6 DEF FieldsOf
<1> QED BY <1>1, <1>3, <1>4, <1>5, <1>6

(* A step after which every thread is inside of the same pop, if any.      *)
SameCalls(u) ==
  /\ NoPop(stack'[u]) <=> NoPop(stack[u])
  /\ AtMostOnePop(stack[u]) => AtMostOnePop(stack'[u])
  /\ SamePops(u)
  /\ Deinits(stack[u], Gone) => Deinits(stack'[u], Gone')

LEMMA StackKept ==
  ASSUME UNCHANGED stack, Gone \subseteq Gone'
  PROVE  \A u \in Thread : SameCalls(u)
BY DEF SameCalls, SamePops, NoPop, AtMostOnePop, Deinits

LEMMA StackReleased ==
  ASSUME ReleaseTypeOK, HeapInv, NEW t \in Thread, NEW o \in Object,
         AR!KObjectRelease(t, o, stack[t]),
         ref_count[o] > 0, \A p \in Object : field'[p] \in {field[p], None}
  PROVE  \A u \in Thread : SameCalls(u)
<1>0. stack[t] \in Seq(Calls) BY DEF ReleaseTypeOK
<1>1. SameCalls(t) BY <1>0, ReleaseKeepsObjects DEF SameCalls, SamePops
<1>2. ASSUME NEW u \in Thread \ {t} PROVE SameCalls(u)
  <2>1. stack'[u] = stack[u] BY <1>0, ReleaseKeepsTypes
  <2>2. Gone \subseteq Gone' BY <1>0, ReleaseKeepsObjects
  <2> QED BY <2>1, <2>2 DEF SameCalls, SamePops, NoPop, AtMostOnePop, Deinits
<1> QED BY <1>1, <1>2

LEMMA CallsKept ==
  ASSUME ReleaseTypeOK, CallsAreNested, \A u \in Thread : SameCalls(u),
         \A u \in Thread : Len(pool'[u]) \in {Len(pool[u]), Len(pool[u]) + 1}
  PROVE  CallsAreNested'
<1> SUFFICES ASSUME NEW u \in Thread
             PROVE  /\ AtMostOnePop(stack'[u]) /\ Deinits(stack'[u], Gone')
                    /\ PopsUpTo(stack'[u], Len(pool'[u]) + 1)
  BY DEF CallsAreNested
<1>1. PopsUpTo(stack[u], Len(pool'[u]) + 1)
  <2>1. /\ stack[u] \in Seq(Calls) /\ Len(pool[u]) \in Nat
        /\ PopsUpTo(stack[u], Len(pool[u]) + 1)
    BY DEF CallsAreNested, ReleaseTypeOK, AR!TypeOK
  <2>2. \A m \in DOMAIN stack[u] :
          stack[u][m].call = "pop" => stack[u][m].index \in Nat
    BY <2>1 DEF Calls
  <2> QED BY <2>1, <2>2 DEF PopsUpTo
<1> QED BY <1>1 DEF CallsAreNested, SameCalls, SamePops

LEMMA BorrowedKept ==
  ASSUME ReleaseTypeOK, BorrowedIsHeld, \A u \in Thread : SameCalls(u),
         UNCHANGED <<pool, borrowed>>
  PROVE  BorrowedIsHeld'
<1>1. \A u \in Thread, p \in Object : Held(u, p)' = Held(u, p)
  BY PlacesKept DEF SameCalls
<1>2. \A u \in Thread : borrowed[u] \subseteq Object
  BY DEF ReleaseTypeOK, AR!TypeOK
<1> QED BY <1>1, <1>2 DEF BorrowedIsHeld, SameCalls

(* What a thread is inside of.                                             *)
LEMMA TopCall ==
  ASSUME ReleaseTypeOK, NEW t \in Thread
  PROVE  /\ stack[t] \in Seq(Calls)
         /\ AR!Top(t, "deinit") =>
              /\ stack[t] # <<>> /\ Head(stack[t]).call = "deinit"
              /\ AR!Deinitialized(t) \in Object
              /\ field[AR!Deinitialized(t)] \in Object \cup {None}
         /\ AR!Top(t, "pop") =>
              /\ stack[t] # <<>> /\ Head(stack[t]).call = "pop"
              /\ AR!PopIndex(t) \in Nat \ {0}
              /\ AR!PopIndex(t) = Head(stack[t]).index
<1>1. stack[t] \in Seq(Calls) BY DEF ReleaseTypeOK
<1>2. stack[t] # <<>> => Head(stack[t]) \in Calls BY <1>1, CallReturns
<1>3. AR!Top(t, "deinit") =>
        /\ stack[t] # <<>> /\ Head(stack[t]).call = "deinit"
        /\ AR!Deinitialized(t) \in Object
  BY <1>2 DEF AR!Top, AR!Deinitialized, Calls
<1> QED BY <1>1, <1>2, <1>3
      DEF AR!Top, AR!PopIndex, Calls, ReleaseTypeOK, AR!TypeOK
-----------------------------------------------------------------------------
(* The steps of KObject and KAutorelease.                                  *)

LEMMA StillCounted ==
  ASSUME HeapInv, NEW p \in Object,
         NEW owners \in Int, NEW fields \in Int, NEW places \in Int,
         Cardinality(OwnersOf(p)') = Cardinality(OwnersOf(p)) + owners,
         Cardinality(FieldsOf(p)') = Cardinality(FieldsOf(p)) + fields,
         Cardinality(PlacesOf(p)') = Cardinality(PlacesOf(p)) + places,
         ref_count'[p] = ref_count[p] + owners + fields + places
  PROVE  ref_count'[p] = Cardinality(OwnersOf(p)') + Cardinality(FieldsOf(p)')
                           + Cardinality(PlacesOf(p)')
<1>1. /\ Cardinality(OwnersOf(p)) \in Nat /\ Cardinality(FieldsOf(p)) \in Nat
      /\ Cardinality(PlacesOf(p)) \in Nat
  BY PartsAreFinite
<1>2. ref_count[p] = Cardinality(OwnersOf(p)) + Cardinality(FieldsOf(p))
                       + Cardinality(PlacesOf(p))
  BY DEF HeapInv, ReferencesAreCounted
<1> HIDE DEF HeapInv
<1> QED BY <1>1, <1>2

LEMMA NewObjectStep ==
  ASSUME ReleaseInv, NEW t \in Thread, NEW o \in Object,
         NEW f \in Object \cup {None}, AR!New(t, o, f),
         UNCHANGED <<mishap, pool, moved, borrowed>>
  PROVE  ReleaseInv'
<1> USE DEF ReleaseInv, ReleaseTypeOK, AR!TypeOK
<1>1. ReleaseTypeOK' BY DEF AR!New
<1>2. ASSUME HeapInv PROVE HeapInv'
  <2>0. /\ memory[o] = "none" /\ memory' = [memory EXCEPT ![o] = "live"]
        /\ f \in owned[t] \cup {None}
        /\ field' = [field EXCEPT ![o] = f]
        /\ ref_count' = [p \in Object |-> IF p = o THEN 1
                           ELSE IF p = f THEN ref_count[p] + 1 ELSE ref_count[p]]
        /\ owned' = [owned EXCEPT ![t] = @ \cup {o}]
        /\ UNCHANGED <<stack, misused>>
    BY DEF AR!New
  <2>1. ref_count[o] = 0 /\ field[o] = None /\ o \notin owned[t] /\ f # o
    BY <1>2, <2>0, ReferencedIsLive DEF HeapInv, ObjectsLive
  <2>2. \A u \in Thread : SameCalls(u)
    <3>1. Gone \subseteq Gone' BY <2>0 DEF Gone
    <3> QED BY <2>0, <3>1, StackKept
  <2>3. /\ \A p \in Object :
             Cardinality(OwnersOf(p)') = Cardinality(OwnersOf(p)) + One(p, o)
        /\ \A p \in Object :
             Cardinality(FieldsOf(p)') = Cardinality(FieldsOf(p)) + One(p, f)
        /\ \A p \in Object : Cardinality(PlacesOf(p)') = Cardinality(PlacesOf(p))
    BY <2>0, <2>1, <2>2, OwnerAdded, FieldSet, PlacesKept DEF SameCalls
  <2>4. ReferencesAreCounted'
    <3> SUFFICES ASSUME NEW p \in Object
                 PROVE  ref_count'[p] = Cardinality(OwnersOf(p)')
                          + Cardinality(FieldsOf(p)') + Cardinality(PlacesOf(p)')
      BY DEF ReferencesAreCounted
    <3>1. ref_count'[p] = ref_count[p] + One(p, o) + One(p, f) + 0
      BY <2>0, <2>1 DEF One
    <3>2. /\ Cardinality(OwnersOf(p)') = Cardinality(OwnersOf(p)) + One(p, o)
          /\ Cardinality(FieldsOf(p)') = Cardinality(FieldsOf(p)) + One(p, f)
          /\ Cardinality(PlacesOf(p)') = Cardinality(PlacesOf(p)) + 0
          /\ One(p, o) \in Int /\ One(p, f) \in Int /\ 0 \in Int
      BY <2>3, PartsAreFinite DEF One
    <3> QED BY <1>2, <3>1, <3>2, StillCounted
  <2>5. ObjectsLive'
    <3>1. f # None => memory[f] = "live" /\ ref_count[f] \in Nat
      BY <1>2, <2>0, ReferencedIsLive
    <3> QED BY <1>2, <2>0, <2>1, <3>1 DEF HeapInv, ObjectsLive
  <2>6. CallsAreNested' BY <1>2, <2>2, CallsKept DEF HeapInv
  <2>7. BorrowedIsHeld' BY <1>2, <2>2, BorrowedKept DEF HeapInv
  <2> QED BY <1>2, <2>0, <2>4, <2>5, <2>6, <2>7 DEF HeapInv
<1> QED BY <1>1, <1>2

LEMMA GiveStep ==
  ASSUME ReleaseInv, NEW t \in Thread, NEW u \in Thread, NEW o \in Object,
         AR!Give(t, u, o), UNCHANGED <<mishap, pool, moved, borrowed>>
  PROVE  ReleaseInv'
<1> USE DEF ReleaseInv, ReleaseTypeOK, AR!TypeOK
<1>1. ReleaseTypeOK' BY DEF AR!Give
<1>2. ASSUME HeapInv PROVE HeapInv'
  <2>0. /\ o \in owned[t] /\ o \notin owned[u]
        /\ ref_count' = [ref_count EXCEPT ![o] = @ + 1]
        /\ owned' = [owned EXCEPT ![u] = @ \cup {o}]
        /\ UNCHANGED <<memory, field, stack, misused>>
    BY DEF AR!Give
  <2>1. memory[o] = "live" /\ ref_count[o] \in Nat BY <1>2, <2>0, ReferencedIsLive
  <2>2. \A v \in Thread : SameCalls(v)
    <3>1. Gone \subseteq Gone' BY <2>0 DEF Gone
    <3> QED BY <2>0, <3>1, StackKept
  <2>3. /\ \A p \in Object :
             Cardinality(OwnersOf(p)') = Cardinality(OwnersOf(p)) + One(p, o)
        /\ \A p \in Object : FieldsOf(p)' = FieldsOf(p)
        /\ \A p \in Object : Cardinality(PlacesOf(p)') = Cardinality(PlacesOf(p))
    <3>1. \A p \in Object : FieldsOf(p)' = FieldsOf(p) BY <2>0 DEF FieldsOf
    <3> QED BY <2>0, <2>2, <3>1, OwnerAdded, PlacesKept DEF SameCalls
  <2>4. ReferencesAreCounted'
    <3> SUFFICES ASSUME NEW p \in Object
                 PROVE  ref_count'[p] = Cardinality(OwnersOf(p)')
                          + Cardinality(FieldsOf(p)') + Cardinality(PlacesOf(p)')
      BY DEF ReferencesAreCounted
    <3>1. ref_count'[p] = ref_count[p] + One(p, o) + 0 + 0
      BY <2>0 DEF One
    <3>2. /\ Cardinality(OwnersOf(p)') = Cardinality(OwnersOf(p)) + One(p, o)
          /\ Cardinality(FieldsOf(p)') = Cardinality(FieldsOf(p)) + 0
          /\ Cardinality(PlacesOf(p)') = Cardinality(PlacesOf(p)) + 0
          /\ One(p, o) \in Int /\ 0 \in Int /\ 0 \in Int
      BY <2>3, PartsAreFinite DEF One
    <3> QED BY <1>2, <3>1, <3>2, StillCounted
  <2>5. ObjectsLive' BY <1>2, <2>0, <2>1 DEF HeapInv, ObjectsLive
  <2>6. CallsAreNested' BY <1>2, <2>2, CallsKept DEF HeapInv
  <2>7. BorrowedIsHeld' BY <1>2, <2>2, BorrowedKept DEF HeapInv
  <2> QED BY <1>2, <2>0, <2>4, <2>5, <2>6, <2>7 DEF HeapInv
<1> QED BY <1>1, <1>2

(* A thread gives its reference back, whether the program does so or       *)
(* KAutoreleaseMove, when there is no memory.                              *)
LEMMA GiveBackOwnedStep ==
  ASSUME ReleaseInv, NEW t \in Thread, NEW o \in Object, o \in owned[t],
         owned' = [owned EXCEPT ![t] = @ \ {o}],
         AR!KObjectRelease(t, o, stack[t]),
         UNCHANGED <<field, mishap, pool, moved, borrowed>>
  PROVE  ReleaseInv'
<1> USE DEF ReleaseInv, ReleaseTypeOK, AR!TypeOK
<1>0. /\ memory' \in [Object -> {"none", "live", "deinit", "freed"}]
      /\ ref_count' = [ref_count EXCEPT ![o] = @ - 1]
      /\ ref_count' \in [Object -> Int] /\ misused' \in BOOLEAN
      /\ stack' \in [Thread -> Seq(Calls)]
  BY ReleaseKeepsTypes
<1>1. ReleaseTypeOK' BY <1>0
<1>2. ASSUME HeapInv PROVE HeapInv'
  <2>1. ref_count[o] > 0 /\ \A p \in Object : field'[p] \in {field[p], None}
    BY <1>2, ReferencedIsLive
  <2>2. \A u \in Thread : SameCalls(u) BY <1>2, <2>1, StackReleased
  <2>3. /\ \A p \in Object :
             Cardinality(OwnersOf(p)') = Cardinality(OwnersOf(p)) - One(p, o)
        /\ \A p \in Object : FieldsOf(p)' = FieldsOf(p)
        /\ \A p \in Object : Cardinality(PlacesOf(p)') = Cardinality(PlacesOf(p))
    <3>1. \A p \in Object : FieldsOf(p)' = FieldsOf(p) BY DEF FieldsOf
    <3> QED BY <2>2, <3>1, OwnerRemoved, PlacesKept DEF SameCalls
  <2>4. ReferencesAreCounted'
    <3> SUFFICES ASSUME NEW p \in Object
                 PROVE  ref_count'[p] = Cardinality(OwnersOf(p)')
                          + Cardinality(FieldsOf(p)') + Cardinality(PlacesOf(p)')
      BY DEF ReferencesAreCounted
    <3>1. ref_count'[p] = ref_count[p] + (0 - One(p, o)) + 0 + 0
      BY <1>0 DEF One
    <3>2. /\ Cardinality(OwnersOf(p)') = Cardinality(OwnersOf(p)) + (0 - One(p, o))
          /\ Cardinality(FieldsOf(p)') = Cardinality(FieldsOf(p)) + 0
          /\ Cardinality(PlacesOf(p)') = Cardinality(PlacesOf(p)) + 0
          /\ (0 - One(p, o)) \in Int /\ 0 \in Int /\ 0 \in Int
      BY <2>3, PartsAreFinite DEF One
    <3> QED BY <1>2, <3>1, <3>2, StillCounted
  <2>5. ~misused' /\ ObjectsLive' BY <1>2, <2>1, ReleaseKeepsObjects
  <2>6. CallsAreNested' BY <1>2, <2>2, CallsKept DEF HeapInv
  <2>7. BorrowedIsHeld' BY <1>2, <2>2, BorrowedKept DEF HeapInv
  <2> QED BY <1>2, <2>4, <2>5, <2>6, <2>7 DEF HeapInv
<1> QED BY <1>1, <1>2

(* A deinitializer gives back what its object holds.                       *)
LEMMA DeinitReleasesStep ==
  ASSUME ReleaseInv, NEW t \in Thread, AR!DeinitReleases(t),
         UNCHANGED <<mishap, pool, moved, borrowed>>
  PROVE  ReleaseInv'
<1> DEFINE q == AR!Deinitialized(t)
           o == field[q]
<1> USE DEF ReleaseInv
<1>q. q \in Object /\ o \in Object /\ stack[t] \in Seq(Calls)
      /\ field' = [field EXCEPT ![q] = None] /\ o # None
      /\ AR!KObjectRelease(t, o, stack[t]) /\ UNCHANGED owned
  BY TopCall DEF AR!DeinitReleases, AR!ClearField
<1> HIDE DEF q
<1>0. /\ memory' \in [Object -> {"none", "live", "deinit", "freed"}]
      /\ ref_count' = [ref_count EXCEPT ![o] = @ - 1]
      /\ ref_count' \in [Object -> Int] /\ misused' \in BOOLEAN
      /\ stack' \in [Thread -> Seq(Calls)]
  BY <1>q, ReleaseKeepsTypes
<1>f. field \in [Object -> Object \cup {None}]
  BY DEF ReleaseTypeOK, AR!TypeOK
<1>1. ReleaseTypeOK' BY <1>0, <1>q DEF ReleaseTypeOK, AR!TypeOK
<1>2. ASSUME HeapInv PROVE HeapInv'
  <2>1. ref_count[o] > 0 /\ \A p \in Object : field'[p] \in {field[p], None}
    BY <1>2, <1>f, <1>q, ReferencedIsLive
  <2>2. \A u \in Thread : SameCalls(u) BY <1>2, <1>q, <2>1, StackReleased
  <2>3. /\ \A p \in Object : OwnersOf(p)' = OwnersOf(p)
        /\ \A p \in Object :
             Cardinality(FieldsOf(p)') = Cardinality(FieldsOf(p)) - One(p, o)
        /\ \A p \in Object : Cardinality(PlacesOf(p)') = Cardinality(PlacesOf(p))
    <3>1. \A p \in Object : OwnersOf(p)' = OwnersOf(p) BY <1>q DEF OwnersOf
    <3> QED BY <1>q, <2>2, <3>1, FieldCleared, PlacesKept DEF SameCalls
  <2>4. ReferencesAreCounted'
    <3> SUFFICES ASSUME NEW p \in Object
                 PROVE  ref_count'[p] = Cardinality(OwnersOf(p)')
                          + Cardinality(FieldsOf(p)') + Cardinality(PlacesOf(p)')
      BY DEF ReferencesAreCounted
    <3>1. ref_count'[p] = ref_count[p] + 0 + (0 - One(p, o)) + 0
      BY <1>0, <1>q DEF One, ReleaseTypeOK, AR!TypeOK
    <3>2. /\ Cardinality(OwnersOf(p)') = Cardinality(OwnersOf(p)) + 0
          /\ Cardinality(FieldsOf(p)') = Cardinality(FieldsOf(p)) + (0 - One(p, o))
          /\ Cardinality(PlacesOf(p)') = Cardinality(PlacesOf(p)) + 0
          /\ 0 \in Int /\ (0 - One(p, o)) \in Int /\ 0 \in Int
      BY <2>3, PartsAreFinite DEF One
    <3> QED BY <1>2, <3>1, <3>2, StillCounted
  <2>5. ~misused' /\ ObjectsLive' BY <1>2, <1>q, <2>1, ReleaseKeepsObjects
  <2>6. CallsAreNested' BY <1>2, <2>2, CallsKept DEF HeapInv
  <2>7. BorrowedIsHeld' BY <1>2, <2>2, BorrowedKept DEF HeapInv
  <2> QED BY <1>2, <2>4, <2>5, <2>6, <2>7 DEF HeapInv
<1> QED BY <1>1, <1>2

LEMMA FreeStep ==
  ASSUME ReleaseInv, NEW t \in Thread, AR!Free(t),
         UNCHANGED <<mishap, pool, moved, borrowed>>
  PROVE  ReleaseInv'
<1> DEFINE q == AR!Deinitialized(t)
<1> USE DEF ReleaseInv
<1>0. /\ q \in Object /\ stack[t] \in Seq(Calls) /\ stack[t] # <<>>
      /\ Head(stack[t]).call = "deinit" /\ Head(stack[t]).object = q
      /\ memory' = [memory EXCEPT ![q] = "freed"]
      /\ stack' = [stack EXCEPT ![t] = Tail(@)]
      /\ UNCHANGED <<ref_count, field, owned, misused>>
  BY TopCall DEF AR!Free, AR!Deinitialized
<1> HIDE DEF q
<1>t. Tail(stack[t]) \in Seq(Calls) BY <1>0, CallReturns
<1>s. stack'[t] = Tail(stack[t]) /\ \A u \in Thread \ {t} : stack'[u] = stack[u]
  BY <1>0 DEF ReleaseTypeOK
<1>1. ReleaseTypeOK' BY <1>0, <1>t DEF ReleaseTypeOK, AR!TypeOK
<1>2. ASSUME HeapInv PROVE HeapInv'
  <2>1. q \in Gone
    BY <1>2, <1>0, CallReturns DEF HeapInv, CallsAreNested
  <2>2. Gone \subseteq Gone' BY <1>0 DEF ReleaseTypeOK, AR!TypeOK, Gone
  <2>3. SameCalls(t)
    <3>1. Deinits(Tail(stack[t]), Gone) => Deinits(Tail(stack[t]), Gone')
      BY <2>2 DEF Deinits
    <3> QED BY <1>0, <1>s, <3>1, CallReturns DEF SameCalls, SamePops
  <2>4. ASSUME NEW u \in Thread \ {t} PROVE SameCalls(u)
    BY <1>s, <2>2 DEF SameCalls, SamePops, NoPop, AtMostOnePop, Deinits
  <2>5. \A u \in Thread : SameCalls(u) BY <2>3, <2>4
  <2>6. ReferencesAreCounted'
    <3>1. \A p \in Object : OwnersOf(p)' = OwnersOf(p) /\ FieldsOf(p)' = FieldsOf(p)
      BY <1>0 DEF OwnersOf, FieldsOf
    <3>2. \A p \in Object : Cardinality(PlacesOf(p)') = Cardinality(PlacesOf(p))
      BY <2>5, PlacesKept DEF SameCalls
    <3> QED BY <1>2, <1>0, <3>1, <3>2 DEF HeapInv, ReferencesAreCounted
  <2>7. ObjectsLive'
    BY <1>2, <1>0, <2>1 DEF ReleaseTypeOK, AR!TypeOK, HeapInv, ObjectsLive, Gone
  <2>8. CallsAreNested' BY <1>2, <2>5, CallsKept DEF HeapInv
  <2>9. BorrowedIsHeld' BY <1>2, <2>5, BorrowedKept DEF HeapInv
  <2> QED BY <1>2, <1>0, <2>6, <2>7, <2>8, <2>9 DEF HeapInv
<1> QED BY <1>1, <1>2
(* An object is added to the pool; who does it outside of all calls may    *)
(* use it on.                                                              *)
LEMMA AppendTypes ==
  ASSUME ReleaseTypeOK, NEW t \in Thread, NEW o \in Object, AR!Append1(t, o)
  PROVE  pool' \in [Thread -> Seq(Object)] /\ moved' \in [Thread -> BOOLEAN]
<1>1. Append(pool[t], o) \in Seq(Object) BY DEF ReleaseTypeOK, AR!TypeOK
<1>2. pool' \in [Thread -> Seq(Object)]
  BY <1>1 DEF ReleaseTypeOK, AR!TypeOK, AR!Append1
<1>3. AR!Popping(t) \in BOOLEAN BY DEF AR!Popping
<1>4. moved' \in [Thread -> BOOLEAN]
  BY <1>3 DEF ReleaseTypeOK, AR!TypeOK, AR!Append1
<1> QED BY <1>2, <1>4

LEMMA AppendKeeps ==
  ASSUME ReleaseTypeOK, HeapInv, mishap = "none",
         NEW t \in Thread, NEW o \in Object, AR!Append1(t, o),
         UNCHANGED <<memory, stack, misused>>,
         \/ UNCHANGED borrowed
         \/ AR!Idle(t) /\ borrowed' = [borrowed EXCEPT ![t] = @ \cup {o}]
  PROVE  /\ ~misused' /\ \A u \in Thread : ~moved'[u]
         /\ \A p \in Object :
              Cardinality(PlacesOf(p)') = Cardinality(PlacesOf(p)) + One(p, o)
         /\ CallsAreNested' /\ BorrowedIsHeld'
<1>1. ~misused' /\ \A u \in Thread : ~moved'[u]
  BY DEF HeapInv, AR!Append1
<1>2. Len(pool[t]) < MaxPool /\ pool' = [pool EXCEPT ![t] = Append(@, o)]
  BY DEF AR!Append1
<1>3. \A u \in Thread : SameCalls(u)
  <2>1. Gone \subseteq Gone' BY DEF Gone
  <2> QED BY <2>1, StackKept
<1>4. /\ Len(pool'[t]) = Len(pool[t]) + 1
      /\ \A u \in Thread, p \in Object : Held(u, p) \subseteq Held(u, p)'
      /\ Held(t, o)' # {}
      /\ \A p \in Object :
           Cardinality(PlacesOf(p)') = Cardinality(PlacesOf(p)) + One(p, o)
  BY <1>2, <1>3, PlaceAdded DEF SameCalls, HeapInv
<1>5. \A u \in Thread \ {t} : pool'[u] = pool[u]
  BY <1>2 DEF ReleaseTypeOK, AR!TypeOK
<1>6. CallsAreNested'
  <2>1. \A u \in Thread : Len(pool'[u]) \in {Len(pool[u]), Len(pool[u]) + 1}
    BY <1>4, <1>5
  <2> QED BY <1>3, <2>1, CallsKept DEF HeapInv
<1>7. BorrowedIsHeld'
  <2> SUFFICES ASSUME NEW u \in Thread
               PROVE  /\ Len(pool'[u]) <= MaxPool
                      /\ NoPop(stack'[u]) \/ borrowed'[u] = {}
                      /\ \A p \in borrowed'[u] : Held(u, p)' # {}
    BY DEF BorrowedIsHeld
  <2>1. Len(pool'[u]) <= MaxPool
    <3>1. CASE u = t
      <4>1. Len(pool[t]) \in Nat BY DEF ReleaseTypeOK, AR!TypeOK
      <4> QED BY <1>2, <1>4, <3>1, <4>1
    <3>2. CASE u # t BY <1>5, <3>2 DEF HeapInv, BorrowedIsHeld
    <3> QED BY <3>1, <3>2
  <2>2. /\ borrowed'[u] \subseteq Object
        /\ borrowed'[u] = borrowed[u]
             \/ (u = t /\ AR!Idle(t) /\ borrowed'[t] = borrowed[t] \cup {o})
    BY DEF ReleaseTypeOK, AR!TypeOK
  <2>3. NoPop(stack'[u]) \/ borrowed'[u] = {}
    <3>1. AR!Idle(t) => NoPop(stack[t]) BY DEF AR!Idle, NoPop
    <3> QED BY <2>2, <3>1 DEF HeapInv, BorrowedIsHeld
  <2>4. ASSUME NEW p \in borrowed'[u] PROVE Held(u, p)' # {}
    <3>1. CASE p \in borrowed[u]
      <4>1. Held(u, p) # {} BY <3>1 DEF HeapInv, BorrowedIsHeld
      <4>2. Held(u, p) \subseteq Held(u, p)' BY <1>4, <2>2, <2>4
      <4> QED BY <4>1, <4>2
    <3>2. CASE p \notin borrowed[u] BY <1>4, <2>2, <2>4, <3>2
    <3> QED BY <3>1, <3>2
  <2> QED BY <2>1, <2>3, <2>4
<1> QED BY <1>1, <1>4, <1>6, <1>7

LEMMA AddObjectStep ==
  ASSUME ReleaseInv, NEW t \in Thread, NEW o \in Object, AR!AddObject(t, o),
         UNCHANGED mishap
  PROVE  ReleaseInv'
<1> USE DEF ReleaseInv
<1>0. /\ o \in owned[t] /\ AR!Append1(t, o)
      /\ ref_count' = [ref_count EXCEPT ![o] = @ + 1]
      /\ UNCHANGED <<memory, field, owned, stack, misused, borrowed>>
  BY DEF AR!AddObject
<1>1. ReleaseTypeOK' BY <1>0, AppendTypes DEF ReleaseTypeOK, AR!TypeOK
<1>2. ASSUME HeapInv, mishap = "none" PROVE HeapInv'
  <2>1. memory[o] = "live" /\ ref_count[o] \in Nat BY <1>2, <1>0, ReferencedIsLive
  <2>2. /\ ~misused' /\ \A u \in Thread : ~moved'[u]
        /\ CallsAreNested' /\ BorrowedIsHeld'
    BY <1>2, <1>0, AppendKeeps
  <2>3. /\ \A p \in Object : OwnersOf(p)' = OwnersOf(p) /\ FieldsOf(p)' = FieldsOf(p)
        /\ \A p \in Object :
             Cardinality(PlacesOf(p)') = Cardinality(PlacesOf(p)) + One(p, o)
    <3>1. \A p \in Object : OwnersOf(p)' = OwnersOf(p) /\ FieldsOf(p)' = FieldsOf(p)
      BY <1>0 DEF OwnersOf, FieldsOf
    <3> QED BY <1>2, <1>0, <3>1, AppendKeeps
  <2>4. ReferencesAreCounted'
    <3> SUFFICES ASSUME NEW p \in Object
                 PROVE  ref_count'[p] = Cardinality(OwnersOf(p)')
                          + Cardinality(FieldsOf(p)') + Cardinality(PlacesOf(p)')
      BY DEF ReferencesAreCounted
    <3>1. ref_count'[p] = ref_count[p] + 0 + 0 + One(p, o)
      BY <1>0 DEF One, ReleaseTypeOK, AR!TypeOK
    <3>2. /\ Cardinality(OwnersOf(p)') = Cardinality(OwnersOf(p)) + 0
          /\ Cardinality(FieldsOf(p)') = Cardinality(FieldsOf(p)) + 0
          /\ Cardinality(PlacesOf(p)') = Cardinality(PlacesOf(p)) + One(p, o)
          /\ 0 \in Int /\ 0 \in Int /\ One(p, o) \in Int
      BY <2>3, PartsAreFinite DEF One
    <3> QED BY <1>2, <3>1, <3>2, StillCounted
  <2>5. ObjectsLive'
    BY <1>2, <1>0, <2>1 DEF ReleaseTypeOK, AR!TypeOK, HeapInv, ObjectsLive
  <2> QED BY <2>2, <2>4, <2>5 DEF HeapInv
<1> QED BY <1>1, <1>2

(* KAutoreleaseMove.                                                       *)
LEMMA MoveStep ==
  ASSUME ReleaseInv, NEW t \in Thread, NEW o \in Object, AR!Move(t, o),
         UNCHANGED mishap
  PROVE  ReleaseInv'
<1> USE DEF ReleaseInv
<1>1. CASE AR!KObjectRelease(t, o, stack[t]) /\ AR!ReturnNull(t, o)
             /\ UNCHANGED <<pool, moved>>
  BY <1>1, GiveBackOwnedStep DEF AR!Move, AR!ReturnNull
<1>2. ASSUME AR!Append1(t, o), borrowed' = [borrowed EXCEPT ![t] = @ \cup {o}],
             UNCHANGED <<memory, ref_count, stack, misused>>
      PROVE  ReleaseInv'
  <2>0. /\ AR!Idle(t) /\ o \in owned[t]
        /\ owned' = [owned EXCEPT ![t] = @ \ {o}] /\ UNCHANGED field
    BY DEF AR!Move
  <2>1. ReleaseTypeOK' BY <1>2, <2>0, AppendTypes DEF ReleaseTypeOK, AR!TypeOK
  <2>2. ASSUME HeapInv, mishap = "none" PROVE HeapInv'
    <3>1. /\ ~misused' /\ \A u \in Thread : ~moved'[u]
          /\ CallsAreNested' /\ BorrowedIsHeld'
      BY <1>2, <2>0, <2>2, AppendKeeps
    <3>2. /\ \A p \in Object :
               Cardinality(OwnersOf(p)') = Cardinality(OwnersOf(p)) - One(p, o)
          /\ \A p \in Object : FieldsOf(p)' = FieldsOf(p)
          /\ \A p \in Object :
               Cardinality(PlacesOf(p)') = Cardinality(PlacesOf(p)) + One(p, o)
      <4>1. \A p \in Object : FieldsOf(p)' = FieldsOf(p) BY <2>0 DEF FieldsOf
      <4> QED BY <1>2, <2>0, <2>2, <4>1, OwnerRemoved, AppendKeeps
    <3>3. ReferencesAreCounted'
      <4> SUFFICES ASSUME NEW p \in Object
                   PROVE  ref_count'[p] = Cardinality(OwnersOf(p)')
                            + Cardinality(FieldsOf(p)') + Cardinality(PlacesOf(p)')
        BY DEF ReferencesAreCounted
      <4>1. ref_count'[p] = ref_count[p] + (0 - One(p, o)) + 0 + One(p, o)
        BY <1>2 DEF One, ReleaseTypeOK, AR!TypeOK
      <4>2. /\ Cardinality(OwnersOf(p)') = Cardinality(OwnersOf(p)) + (0 - One(p, o))
            /\ Cardinality(FieldsOf(p)') = Cardinality(FieldsOf(p)) + 0
            /\ Cardinality(PlacesOf(p)') = Cardinality(PlacesOf(p)) + One(p, o)
            /\ 0 - One(p, o) \in Int /\ 0 \in Int /\ One(p, o) \in Int
        BY <3>2, PartsAreFinite DEF One
      <4> QED BY <2>2, <4>1, <4>2, StillCounted
    <3>4. ObjectsLive' BY <1>2, <2>0, <2>2 DEF HeapInv, ObjectsLive
    <3> QED BY <3>1, <3>3, <3>4 DEF HeapInv
  <2> QED BY <2>1, <2>2
<1> QED BY <1>1, <1>2 DEF AR!Move

LEMMA DeinitMovesStep ==
  ASSUME ReleaseInv, NEW t \in Thread, AR!DeinitMoves(t), UNCHANGED mishap
  PROVE  ReleaseInv'
<1> DEFINE q == AR!Deinitialized(t)
           o == field[q]
<1> USE DEF ReleaseInv
<1>0. /\ q \in Object /\ o \in Object /\ o # None
      /\ field' = [field EXCEPT ![q] = None] /\ AR!Append1(t, o)
      /\ UNCHANGED <<memory, ref_count, owned, stack, misused, borrowed>>
  BY TopCall DEF AR!DeinitMoves, AR!ClearField
<1> HIDE DEF q
<1>1. ReleaseTypeOK' BY <1>0, AppendTypes DEF ReleaseTypeOK, AR!TypeOK
<1>2. ASSUME HeapInv, mishap = "none" PROVE HeapInv'
  <2>2. /\ ~misused' /\ \A u \in Thread : ~moved'[u]
        /\ CallsAreNested' /\ BorrowedIsHeld'
    BY <1>2, <1>0, AppendKeeps
  <2>3. /\ \A p \in Object : OwnersOf(p)' = OwnersOf(p)
        /\ \A p \in Object :
             Cardinality(FieldsOf(p)') = Cardinality(FieldsOf(p)) - One(p, o)
        /\ \A p \in Object :
             Cardinality(PlacesOf(p)') = Cardinality(PlacesOf(p)) + One(p, o)
    <3>1. \A p \in Object : OwnersOf(p)' = OwnersOf(p) BY <1>0 DEF OwnersOf
    <3> QED BY <1>2, <1>0, <3>1, FieldCleared, AppendKeeps
  <2>4. ReferencesAreCounted'
    <3> SUFFICES ASSUME NEW p \in Object
                 PROVE  ref_count'[p] = Cardinality(OwnersOf(p)')
                          + Cardinality(FieldsOf(p)') + Cardinality(PlacesOf(p)')
      BY DEF ReferencesAreCounted
    <3>1. ref_count'[p] = ref_count[p] + 0 + (0 - One(p, o)) + One(p, o)
      BY <1>0 DEF One, ReleaseTypeOK, AR!TypeOK
    <3>2. /\ Cardinality(OwnersOf(p)') = Cardinality(OwnersOf(p)) + 0
          /\ Cardinality(FieldsOf(p)') = Cardinality(FieldsOf(p)) + (0 - One(p, o))
          /\ Cardinality(PlacesOf(p)') = Cardinality(PlacesOf(p)) + One(p, o)
          /\ 0 \in Int /\ (0 - One(p, o)) \in Int /\ One(p, o) \in Int
      BY <2>3, PartsAreFinite DEF One
    <3> QED BY <1>2, <3>1, <3>2, StillCounted
  <2>5. ObjectsLive'
    BY <1>2, <1>0 DEF ReleaseTypeOK, AR!TypeOK, HeapInv, ObjectsLive
  <2> QED BY <2>2, <2>4, <2>5 DEF HeapInv
<1> QED BY <1>1, <1>2
(* The pops.  No deinitializer pops the pool that is being popped.         *)
LEMMA PopStep ==
  ASSUME ReleaseInv, NEW t \in Thread, AR!Pop(t), UNCHANGED mishap
  PROVE  ReleaseInv'
<1> USE DEF ReleaseInv
<1> DEFINE c == AR!Frame("pop", None, 1)
<1>0. /\ \/ AR!Idle(t)
         \/ AR!Popping(t) => mishap = "nested pop"
      /\ stack' = [stack EXCEPT ![t] = <<c>> \o @]
      /\ borrowed' = [borrowed EXCEPT ![t] = {}]
      /\ UNCHANGED <<memory, ref_count, field, owned, misused, pool, moved>>
  BY DEF AR!Pop
<1>s. /\ stack[t] \in Seq(Calls) /\ c \in Calls
      /\ c.call = "pop" /\ c.index = 1
  BY DEF AR!Frame, Calls, ReleaseTypeOK
<1> HIDE DEF c
<1>t. /\ <<c>> \o stack[t] \in Seq(Calls)
      /\ stack'[t] = <<c>> \o stack[t]
      /\ \A u \in Thread \ {t} : stack'[u] = stack[u]
  BY <1>0, <1>s, CallIsEntered DEF ReleaseTypeOK
<1>1. ReleaseTypeOK' BY <1>0, <1>t DEF ReleaseTypeOK, AR!TypeOK
<1>2. ASSUME HeapInv, mishap = "none" PROVE HeapInv'
  <2>1. NoPop(stack[t])
    BY <1>0, <1>2 DEF AR!Idle, AR!Popping, NoPop
  <2>2. Gone' = Gone BY <1>0 DEF Gone
  <2>3. \A n : PopsUpTo(stack[t], n) BY <2>1 DEF NoPop, PopsUpTo
  <2>4. /\ AtMostOnePop(stack'[t]) /\ ~NoPop(stack'[t])
        /\ Deinits(stack[t], Gone) => Deinits(stack'[t], Gone)
        /\ \A n : PopsUpTo(stack'[t], n) <=> 1 <= n
    BY <1>2, <1>s, <1>t, <2>1, <2>3, CallIsEntered DEF HeapInv, CallsAreNested
  <2>5. \A u \in Thread, p \in Object : Held(u, p)' = Held(u, p)
    <3>1. \A p \in Object : Held(t, p)' = Held(t, p)
      <4>1. \A n \in DOMAIN pool[t] : 1 <= n
        BY DEF ReleaseTypeOK, AR!TypeOK
      <4> QED BY <1>0, <2>3, <2>4, <4>1 DEF Held
    <3>2. \A u \in Thread \ {t}, p \in Object : Held(u, p)' = Held(u, p)
      BY <1>0, <1>t DEF Held, PopsUpTo
    <3> QED BY <3>1, <3>2
  <2>6. ReferencesAreCounted'
    <3>1. \A p \in Object : /\ OwnersOf(p)' = OwnersOf(p)
                            /\ FieldsOf(p)' = FieldsOf(p)
                            /\ PlacesOf(p)' = PlacesOf(p)
      BY <1>0, <2>5 DEF OwnersOf, FieldsOf, PlacesOf
    <3> QED BY <1>2, <1>0, <3>1 DEF HeapInv, ReferencesAreCounted
  <2>7. ObjectsLive' BY <1>2, <1>0 DEF HeapInv, ObjectsLive
  <2>8. CallsAreNested'
    <3>1. PopsUpTo(stack'[t], Len(pool'[t]) + 1)
      <4>1. 1 <= Len(pool[t]) + 1 BY DEF ReleaseTypeOK, AR!TypeOK
      <4>2. PopsUpTo(stack'[t], Len(pool[t]) + 1) BY <2>4, <4>1
      <4> QED BY <1>0, <4>2
    <3> QED BY <1>2, <1>0, <1>t, <2>2, <2>4, <3>1 DEF HeapInv, CallsAreNested
  <2>9. BorrowedIsHeld'
    <3> SUFFICES ASSUME NEW u \in Thread
                 PROVE  /\ Len(pool[u]) <= MaxPool
                        /\ NoPop(stack'[u]) \/ borrowed'[u] = {}
                        /\ \A p \in borrowed'[u] : Held(u, p)' # {}
      BY <1>0 DEF BorrowedIsHeld
    <3>1. CASE u = t
      BY <1>2, <1>0, <3>1 DEF HeapInv, BorrowedIsHeld, ReleaseTypeOK, AR!TypeOK
    <3>2. CASE u # t
      <4>1. borrowed'[u] = borrowed[u] /\ borrowed[u] \subseteq Object
        BY <1>0, <3>2 DEF ReleaseTypeOK, AR!TypeOK
      <4> QED BY <1>2, <1>t, <2>5, <3>2, <4>1 DEF HeapInv, BorrowedIsHeld
    <3> QED BY <3>1, <3>2
  <2> QED BY <1>2, <1>0, <2>6, <2>7, <2>8, <2>9 DEF HeapInv
<1> QED BY <1>1, <1>2

LEMMA PopReturnsStep ==
  ASSUME ReleaseInv, NEW t \in Thread, AR!PopReturns(t), UNCHANGED mishap
  PROVE  ReleaseInv'
<1> USE DEF ReleaseInv
<1>0. /\ stack[t] \in Seq(Calls) /\ stack[t] # <<>>
      /\ Head(stack[t]).call = "pop" /\ Head(stack[t]).index \in Nat
      /\ Head(stack[t]).index > Len(pool[t])
      /\ pool' = [pool EXCEPT ![t] = <<>>]
      /\ moved' = [moved EXCEPT ![t] = FALSE]
      /\ stack' = [stack EXCEPT ![t] = Tail(@)]
      /\ UNCHANGED <<memory, ref_count, field, owned, misused, borrowed>>
  BY TopCall DEF AR!PopReturns
<1>t. /\ Tail(stack[t]) \in Seq(Calls)
      /\ stack'[t] = Tail(stack[t])
      /\ \A u \in Thread \ {t} : stack'[u] = stack[u] /\ pool'[u] = pool[u]
      /\ pool'[t] = <<>>
  BY <1>0, CallReturns DEF ReleaseTypeOK, AR!TypeOK
<1>1. ReleaseTypeOK' BY <1>0, <1>t DEF ReleaseTypeOK, AR!TypeOK
<1>2. ASSUME HeapInv PROVE HeapInv'
  <2>1. AtMostOnePop(stack[t]) /\ Deinits(stack[t], Gone)
    BY <1>2 DEF HeapInv, CallsAreNested
  <2>2. /\ NoPop(stack'[t]) /\ AtMostOnePop(stack'[t]) /\ Deinits(stack'[t], Gone)
        /\ ~NoPop(stack[t])
    BY <1>0, <1>t, <2>1, CallReturns
  <2>3. Gone' = Gone BY <1>0 DEF Gone
  <2>4. \A n \in DOMAIN pool[t] : ~PopsUpTo(stack[t], n)
    <3>1. \A n \in DOMAIN pool[t] : ~(Head(stack[t]).index <= n)
      BY <1>0 DEF ReleaseTypeOK, AR!TypeOK
    <3> QED BY <1>0, <3>1, CallReturns
  <2>5. \A u \in Thread, p \in Object : Held(u, p)' = Held(u, p)
    <3>1. DOMAIN pool'[t] = {} BY <1>t
    <3>2. \A p \in Object : Held(t, p)' = {} /\ Held(t, p) = {}
      BY <2>4, <3>1 DEF Held
    <3>3. \A u \in Thread \ {t}, p \in Object : Held(u, p)' = Held(u, p)
      BY <1>t DEF Held, PopsUpTo
    <3> QED BY <3>2, <3>3
  <2>6. ReferencesAreCounted'
    <3>1. \A p \in Object : /\ OwnersOf(p)' = OwnersOf(p)
                            /\ FieldsOf(p)' = FieldsOf(p)
                            /\ PlacesOf(p)' = PlacesOf(p)
      BY <1>0, <2>5 DEF OwnersOf, FieldsOf, PlacesOf
    <3> QED BY <1>2, <1>0, <3>1 DEF HeapInv, ReferencesAreCounted
  <2>7. ObjectsLive' BY <1>2, <1>0 DEF HeapInv, ObjectsLive
  <2>8. CallsAreNested'
    <3>1. PopsUpTo(stack'[t], Len(pool'[t]) + 1) BY <2>2 DEF NoPop, PopsUpTo
    <3> QED BY <1>2, <1>0, <1>t, <2>2, <2>3, <3>1 DEF HeapInv, CallsAreNested
  <2>9. BorrowedIsHeld'
    <3> SUFFICES ASSUME NEW u \in Thread
                 PROVE  /\ Len(pool'[u]) <= MaxPool
                        /\ NoPop(stack'[u]) \/ borrowed[u] = {}
                        /\ \A p \in borrowed[u] : Held(u, p)' # {}
      BY <1>0 DEF BorrowedIsHeld
    <3>0. borrowed[u] \subseteq Object BY DEF ReleaseTypeOK, AR!TypeOK
    <3>1. CASE u = t
      <4>1. borrowed[t] = {} BY <1>2, <2>2 DEF HeapInv, BorrowedIsHeld
      <4>2. Len(pool'[t]) = 0 BY <1>t
      <4> QED BY <3>1, <4>1, <4>2
    <3>2. CASE u # t
      BY <1>2, <1>t, <2>5, <3>0, <3>2 DEF HeapInv, BorrowedIsHeld
    <3> QED BY <3>1, <3>2
  <2>10. ~misused' /\ \A u \in Thread : ~moved'[u]
    BY <1>2, <1>0 DEF HeapInv, ReleaseTypeOK, AR!TypeOK
  <2> QED BY <2>6, <2>7, <2>8, <2>9, <2>10 DEF HeapInv
<1> QED BY <1>1, <1>2

LEMMA PopReleaseStep ==
  ASSUME ReleaseInv, NEW t \in Thread, AR!PopRelease(t), UNCHANGED mishap
  PROVE  ReleaseInv'
<1> USE DEF ReleaseInv
<1> DEFINE i0 == AR!PopIndex(t)
           o == pool[t][i0]
           c == AR!Frame("pop", None, i0 + 1)
           rest == <<c>> \o Tail(stack[t])
<1>0. /\ stack[t] \in Seq(Calls) /\ stack[t] # <<>>
      /\ Head(stack[t]).call = "pop" /\ Head(stack[t]).index = i0
      /\ i0 \in Nat \ {0} /\ i0 <= Len(pool[t])
      /\ UNCHANGED <<field, owned, pool, moved, borrowed>>
      /\ \/ moved[t] /\ misused' = TRUE /\ UNCHANGED <<memory, ref_count, stack>>
         \/ ~moved[t] /\ AR!KObjectRelease(t, o, rest)
  <2>1. moved[t] \in BOOLEAN BY DEF ReleaseTypeOK, AR!TypeOK
  <2> QED BY <2>1, TopCall DEF AR!PopRelease, AR!poolVars
<1>s. /\ c \in Calls /\ c.call = "pop" /\ c.index = i0 + 1
  BY <1>0 DEF AR!Frame, Calls
<1>o. i0 \in DOMAIN pool[t] /\ o \in Object
  BY <1>0 DEF ReleaseTypeOK, AR!TypeOK
<1> HIDE DEF i0, c
<1>t. Tail(stack[t]) \in Seq(Calls) /\ rest \in Seq(Calls)
  BY <1>0, <1>s, CallReturns, CallIsEntered
<1>1. ReleaseTypeOK'
  <2>1. CASE moved[t] BY <1>0, <2>1 DEF ReleaseTypeOK, AR!TypeOK
  <2>2. CASE ~moved[t]
    <3> HIDE DEF rest, o
    <3>1. /\ memory' \in [Object -> {"none", "live", "deinit", "freed"}]
          /\ ref_count' \in [Object -> Int] /\ misused' \in BOOLEAN
          /\ stack' \in [Thread -> Seq(Calls)]
      BY <1>0, <1>o, <1>t, <2>2, ReleaseKeepsTypes
    <3> QED BY <1>0, <3>1 DEF ReleaseTypeOK, AR!TypeOK
  <2> QED BY <2>1, <2>2
<1>2. ASSUME HeapInv PROVE HeapInv'
  <2>1. AR!KObjectRelease(t, o, rest) BY <1>0, <1>2 DEF HeapInv
  <2>2. /\ AtMostOnePop(stack[t]) /\ Deinits(stack[t], Gone)
        /\ PopsUpTo(stack[t], Len(pool[t]) + 1)
    BY <1>2 DEF HeapInv, CallsAreNested
  <2>3. NoPop(Tail(stack[t])) /\ Deinits(Tail(stack[t]), Gone) /\ ~NoPop(stack[t])
    BY <1>0, <2>2, CallReturns
  <2>4. \A n : PopsUpTo(Tail(stack[t]), n) BY <2>3 DEF NoPop, PopsUpTo
  <2>5. \A n : PopsUpTo(stack[t], n) <=> i0 <= n
    BY <1>0, <2>4, CallReturns
  <2>6. /\ AtMostOnePop(rest) /\ ~NoPop(rest) /\ Deinits(rest, Gone)
        /\ \A n : PopsUpTo(rest, n) <=> i0 + 1 <= n
    <3>1. AtMostOnePop(Tail(stack[t])) BY <2>3 DEF NoPop, AtMostOnePop
    <3>2. AtMostOnePop(rest) BY <1>s, <1>t, <2>3, <3>1, CallIsEntered
    <3>3. ~NoPop(rest) BY <1>s, <1>t, CallIsEntered
    <3>4. Deinits(rest, Gone)
      <4>1. c.call # "deinit" BY <1>s
      <4> QED BY <1>s, <1>t, <2>3, <4>1, CallIsEntered
    <3>5. ASSUME NEW n PROVE PopsUpTo(rest, n) <=> i0 + 1 <= n
      <4>1. PopsUpTo(rest, n) <=>
              (c.call = "pop" => c.index <= n) /\ PopsUpTo(Tail(stack[t]), n)
        BY <1>s, <1>t, CallIsEntered
      <4> QED BY <1>s, <2>4, <4>1
    <3> QED BY <3>2, <3>3, <3>4, <3>5
  <2>7. ref_count[o] > 0 /\ \A p \in Object : field'[p] \in {field[p], None}
    <3>1. i0 \in Held(t, o)
      <4>1. i0 <= i0 BY <1>0
      <4> QED BY <1>o, <2>5, <4>1 DEF Held
    <3> QED BY <1>0, <1>2, <1>o, <3>1, ReferencedIsLive
  <2> HIDE DEF rest, o
  <2>8. /\ ~misused' /\ ObjectsLive' /\ Gone \subseteq Gone'
        /\ AtMostOnePop(stack'[t]) /\ Deinits(stack'[t], Gone')
        /\ \A n : PopsUpTo(stack'[t], n) <=> i0 + 1 <= n
    BY <1>2, <1>o, <1>t, <2>1, <2>6, <2>7, ReleaseKeepsObjects
  <2>9. /\ \A u \in Thread \ {t} : stack'[u] = stack[u]
        /\ ref_count' = [ref_count EXCEPT ![o] = @ - 1]
    BY <1>o, <1>t, <2>1, ReleaseKeepsTypes
  <2>10. /\ \A u \in Thread \ {t}, p \in Object : Held(u, p)' = Held(u, p)
         /\ \A p \in Object :
              Cardinality(PlacesOf(p)') = Cardinality(PlacesOf(p)) - One(p, o)
    <3>1. \A u \in Thread \ {t} : SamePops(u) BY <2>9 DEF SamePops
    <3>2. BorrowedIsHeld BY <1>2 DEF HeapInv
    <3> QED BY <1>0, <1>o, <2>5, <2>8, <3>1, <3>2, PlaceGivenBack DEF o
  <2>11. ReferencesAreCounted'
    <3> SUFFICES ASSUME NEW p \in Object
                 PROVE  ref_count'[p] = Cardinality(OwnersOf(p)')
                          + Cardinality(FieldsOf(p)') + Cardinality(PlacesOf(p)')
      BY DEF ReferencesAreCounted
    <3>1. ref_count'[p] = ref_count[p] + 0 + 0 + (0 - One(p, o))
      BY <1>o, <2>9 DEF One, ReleaseTypeOK, AR!TypeOK
    <3>2. OwnersOf(p)' = OwnersOf(p) /\ FieldsOf(p)' = FieldsOf(p)
      BY <1>0 DEF OwnersOf, FieldsOf
    <3>3. /\ Cardinality(OwnersOf(p)') = Cardinality(OwnersOf(p)) + 0
          /\ Cardinality(FieldsOf(p)') = Cardinality(FieldsOf(p)) + 0
          /\ Cardinality(PlacesOf(p)') = Cardinality(PlacesOf(p)) + (0 - One(p, o))
          /\ 0 \in Int /\ 0 - One(p, o) \in Int
      BY <2>10, <3>2, PartsAreFinite DEF One
    <3> QED BY <1>2, <3>1, <3>3, StillCounted
  <2>12. CallsAreNested'
    <3>1. PopsUpTo(stack'[t], Len(pool'[t]) + 1)
      <4>1. Len(pool[t]) \in Nat BY DEF ReleaseTypeOK, AR!TypeOK
      <4>2. i0 + 1 <= Len(pool[t]) + 1 BY <1>0, <4>1
      <4> QED BY <1>0, <2>8, <4>2
    <3>2. ASSUME NEW u \in Thread \ {t}
          PROVE  /\ AtMostOnePop(stack'[u]) /\ Deinits(stack'[u], Gone')
                 /\ PopsUpTo(stack'[u], Len(pool'[u]) + 1)
      BY <1>0, <1>2, <2>8, <2>9 DEF HeapInv, CallsAreNested, Deinits
    <3> QED BY <2>8, <3>1, <3>2 DEF CallsAreNested
  <2>13. BorrowedIsHeld'
    <3>1. borrowed[t] = {} BY <1>2, <2>3 DEF HeapInv, BorrowedIsHeld
    <3>2. \A u \in Thread : borrowed[u] \subseteq Object
      BY DEF ReleaseTypeOK, AR!TypeOK
    <3> QED BY <1>0, <1>2, <2>9, <2>10, <3>1, <3>2 DEF HeapInv, BorrowedIsHeld
  <2> QED BY <1>0, <1>2, <2>8, <2>11, <2>12, <2>13 DEF HeapInv
<1> QED BY <1>1, <1>2

LEMMA ReleaseInvInit == AR!Init => ReleaseInv
<1> SUFFICES ASSUME AR!Init PROVE ReleaseInv OBVIOUS
<1> USE DEF AR!Init, AR!HeapInit
<1>1. ReleaseTypeOK
  <2>1. \A t \in Thread : stack[t] \in Seq(Calls) /\ pool[t] \in Seq(Object)
    OBVIOUS
  <2>2. /\ stack \in [Thread -> Seq(Calls)] /\ pool \in [Thread -> Seq(Object)]
        /\ moved \in [Thread -> BOOLEAN] /\ borrowed \in [Thread -> SUBSET Object]
        /\ owned \in [Thread -> SUBSET Object]
    BY <2>1
  <2>3. /\ memory \in [Object -> {"none", "live", "deinit", "freed"}]
        /\ ref_count \in [Object -> Int] /\ field \in [Object -> Object \cup {None}]
    OBVIOUS
  <2>4. mishap \in AR!Mishap /\ misused \in BOOLEAN OBVIOUS
  <2> QED BY <2>2, <2>3, <2>4 DEF ReleaseTypeOK, AR!TypeOK
<1>2. \A t \in Thread : /\ DOMAIN stack[t] = {} /\ DOMAIN pool[t] = {}
                        /\ Len(pool[t]) = 0
  OBVIOUS
<1>3. CallsAreNested BY <1>2 DEF CallsAreNested, AtMostOnePop, PopsUpTo, Deinits
<1>4. BorrowedIsHeld BY <1>2 DEF BorrowedIsHeld, NoPop
<1>5. ReferencesAreCounted
  <2> SUFFICES ASSUME NEW o \in Object
               PROVE  ref_count[o] = Cardinality(OwnersOf(o))
                        + Cardinality(FieldsOf(o)) + Cardinality(PlacesOf(o))
    BY DEF ReferencesAreCounted
  <2>1. OwnersOf(o) = {} BY DEF OwnersOf
  <2>2. FieldsOf(o) = {} BY DEF FieldsOf
  <2>3. \A t \in Thread : Held(t, o) = {} BY <1>2 DEF Held
  <2>4. PlacesOf(o) = {} BY <2>3 DEF PlacesOf
  <2>5. Cardinality({}) = 0 BY FS_EmptySet
  <2> QED BY <2>1, <2>2, <2>4, <2>5
<1>6. ObjectsLive BY DEF ObjectsLive
<1>7. ~misused /\ \A t \in Thread : ~moved[t] OBVIOUS
<1> QED BY <1>1, <1>3, <1>4, <1>5, <1>6, <1>7 DEF ReleaseInv, HeapInv

LEMMA ReleaseInvStutters ==
  ReleaseInv /\ UNCHANGED <<AR!heapVars, AR!poolVars, mishap>> => ReleaseInv'
<1> SUFFICES ASSUME ReleaseInv, UNCHANGED <<AR!heapVars, AR!poolVars, mishap>>
             PROVE  ReleaseInv'
  OBVIOUS
<1> USE DEF AR!heapVars, AR!poolVars
<1>1. ReleaseTypeOK' = ReleaseTypeOK BY DEF ReleaseTypeOK, AR!TypeOK
<1>2. ReferencesAreCounted' = ReferencesAreCounted
  BY DEF ReferencesAreCounted, OwnersOf, FieldsOf, PlacesOf, Held, PopsUpTo
<1>3. /\ ObjectsLive' = ObjectsLive /\ CallsAreNested' = CallsAreNested
      /\ BorrowedIsHeld' = BorrowedIsHeld
  BY DEF ObjectsLive, CallsAreNested, AtMostOnePop, Deinits, Gone, BorrowedIsHeld,
    NoPop, Held, PopsUpTo
<1>4. misused' = misused /\ moved' = moved /\ mishap' = mishap OBVIOUS
<1> QED BY <1>1, <1>2, <1>3, <1>4 DEF ReleaseInv, HeapInv

LEMMA ReleaseInvStep == ReleaseInv /\ AR!Next => ReleaseInv'
<1> SUFFICES ASSUME ReleaseInv, AR!Next PROVE ReleaseInv' OBVIOUS
<1>1. ASSUME NEW t \in Thread, AR!Program(t), UNCHANGED AR!poolVars,
             UNCHANGED mishap
      PROVE  ReleaseInv'
  <2>1. ASSUME NEW o \in Object, AR!Drop(t, o) PROVE ReleaseInv'
    BY <1>1, <2>1, GiveBackOwnedStep DEF AR!Drop, AR!poolVars
  <2> QED BY <1>1, <2>1, NewObjectStep, GiveStep DEF AR!Program, AR!poolVars
<1>2. ASSUME NEW t \in Thread, AR!Return(t), UNCHANGED mishap
      PROVE  ReleaseInv'
  BY <1>2, DeinitMovesStep, PopReleaseStep, PopReturnsStep, DeinitReleasesStep,
    FreeStep DEF AR!Return, AR!poolVars
<1>3. ASSUME UNCHANGED <<AR!heapVars, AR!poolVars, mishap>> PROVE ReleaseInv'
  BY <1>3, ReleaseInvStutters
<1> QED BY <1>1, <1>2, <1>3, AddObjectStep, MoveStep, PopStep DEF AR!Next

LEMMA ReleaseInvIsSafe ==
  ReleaseInv => LivesWhileReferenced /\ AutoreleasedIsUsable
<1> SUFFICES ASSUME ReleaseInv PROVE LivesWhileReferenced /\ AutoreleasedIsUsable
  OBVIOUS
<1> USE DEF ReleaseInv
<1>1. ASSUME NEW o \in Object
      PROVE  AR!Holders(o) = Cardinality(OwnersOf(o)) + Cardinality(FieldsOf(o))
                               + Cardinality(PlacesOf(o))
  <2>1. \A t \in Thread : AR!Holding(t, o) = Held(t, o)
    BY DEF AR!Holding, Held, PopsUpTo
  <2>2. \A S : AR!Cardinality(S) = Cardinality(S)
    BY DEF AR!Cardinality, Cardinality
  <2>3. {at \in Thread \X (1 .. MaxPool) : at[2] \in AR!Holding(at[1], o)} = PlacesOf(o)
    BY <2>1 DEF PlacesOf
  <2> QED BY <2>2, <2>3 DEF AR!Holders, OwnersOf, FieldsOf
<1>2. LivesWhileReferenced
  <2> SUFFICES ASSUME mishap = "none"
               PROVE  /\ ~misused
                      /\ \A o \in Object :
                           /\ ref_count[o] = AR!Holders(o)
                           /\ memory[o] = "live" <=> AR!Holders(o) > 0
    BY DEF LivesWhileReferenced, AR!LivesWhileReferenced
  <2> QED BY <1>1 DEF HeapInv, ReferencesAreCounted, ObjectsLive
<1>3. AutoreleasedIsUsable
  <2> SUFFICES ASSUME mishap = "none", NEW t \in Thread, NEW o \in borrowed[t]
               PROVE  memory[o] = "live"
    BY DEF AutoreleasedIsUsable, AR!AutoreleasedIsUsable
  <2>1. o \in Object /\ Held(t, o) # {}
    BY DEF HeapInv, BorrowedIsHeld, ReleaseTypeOK, AR!TypeOK
  <2> QED BY <2>1, ReferencedIsLive
<1> QED BY <1>2, <1>3

-----------------------------------------------------------------------------
(* The four of them.                                                       *)

ResourcesInv == ParserInv /\ HandleInv /\ MappingInv /\ ReleaseInv

LEMMA MCNextIsTheirs ==
  [MCNext]_<<part, vars, handleVars, mappingVars, releaseVars>> =>
    [Next]_vars /\ [FH!Next]_(FH!vars) /\ [MP!Next]_(MP!vars) /\ [AR!Next]_(AR!vars)
BY DEF MCNext, handleVars, mappingVars, releaseVars, FH!vars, MP!vars, AR!vars,
  AR!heapVars, AR!poolVars

LEMMA ResourcesInvariant == MCSpec => []ResourcesInv
<1>1. MCInit => ResourcesInv
  BY InitParserInv, HandleInvInit, MappingInvInit, ReleaseInvInit
  DEF MCInit, ResourcesInv
<1>2. ParserInv /\ UNCHANGED vars => ParserInv'
  BY DEF vars, ParserInv, TypeOK, NoEmptyComponent, WholeNames, InOrder, Behind,
    Begun, Covered, In, Absolute, SeparatorAt
<1>3. HandleInv /\ UNCHANGED FH!vars => HandleInv'
  BY DEF FH!vars, HandleInv, FH!TypeOK, HandlesInUse, DescriptorsAreStored,
    NothingIsTaken
<1>4. MappingInv /\ UNCHANGED MP!vars => MappingInv'
  BY DEF MP!vars, MappingInv, MP!TypeOK, FileIsCounted, OfNew, OfMapping,
    MappingPlaces, RegionsAreMapped
<1>5. ReleaseInv /\ UNCHANGED AR!vars => ReleaseInv'
  BY ReleaseInvStutters DEF AR!vars
<1>6. ResourcesInv /\ [MCNext]_<<part, vars, handleVars, mappingVars, releaseVars>>
        => ResourcesInv'
  <2> SUFFICES ASSUME ResourcesInv,
                 [MCNext]_<<part, vars, handleVars, mappingVars, releaseVars>>
               PROVE  ResourcesInv'
    OBVIOUS
  <2>1. ParserInv' BY <1>2, MCNextIsTheirs, NextParserInv DEF ResourcesInv
  <2>2. HandleInv' BY <1>3, MCNextIsTheirs, HandleInvStep DEF ResourcesInv
  <2>3. MappingInv' BY <1>4, MCNextIsTheirs, MappingInvStep DEF ResourcesInv
  <2>4. ReleaseInv' BY <1>5, MCNextIsTheirs, ReleaseInvStep DEF ResourcesInv
  <2> QED BY <2>1, <2>2, <2>3, <2>4 DEF ResourcesInv
<1> QED BY <1>1, <1>6, PTL DEF MCSpec

(* Type correctness; in particular no count of references of a handle or   *)
(* of a mapping ever goes below zero.                                      *)
THEOREM ResourcesTypeCorrect == MCSpec => []MCTypeOK
<1>1. ResourcesInv => MCTypeOK
  BY DEF ResourcesInv, ParserInv, HandleInv, MappingInv, ReleaseInv,
    ReleaseTypeOK, MCTypeOK
<1> QED BY ResourcesInvariant, <1>1, PTL

(* However often a handle is closed, and whatever descriptors the rest of  *)
(* the process gets in between, KFileHandleClose closes its own, unless    *)
(* close(2) fails, and leaves none behind.                                 *)
THEOREM HandlesCloseTheirOwn == MCSpec => []DescriptorsMatchHandles
<1>1. ResourcesInv => DescriptorsMatchHandles
  BY HandleInvIsSafe DEF ResourcesInv
<1> QED BY ResourcesInvariant, <1>1, PTL

(* A file stays mapped exactly while somebody has a reference on the       *)
(* KMapping or on its user_data.                                           *)
THEOREM MappingsAreUnmappedOnce == MCSpec => []MappedExactlyWhileReferenced
<1>1. ResourcesInv => MappedExactlyWhileReferenced
  BY MappingInvIsSafe DEF ResourcesInv
<1> QED BY ResourcesInvariant, <1>1, PTL

(* Of objects, fields and autorelease pools of any number, on any threads: *)
(* the count of each object is the number of references on it, also while  *)
(* a pool is popped and its deinitializers add to it.                      *)
THEOREM ObjectsLiveWhileReferenced == MCSpec => []LivesWhileReferenced
<1>1. ResourcesInv => LivesWhileReferenced
  BY ReleaseInvIsSafe DEF ResourcesInv
<1> QED BY ResourcesInvariant, <1>1, PTL

(* What KAutoreleaseMove returns is usable until its thread pops the pool. *)
THEOREM AutoreleasedLivesUntilPop == MCSpec => []AutoreleasedIsUsable
<1>1. ResourcesInv => AutoreleasedIsUsable
  BY ReleaseInvIsSafe DEF ResourcesInv
<1> QED BY ResourcesInvariant, <1>1, PTL

=============================================================================
