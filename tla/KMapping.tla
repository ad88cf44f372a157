------------------------------ MODULE KMapping ------------------------------
(***************************************************************************)
(* The mappings of kmapping.c and the file mappings of kfile_handle.c that *)
(* they keep as user_data: who drops the last reference on the latter      *)
(* unmaps the file.  Addresses are shared with the rest of the process:    *)
(* Others map and unmap memory of their own.                               *)
(***************************************************************************)
EXTENDS Integers

CONSTANTS Mapping, Other,
          Region,     \* where something can be mapped
          MaxRefs,    \* bound: references of one kind that a program takes
          None

MappingAssumption ==
  /\ Mapping \cap Other = {}
  /\ None \notin Mapping \cup Other \cup Region
  /\ MaxRefs \in Nat \ {0}

VARIABLES windows,    \* the platform; the other one is POSIX
          region,     \* who each region is mapped for, or None
          mine,       \* the region each of the others believes it has
          section,    \* map_handle is open (Windows)
          address,    \* file_mapping->mapping
          pc,         \* of KFileHandleNewMapping, then of the KMapping
          file,       \* the __KFileMapping: "none", "valid", "unmap", ...
          fileRefs,   \* its ref_count
          refs,       \* the program's references on the KMapping
          kept        \* the program's references on its user_data

table == <<region, mine>>
vars == <<windows, table, section, address, pc, file, fileRefs, refs, kept>>

Goto(m, label) == pc' = [pc EXCEPT ![m] = label]

Init ==
  /\ windows \in BOOLEAN
  /\ region = [r \in Region |-> None]
  /\ mine = [o \in Other |-> None]
  /\ section = [m \in Mapping |-> FALSE]
  /\ address = [m \in Mapping |-> None]
  /\ pc = [m \in Mapping |-> "new"]
  /\ file = [m \in Mapping |-> "none"]
  /\ fileRefs = [m \in Mapping |-> 0]
  /\ refs = [m \in Mapping |-> 0]
  /\ kept = [m \in Mapping |-> 0]

(* __KFileMappingRelease.                                                  *)
ReleaseFile(m) ==
  /\ fileRefs' = [fileRefs EXCEPT ![m] = @ - 1]
  /\ file' = IF fileRefs[m] = 1 THEN [file EXCEPT ![m] = "unmap"] ELSE file

-----------------------------------------------------------------------------
(* KFileHandleNewMapping.  Windows needs a section object first; the file  *)
(* may have been closed, and either call may fail.                         *)

CreateFileMapping(m) ==
  /\ windows /\ pc[m] = "new"
  /\ section' = [section EXCEPT ![m] = TRUE]
  /\ Goto(m, "section")
  /\ UNCHANGED <<table, address, file, fileRefs, refs, kept>>

CloseSection(m) == section' = [section EXCEPT ![m] = FALSE]

NewFails(m) ==
  /\ pc[m] \in {"new", "section"}
  /\ IF pc[m] = "section" THEN CloseSection(m) ELSE UNCHANGED section
  /\ Goto(m, "gone")
  /\ UNCHANGED <<table, address, file, fileRefs, refs, kept>>

MapFile(m, r) ==
  /\ pc[m] = IF windows THEN "section" ELSE "new"
  /\ region[r] = None
  /\ region' = [region EXCEPT ![r] = m]
  /\ address' = [address EXCEPT ![m] = r]
  /\ file' = [file EXCEPT ![m] = "valid"]
  /\ fileRefs' = [fileRefs EXCEPT ![m] = 1]
  /\ Goto(m, "wrap")
  /\ UNCHANGED <<mine, section, refs, kept>>

(* KMappingNew, when there is memory for it.                               *)
BorrowUserData(m) == fileRefs' = fileRefs
RetainUserData(m) == fileRefs' = [fileRefs EXCEPT ![m] = @ + 1]

KMappingNew(m) ==
  /\ pc[m] = "wrap"
  /\ \/ RetainUserData(m) /\ refs' = [refs EXCEPT ![m] = 1]
     \/ UNCHANGED <<fileRefs, refs>>
  /\ Goto(m, "hand_over")
  /\ UNCHANGED <<table, section, address, file, kept>>

HandOver(m) ==
  /\ pc[m] = "hand_over"
  /\ ReleaseFile(m)
  /\ Goto(m, IF refs[m] = 0 THEN "gone" ELSE "live")
  /\ UNCHANGED <<table, section, address, refs, kept>>

-----------------------------------------------------------------------------
(* The program: references on the mapping, and on the object that it gets  *)
(* from KMappingGetUserData.                                               *)

Retain(m) ==
  /\ pc[m] = "live" /\ refs[m] \in 1 .. MaxRefs - 1
  /\ refs' = [refs EXCEPT ![m] = @ + 1]
  /\ UNCHANGED <<table, section, address, pc, file, fileRefs, kept>>

Release(m) ==
  /\ pc[m] = "live" /\ refs[m] > 0
  /\ refs' = [refs EXCEPT ![m] = @ - 1]
  /\ Goto(m, IF refs[m] = 1 THEN "deinit" ELSE "live")
  /\ UNCHANGED <<table, section, address, file, fileRefs, kept>>

KMappingDeInit(m) ==
  /\ pc[m] = "deinit"
  /\ ReleaseFile(m)
  /\ Goto(m, "gone")
  /\ UNCHANGED <<table, section, address, refs, kept>>

KeepUserData(m) ==
  /\ refs[m] > 0 /\ pc[m] = "live" /\ kept[m] < MaxRefs
  /\ kept' = [kept EXCEPT ![m] = @ + 1]
  /\ fileRefs' = [fileRefs EXCEPT ![m] = @ + 1]
  /\ UNCHANGED <<table, section, address, pc, file, refs>>

DropUserData(m) ==
  /\ kept[m] > 0
  /\ kept' = [kept EXCEPT ![m] = @ - 1]
  /\ ReleaseFile(m)
  /\ UNCHANGED <<table, section, address, pc, refs>>

-----------------------------------------------------------------------------
(* __KFileMappingDeInit: whatever is at the address is unmapped.           *)

Unmap(m) ==
  /\ file[m] = "unmap"
  /\ region' = [region EXCEPT ![address[m]] = None]
  /\ file' = [file EXCEPT ![m] = IF windows THEN "close" ELSE "freed"]
  /\ UNCHANGED <<mine, section, address, pc, fileRefs, refs, kept>>

CloseHandle(m) ==
  /\ file[m] = "close"
  /\ CloseSection(m)
  /\ file' = [file EXCEPT ![m] = "freed"]
  /\ UNCHANGED <<table, address, pc, fileRefs, refs, kept>>

OtherMaps(o, r) ==
  /\ mine[o] = None /\ region[r] = None
  /\ region' = [region EXCEPT ![r] = o]
  /\ mine' = [mine EXCEPT ![o] = r]
  /\ UNCHANGED <<section, address, pc, file, fileRefs, refs, kept>>

OtherUnmaps(o) ==
  /\ mine[o] # None
  /\ region' = [region EXCEPT ![mine[o]] = None]
  /\ mine' = [mine EXCEPT ![o] = None]
  /\ UNCHANGED <<section, address, pc, file, fileRefs, refs, kept>>

Step(m) ==
  \/ CreateFileMapping(m) \/ NewFails(m) \/ \E r \in Region : MapFile(m, r)
  \/ KMappingNew(m) \/ HandOver(m)
  \/ Retain(m) \/ Release(m) \/ KMappingDeInit(m)
  \/ KeepUserData(m) \/ DropUserData(m) \/ Unmap(m) \/ CloseHandle(m)

Next ==
  /\ \/ \E m \in Mapping : Step(m)
     \/ \E o \in Other : OtherUnmaps(o) \/ \E r \in Region : OtherMaps(o, r)
  /\ UNCHANGED windows

Spec == Init /\ [][Next]_vars

-----------------------------------------------------------------------------
(* Properties.                                                             *)

(* Every variable has its type.                                            *)
TypeOK ==
  /\ windows \in BOOLEAN
  /\ region \in [Region -> Mapping \cup Other \cup {None}]
  /\ mine \in [Other -> Region \cup {None}]
  /\ section \in [Mapping -> BOOLEAN]
  /\ address \in [Mapping -> Region \cup {None}]
  /\ pc \in [Mapping -> {"new", "section", "wrap", "hand_over", "live",
                         "deinit", "gone"}]
  /\ file \in [Mapping -> {"none", "valid", "unmap", "close", "freed"}]
  /\ fileRefs \in [Mapping -> Nat]
  /\ refs \in [Mapping -> 0 .. MaxRefs]
  /\ kept \in [Mapping -> 0 .. MaxRefs]

Referenced(m) == refs[m] > 0 \/ kept[m] > 0
InLibrary(m) == pc[m] \notin {"new", "live", "gone"} \/ file[m] \in {"unmap", "close"}

(* The file stays mapped for who has a reference on the mapping or on its  *)
(* user_data, whichever is dropped first and by whom; afterwards, and when *)
(* the mapping could not be made, neither the region nor the section       *)
(* object is left, and no region of somebody else has been unmapped.       *)
MappedExactlyWhileReferenced ==
  /\ \A m \in Mapping :
       /\ Referenced(m) => region[address[m]] = m
       /\ ~Referenced(m) /\ ~InLibrary(m) =>
            ~section[m] /\ \A r \in Region : region[r] # m
  /\ \A o \in Other : mine[o] # None => region[mine[o]] = o

=============================================================================
