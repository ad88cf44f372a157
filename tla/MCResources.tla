---------------------------- MODULE MCResources ----------------------------
(* KFilePath, KFileHandle, KMapping and KAutorelease for TLC, one in each  *)
(* behaviour: a handle keeps nothing of its path, nor a mapping of its     *)
(* handle.                                                                 *)
EXTENDS MCKFilePath

CONSTANTS Handle, Other, Fd, CloseErrors, Mapping, Region, MaxRefs, None,
          Object, Thread, MaxPool

VARIABLES part,   \* the one that is used
          errors, table, mine, handle, closed, refs, pc, answer, aborted,
          windows, region, theirs, section, address, mappingPC, file,
          fileRefs, mappingRefs, kept,
          memory, ref_count, field, owned, stack, misused,
          mishap, pool, moved, borrowed

FH == INSTANCE KFileHandle
MP == INSTANCE KMapping WITH
        mine <- theirs, pc <- mappingPC, refs <- mappingRefs
AR == INSTANCE KAutorelease

ASSUME ResourcesAssumption ==
  FH!HandleAssumption /\ MP!MappingAssumption /\ AR!ReleaseAssumption

handleVars ==
  <<errors, table, mine, handle, closed, refs, pc, answer, aborted>>
mappingVars == <<windows, region, theirs, section, address, mappingPC, file,
                 fileRefs, mappingRefs, kept>>
releaseVars == <<memory, ref_count, field, owned, stack, misused,
                 mishap, pool, moved, borrowed>>

MCInit ==
  /\ Init /\ FH!Init /\ MP!Init /\ AR!Init
  /\ part \in {"path", "handle", "mapping", "pool"}
  /\ part = "path" \/ str = <<>>
  /\ part = "handle" \/ errors = {}
  /\ part = "mapping" \/ ~windows
  /\ part = "pool" \/ mishap = "none"

MCNext ==
  /\ \/ part = "path" /\ Next
        /\ UNCHANGED <<handleVars, mappingVars, releaseVars>>
     \/ part = "handle" /\ FH!Next
        /\ UNCHANGED <<vars, mappingVars, releaseVars>>
     \/ part = "mapping" /\ MP!Next
        /\ UNCHANGED <<vars, handleVars, releaseVars>>
     \/ part = "pool" /\ AR!Next
        /\ UNCHANGED <<vars, handleVars, mappingVars>>
  /\ UNCHANGED part

MCSpec ==
  MCInit /\ [][MCNext]_<<part, vars, handleVars, mappingVars, releaseVars>>

(* The variables of the four have their types.                             *)
MCTypeOK == TypeOK /\ FH!TypeOK /\ MP!TypeOK /\ AR!TypeOK

(* Nobody closes a descriptor of somebody else, unless close fails, and    *)
(* none is leaked by a handle that was closed or collected.                *)
DescriptorsMatchHandles == FH!DescriptorsMatchHandles

(* A file is mapped as long as somebody has a reference, and no longer.    *)
MappedExactlyWhileReferenced == MP!MappedExactlyWhileReferenced

(* An object lives exactly as long as somebody has a reference on it.      *)
LivesWhileReferenced == AR!LivesWhileReferenced

(* What was autoreleased can be used until the pool is popped.             *)
AutoreleasedIsUsable == AR!AutoreleasedIsUsable

=============================================================================
