---------------------------- MODULE KFileHandle ----------------------------
(***************************************************************************)
(* File handles of kfile_handle.c over the table of descriptors that they  *)
(* share with the rest of the process.  Others are the rest: they open and *)
(* close descriptors of their own.  A handle is used by one thread at a    *)
(* time, and different handles by different threads.                       *)
(*                                                                         *)
(* The table is the one of Linux: close releases the descriptor also when  *)
(* it fails, be it with EINTR or for another reason.                       *)
(***************************************************************************)
EXTENDS Integers, FiniteSets

CONSTANTS Handle, Other,
          Fd,          \* the descriptors
          CloseErrors, \* what close may fail with
          MaxRefs,     \* bound: references on one handle
          None

HandleAssumption ==
  /\ Handle \cap Other = {}
  /\ None \notin Handle \cup Other \cup Fd
  /\ MaxRefs \in Nat \ {0}
  /\ CloseErrors \subseteq {"EINTR", "EIO"}

VARIABLES errors,    \* those it may fail with in this behaviour
          table,     \* who a descriptor was opened for, or None
          mine,      \* the descriptor each of the others believes it has
          handle,    \* handle->handle
          closed,    \* handle->closed
          refs,      \* ref_count
          pc,        \* of the thread that uses the handle
          answer,    \* the last result of KFileHandleClose
          aborted    \* an assertion has ended the process

vars == <<errors, table, mine, handle, closed, refs, pc, answer, aborted>>

Goto(h, label) == pc' = [pc EXCEPT ![h] = label]

Init ==
  /\ errors \in SUBSET CloseErrors
  /\ table = [f \in Fd |-> None]
  /\ mine = [o \in Other |-> None]
  /\ handle = [h \in Handle |-> None]
  /\ closed = [h \in Handle |-> FALSE]
  /\ refs = [h \in Handle |-> 0]
  /\ pc = [h \in Handle |-> "new"]
  /\ answer = [h \in Handle |-> "none"]
  /\ aborted = FALSE

-----------------------------------------------------------------------------
(* KFileHandleNew, when open succeeds.                                     *)
New(h, f) ==
  /\ pc[h] = "new" /\ table[f] = None
  /\ table' = [table EXCEPT ![f] = h]
  /\ handle' = [handle EXCEPT ![h] = f]
  /\ refs' = [refs EXCEPT ![h] = 1]
  /\ Goto(h, "idle")
  /\ UNCHANGED <<mine, closed, answer, aborted>>

Retain(h) ==
  /\ pc[h] = "idle" /\ refs[h] < MaxRefs
  /\ refs' = [refs EXCEPT ![h] = @ + 1]
  /\ UNCHANGED <<table, mine, handle, closed, pc, answer, aborted>>

(* KFileHandleClose by the program.                                        *)
Close(h) ==
  /\ pc[h] = "idle"
  /\ Goto(h, "close")
  /\ UNCHANGED <<table, mine, handle, closed, refs, answer, aborted>>

(* The last release calls KFileHandleClose in KFileHandleDeInit.           *)
LastReference(h) == refs[h] = 1

Release(h) ==
  /\ pc[h] = "idle"
  /\ refs' = [refs EXCEPT ![h] = @ - 1]
  /\ IF LastReference(h) THEN Goto(h, "close") ELSE UNCHANGED pc
  /\ UNCHANGED <<table, mine, handle, closed, answer, aborted>>

-----------------------------------------------------------------------------
(* KFileHandleClose.  In KFileHandleDeInit, where there is no reference    *)
(* left, its result is asserted and the object is freed.                   *)

CloseReturns(h, ok) ==
  /\ answer' = [answer EXCEPT ![h] = IF ok THEN "true" ELSE "false"]
  /\ aborted' = (refs[h] = 0 /\ ~ok)
  /\ Goto(h, IF refs[h] > 0 THEN "idle" ELSE IF ok THEN "freed" ELSE "aborted")

NeverClosed(h) == FALSE
AlreadyClosed(h) == closed[h]

CloseAgain(h) ==
  /\ pc[h] = "close" /\ AlreadyClosed(h)
  /\ CloseReturns(h, TRUE)
  /\ UNCHANGED <<table, mine, handle, closed, refs>>

Call(h) == pc[h] = "close" /\ ~AlreadyClosed(h)

(* close(2), whomever the descriptor belongs to.                           *)
CloseDescriptor(h) == table' = [table EXCEPT ![handle[h]] = None]

SetClosed(h) == closed' = [closed EXCEPT ![h] = TRUE]

CloseSucceeds(h) ==
  /\ Call(h) /\ table[handle[h]] # None
  /\ CloseDescriptor(h)
  /\ SetClosed(h)
  /\ CloseReturns(h, TRUE)
  /\ UNCHANGED <<mine, handle, refs>>

(* K_HANDLE_EINTR calls close once more, with the same descriptor.         *)
CloseInterrupted(h) ==
  /\ "EINTR" \in errors
  /\ Call(h) /\ table[handle[h]] # None
  /\ CloseDescriptor(h)
  /\ UNCHANGED <<mine, handle, closed, refs, pc, answer, aborted>>

CloseFails(h) ==
  /\ "EIO" \in errors
  /\ Call(h) /\ table[handle[h]] # None
  /\ CloseDescriptor(h)
  /\ CloseReturns(h, FALSE)
  /\ UNCHANGED <<mine, handle, closed, refs>>

(* EBADF: nobody has the descriptor any more.                              *)
CloseBadDescriptor(h) ==
  /\ Call(h) /\ table[handle[h]] = None
  /\ CloseReturns(h, FALSE)
  /\ UNCHANGED <<table, mine, handle, closed, refs>>

-----------------------------------------------------------------------------
(* The rest of the process.                                                *)

OtherOpens(o, f) ==
  /\ mine[o] = None /\ table[f] = None
  /\ mine' = [mine EXCEPT ![o] = f]
  /\ table' = [table EXCEPT ![f] = o]
  /\ UNCHANGED <<handle, closed, refs, pc, answer, aborted>>

OtherCloses(o) ==
  /\ mine[o] # None
  /\ mine' = [mine EXCEPT ![o] = None]
  /\ table' = [table EXCEPT ![mine[o]] = None]
  /\ UNCHANGED <<handle, closed, refs, pc, answer, aborted>>

HandleStep(h) ==
  \/ \E f \in Fd : New(h, f)
  \/ Retain(h) \/ Release(h) \/ Close(h)
  \/ CloseAgain(h) \/ CloseSucceeds(h) \/ CloseInterrupted(h)
  \/ CloseFails(h) \/ CloseBadDescriptor(h)

Next ==
  /\ \/ /\ ~aborted
        /\ \/ \E h \in Handle : HandleStep(h)
           \/ \E o \in Other : OtherCloses(o) \/ \E f \in Fd : OtherOpens(o, f)
     \/ aborted /\ UNCHANGED vars
  /\ UNCHANGED errors

Spec == Init /\ [][Next]_vars

-----------------------------------------------------------------------------
(* Properties.                                                             *)

(* Every variable has its type.                                            *)
TypeOK ==
  /\ errors \subseteq CloseErrors
  /\ table \in [Fd -> Handle \cup Other \cup {None}]
  /\ mine \in [Other -> Fd \cup {None}]
  /\ handle \in [Handle -> Fd \cup {None}]
  /\ closed \in [Handle -> BOOLEAN]
  /\ refs \in [Handle -> 0 .. MaxRefs]
  /\ pc \in [Handle -> {"new", "idle", "close", "freed", "aborted"}]
  /\ answer \in [Handle -> {"none", "true", "false"}]
  /\ aborted \in BOOLEAN

(* KFileHandleGetSize and KFileHandleNewMapping go on to use it.           *)
Usable(h) == pc[h] = "idle" /\ ~closed[h]

(* No handle closes a descriptor that is not its own, however often it is  *)
(* closed: what the others opened stays open until they close it, and a    *)
(* handle that is in use and was not closed has its descriptor.  Not so    *)
(* when close fails, after which it is called again.                       *)
DescriptorsKeepTheirOwner ==
  errors = {} =>
    /\ \A o \in Other : mine[o] # None => table[mine[o]] = o
    /\ \A h \in Handle : Usable(h) => table[handle[h]] = h

(* No descriptor outlives the handle it was opened for, nor a successful   *)
(* KFileHandleClose, also when close has been interrupted or has failed.   *)
DescriptorsAreReturned ==
  \A h \in Handle :
    pc[h] = "freed" \/ answer[h] = "true" => \A f \in Fd : table[f] # h

(* Handles and descriptors stay in step.                                   *)
DescriptorsMatchHandles == DescriptorsKeepTheirOwner /\ DescriptorsAreReturned

(* K_ASSERT(KFileHandleClose(handle)) of KFileHandleDeInit.                *)
DeInitAssertion == ~aborted

=============================================================================
