---------------------------- MODULE MCPrimitives ----------------------------
(* KCountdownLatch, KThread and KSemaphore for TLC, one in each behaviour: *)
(* they have no state in common.                                           *)
EXTENDS KCountdownLatch

CONSTANTS Holder, Creator, Joiner, Self, Host,       \* of KThread
          User, Stranger, Platform, Permits, MaxExtra  \* of KSemaphore

VARIABLES component,   \* the one that is used
          threadPC, refs, owners, collector, freed, is_joined, is_valid, called,
          platform, semPC, permits, told, extra, refused

T == INSTANCE KThread WITH Platform <- Host, pc <- threadPC
S == INSTANCE KSemaphore WITH
       InitialCount <- Permits, pc <- semPC, count <- permits

ASSUME PrimitivesAssumption == T!ThreadAssumption /\ S!SemaphoreAssumption

threadVars ==
  <<threadPC, refs, owners, collector, freed, is_joined, is_valid, called>>
semVars == <<platform, semPC, permits, told, extra, refused>>

MCInit ==
  /\ component \in {"latch", "thread", "semaphore"}
  /\ Init /\ T!Init /\ S!Init
  /\ component = "semaphore" \/ platform = "linux"

MCNext ==
  /\ \/ component = "latch" /\ Next /\ UNCHANGED <<threadVars, semVars>>
     \/ component = "thread" /\ T!Next /\ UNCHANGED <<vars, semVars>>
     \/ component = "semaphore" /\ S!Next /\ UNCHANGED <<vars, threadVars>>
  /\ UNCHANGED component

(* Nothing of the fairness of the components that are not used is enabled. *)
MCSpec ==
  /\ MCInit /\ [][MCNext]_<<component, vars, threadVars, semVars>>
  /\ Fairness /\ T!Fairness /\ S!Fairness

(* The variables of the three have their types.                            *)
MCTypeOK == TypeOK /\ T!TypeOK /\ S!TypeOK

(* A thread object is not used after it was freed.                         *)
NoUseAfterFree == T!NoUseAfterFree

(* KThreadJoin returns when the thread has ended.                          *)
JoinedMeansEnded == T!JoinedMeansEnded

(* The procedure of a thread is called.                                    *)
ProcIsInvoked == T!ProcIsInvoked

(* KThreadJoin returns.                                                    *)
JoinReturns == T!JoinReturns

(* Permits are neither lost nor made.                                      *)
Conserved == S!Conserved

(* Somebody is served as long as somebody waits.                           *)
NotStuck == S!NotStuck

=============================================================================
