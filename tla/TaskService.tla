------------------------------ MODULE TaskService ------------------------------
(***************************************************************************)
(* What the worker pool promises its clients, with no threads, locks,      *)
(* wakeups or reference counts: tasks are started first come, first        *)
(* served, at most Capacity of them run at once, and the service is only   *)
(* collected after it was stopped and when nothing runs.  Tasks that wait  *)
(* at that moment are discarded.                                           *)
(***************************************************************************)
EXTENDS Integers, Sequences, FiniteSets, Functions

CONSTANTS Task, Capacity

VARIABLES phase,      \* "running", "stopped" or "collected"
          queue,      \* tasks that wait, in order of submission
          active,     \* tasks that run
          finished,   \* tasks that ran to the end
          discarded   \* tasks released without having run

serviceVars == <<phase, queue, active, finished, discarded>>

Known == Range(queue) \cup active \cup finished \cup discarded

Init ==
  /\ phase = "running"
  /\ queue = <<>>
  /\ active = {} /\ finished = {} /\ discarded = {}

Submit(k) ==
  /\ phase # "collected"
  /\ k \notin Known
  /\ queue' = Append(queue, k)
  /\ UNCHANGED <<phase, active, finished, discarded>>

Start ==
  /\ phase # "collected"
  /\ queue # <<>>
  /\ Cardinality(active) < Capacity
  /\ queue' = Tail(queue)
  /\ active' = active \cup {Head(queue)}
  /\ UNCHANGED <<phase, finished, discarded>>

Finish(k) ==
  /\ k \in active
  /\ active' = active \ {k}
  /\ finished' = finished \cup {k}
  /\ UNCHANGED <<phase, queue, discarded>>

Stop ==
  /\ phase = "running"
  /\ phase' = "stopped"
  /\ UNCHANGED <<queue, active, finished, discarded>>

Collect ==
  /\ phase = "stopped"
  /\ active = {}
  /\ phase' = "collected"
  /\ queue' = <<>>
  /\ discarded' = discarded \cup Range(queue)
  /\ UNCHANGED <<active, finished>>

Next == Start \/ Stop \/ Collect \/ \E k \in Task : Submit(k) \/ Finish(k)

Spec == Init /\ [][Next]_serviceVars

=============================================================================
