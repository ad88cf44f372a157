---------------------------- MODULE MCKWorkerPool ----------------------------
(* Instances of KWorkerPool for TLC.                                       *)
EXTENDS KWorkerPool, TLC

(* The tasks are interchangeable, and so are the workers.                  *)
TaskAndWorkerSymmetry == Permutations(Task) \cup Permutations(Worker)

=============================================================================
