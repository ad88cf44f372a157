------------------------------- MODULE MCKMap -------------------------------
(* KMap for TLC: keys k3 and k4 are equal, and the hashes of the names     *)
(* collide in a small map but not in a larger one.                         *)
EXTENDS KMap

CONSTANTS k1, k2, k3, k4, n1, n2, n3

MCIdent == (k1 :> n1) @@ (k2 :> n2) @@ (k3 :> n3) @@ (k4 :> n3)
MCHash == (n1 :> 0) @@ (n2 :> 2) @@ (n3 :> 5)

=============================================================================
