--------------------------- MODULE MCPlantDatabase ---------------------------
(* Small instances of PlantDatabase for TLC. *)
EXTENDS PlantDatabase, TLC

CONSTANTS e1, e2, a1, a2, a3

\* A node that changes its address, and one that does not.
TwoOwners == (a1 :> e1) @@ (a2 :> e1) @@ (a3 :> e2)

=============================================================================
