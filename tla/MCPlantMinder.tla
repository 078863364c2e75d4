---------------------------- MODULE MCPlantMinder ----------------------------
(* Small instances of PlantMinder and NodeHistory for TLC. *)
EXTENDS NodeHistory, TLC

CONSTANTS e1, e2, i1, i2, i3

\* A node that changes its address, and one that does not.
TwoOwners == (i1 :> e1) @@ (i2 :> e1) @@ (i3 :> e2)

OneOwner == (i1 :> e1) @@ (i2 :> e1)

OneAddress == i1 :> e1

\* The addresses of the first node are only ever compared.
AddressSymmetry == Permutations({i1, i2})

=============================================================================
