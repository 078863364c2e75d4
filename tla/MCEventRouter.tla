---------------------------- MODULE MCEventRouter ----------------------------
(* Small instances of EventRouter for TLC. *)
EXTENDS EventRouter, TLC

CONSTANTS d1, d2, h1, h2, r1, r2

\* Two nodes, of one address each.
TwoNodes == (h1 :> d1) @@ (h2 :> d2)

\* One node with a second address to restart with, or without.
OneNode == (h1 :> d1) @@ (h2 :> d1)
OneHost == (h1 :> d1)

\* Locators are only ever compared; so are the two addresses of one node.
OneNodeSymmetry == Permutations(Rloc) \cup Permutations(Host)

=============================================================================
