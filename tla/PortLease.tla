------------------------------ MODULE PortLease ------------------------------
(***************************************************************************)
(* What the broker promises about its receive ports (pmind-broker/src/     *)
(* lib.rs, "a 1:1 mapping where each active node gets it's own port"): a   *)
(* port is free, held for one registration in progress, or leased to one   *)
(* node; a node leases at most one port; and a port changes hands only by  *)
(* way of the pool.                                                        *)
(***************************************************************************)
CONSTANTS
    Pool,   \* the ports
    Node,   \* the nodes that may lease one
    Free,   \* holder of a port nobody has
    Held    \* holder of the port a registration in progress has

VARIABLE holder   \* who has each port

LeaseTypeOK == holder \in [Pool -> Node \cup {Free, Held}]

LeaseInit == holder = [p \in Pool |-> Free]

\* One registration is in progress at a time.
Reserve(p) ==
    /\ holder[p] = Free
    /\ \A q \in Pool : holder[q] # Held
    /\ holder' = [holder EXCEPT ![p] = Held]

Release(p) ==
    /\ holder[p] = Held
    /\ holder' = [holder EXCEPT ![p] = Free]

Grant(p, n) ==
    /\ holder[p] = Held
    /\ \A q \in Pool : holder[q] # n
    /\ holder' = [holder EXCEPT ![p] = n]

Evict(S) ==
    /\ \A p \in S : holder[p] \in Node
    /\ holder' = [p \in Pool |-> IF p \in S THEN Free ELSE holder[p]]

LeaseNext ==
    \/ \E p \in Pool : Reserve(p) \/ Release(p)
    \/ \E p \in Pool, n \in Node : Grant(p, n)
    \/ \E S \in SUBSET Pool : Evict(S)

LeaseSpec == LeaseInit /\ [][LeaseNext]_holder

=============================================================================
