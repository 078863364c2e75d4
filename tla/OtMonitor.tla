------------------------------ MODULE OtMonitor ------------------------------
(***************************************************************************)
(* The OtMonitor actor (pmind-broker/src/monitor.rs): the registered nodes *)
(* by receive port, the pool of free ports, and the OMR address it filters *)
(* the child table with.  One action per message the actor handles; a      *)
(* handler runs to completion, so each is one step.  The EventRouter task  *)
(* is the actor's only client and waits for every answer.                  *)
(***************************************************************************)
EXTENDS Mesh

CONSTANTS
    Base,      \* first port of the pool (1213 in the code)
    PoolSize,  \* number of ports in the pool (100 in the code)
    Loopback   \* the address used until the OMR address is known

ASSUME MonitorAssumption ==
    /\ Base \in Nat
    /\ PoolSize \in Nat \ {0}
    /\ Base + PoolSize <= 65535          \* checked by Ports::new
    /\ Loopback \notin Prefix

VARIABLES
    nodes,  \* receive port -> routing locator and address registered there
    free,   \* the ports marked free to use
    addr    \* first segment of the OMR address, or Loopback

monitorVars == <<nodes, free, addr>>

Pool == Base .. (Base + PoolSize - 1)

MonitorTypeOK ==
    /\ DOMAIN nodes \subseteq Nat
    /\ nodes \in [DOMAIN nodes -> Row]
    /\ free \subseteq Nat
    /\ addr \in Prefix \cup {Loopback}

\* OtMonitor::new: get_omr_ip answers or fails.
MonitorInit ==
    /\ nodes = [p \in {} |-> {}]
    /\ free = Pool
    /\ addr \in {omr, Loopback}

-----------------------------------------------------------------------------

\* get_nodes: the rows of the child table in the scope of addr.
ActiveNodes == {row \in children : row.ip.prefix = addr}

RegisteredNodes == {nodes[p] : p \in DOMAIN nodes}

\* Mutant: the answer holds the registered nodes too.
NewNodesUnfiltered == ActiveNodes

\* Mutant: a node is known by its locator.
NewNodesByRloc ==
    {row \in ActiveNodes : \A known \in RegisteredNodes : known.rloc # row.rloc}

\* CheckNewNode answers with the active nodes that are not registered.
NewNodes == ActiveNodes \ RegisteredNodes

\* Mutant: the port is handed out and stays in the set.
PeekFreePort(p) ==
    /\ p \in free
    /\ UNCHANGED monitorVars

\* ReserveFreePort: some port of the free set is taken out of it.
ReserveFreePort(p) ==
    /\ p \in free
    /\ free' = free \ {p}
    /\ UNCHANGED <<nodes, addr>>

\* ReserveFreePort answers with an error.
NoFreePort ==
    /\ free = {}
    /\ UNCHANGED monitorVars

\* ReturnFreePort: any port is put in the set, whether it came from it or not.
ReturnFreePort(p) ==
    /\ free' = free \cup {p}
    /\ UNCHANGED <<nodes, addr>>

\* InternalRegistration: an entry of the same port is replaced.
RegisterNode(p, row) ==
    /\ nodes' = [q \in DOMAIN nodes \cup {p} |-> IF q = p THEN row ELSE nodes[q]]
    /\ UNCHANGED <<free, addr>>

\* Mutant: a node counts as active when its locator is still in use.
MissingByRloc ==
    {p \in DOMAIN nodes : \A row \in ActiveNodes : row.rloc # nodes[p].rloc}

\* The ports whose node is not active any more.
MissingNodes == {p \in DOMAIN nodes : nodes[p] \notin ActiveNodes}

\* Mutant: evict_node forgets the port.
EvictOnly ==
    /\ nodes' = [p \in DOMAIN nodes \ MissingNodes |-> nodes[p]]
    /\ UNCHANGED <<free, addr>>

\* GetNodeStatus: every missing node is evicted and its port marked free.
GetNodeStatus ==
    /\ nodes' = [p \in DOMAIN nodes \ MissingNodes |-> nodes[p]]
    /\ free' = free \cup MissingNodes
    /\ UNCHANGED addr

\* Mutant: the address is only ever set once.
AddrNeverSet == addr = Loopback

\* check_addr_update_needed
AddrUpdateNeeded == addr = Loopback \/ addr # omr

\* MonitorNetworkStatus: addr is refreshed when the OMR prefix moved.
MonitorNetworkStatus ==
    /\ IF AddrUpdateNeeded THEN addr' = omr ELSE UNCHANGED addr
    /\ UNCHANGED <<nodes, free>>

=============================================================================
