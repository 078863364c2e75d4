-------------------------- MODULE NodeEventHandler --------------------------
(***************************************************************************)
(* The per-node tasks (pmind-broker/src/node.rs): each is spawned for an   *)
(* endpoint, binds it, receives until it is silent for DEFAULT_TIMEOUT     *)
(* seconds or the socket fails, and reports the address it last heard.     *)
(* Time is not modelled: a timeout may strike whenever the task waits.     *)
(***************************************************************************)
EXTENDS Mesh

VARIABLES
    spawned,    \* the endpoints of the tasks that have not run yet; of two for
                \* one endpoint the second would find it bound, and end
    listening   \* endpoint -> node_addr, for the tasks that hold a socket

handlerVars == <<spawned, listening>>

HandlerTypeOK ==
    /\ spawned \subseteq Endpoint
    /\ DOMAIN listening \subseteq Endpoint
    /\ listening \in [DOMAIN listening -> Ip \cup Endpoint]

HandlerInit ==
    /\ spawned = {}
    /\ listening = [e \in {} |-> {}]

\* NodeHandler::new
SpawnHandler(ep) ==
    /\ spawned' = spawned \cup {ep}
    /\ UNCHANGED listening

\* The task's first step binds the endpoint, and node_addr starts as the endpoint
\* itself; or a socket is bound there (`taken`), or the OMR address is not ours
\* any more: then it reports SetupError and ends.
HandlerBind(ep, taken) ==
    /\ ep \in spawned
    /\ spawned' = spawned \ {ep}
    /\ \/ /\ ep \notin taken
          /\ listening' = [e \in DOMAIN listening \cup {ep} |->
                             IF e = ep THEN ep ELSE listening[e]]
       \/ /\ ep \in taken \/ ep.prefix # omr
          /\ UNCHANGED listening
    /\ UNCHANGED meshVars

\* recv_from returns: whatever the datagram holds, its source is remembered.
HandlerReceive(e, m) ==
    /\ e \in DOMAIN listening
    /\ m \in net
    /\ m.type # "get"
    /\ m.to = e
    /\ net' = net \ {m}
    /\ listening' = [listening EXCEPT ![e] = m.from]
    /\ UNCHANGED <<children, omr, spawned>>

\* NodeTimeout or SocketError: the address is reported, the socket dropped.
HandlerEnd(e) ==
    /\ e \in DOMAIN listening
    /\ listening' = [f \in DOMAIN listening \ {e} |-> listening[f]]
    /\ UNCHANGED <<meshVars, spawned>>

=============================================================================
