----------------------------- MODULE EventRouter -----------------------------
(***************************************************************************)
(* The EventRouter's monitor task (pmind-broker/src/router.rs) with all it *)
(* drives: the OtMonitor actor, the node event handlers, and the sensor    *)
(* nodes across the mesh.                                                  *)
(*                                                                         *)
(* The task polls.  A round refreshes the OMR address, asks for the new    *)
(* nodes, registers them one after the other with a CoAP GET from a port   *)
(* of the pool, and at last has the nodes that left evicted.  Each `await` *)
(* is where a step ends, so mesh, nodes and handlers move between any two. *)
(***************************************************************************)
EXTENDS OtMonitor, NodeEventHandler, SensorNode

CONSTANTS
    NoEui,     \* the all-zero EUI of an answer that carries none
    None,      \* no current node, no OMR address asked for
    FreePort,  \* in the PortLease view: nobody has the port
    HeldPort,  \* in the PortLease view: a registration in progress has it
    Fallible,  \* the actor messages whose ot-ctl query may fail
    Strays     \* what other datagrams the task may be sent

OtQueries ==
    {"MonitorNetworkStatus", "CheckNewNode", "OmrIp", "GetNodeStatus"}

ASSUME RouterAssumption ==
    /\ Fallible \subseteq OtQueries
    /\ Strays \subseteq StrayKind
    /\ NoEui \notin Device
    /\ None \notin Row
    /\ None \notin Prefix
    /\ FreePort # HeldPort /\ FreePort \notin Row /\ HeldPort \notin Row

VARIABLES
    pc,    \* where the monitor task is
    todo,  \* what CheckNewNode answered and is not registered yet
    idx,   \* position in that answer (the enumerate of the stream)
    cur,   \* the node being registered
    port,  \* the port in use for it
    via,   \* the broker's own OMR address this round
    eui    \* the EUI found in the answer

routerVars == <<pc, todo, idx, cur, port, via, eui>>
vars == <<meshVars, monitorVars, handlerVars, sensorVars, routerVars>>

PC == {"poll", "check", "omr", "next", "bind", "recv", "retry", "again",
       "register", "spawn", "return", "status", "exited", "panicked"}

RouterTypeOK ==
    /\ pc \in PC
    /\ todo \subseteq Row
    /\ idx \in Nat
    /\ cur \in Row \cup {None}
    /\ port \in Nat
    /\ via \in Prefix \cup {None}
    /\ eui \in Device \cup {NoEui}

TypeOK ==
    /\ MeshTypeOK
    /\ MonitorTypeOK
    /\ SensorTypeOK
    /\ HandlerTypeOK
    /\ RouterTypeOK

Init ==
    /\ MeshInit
    /\ MonitorInit
    /\ SensorInit
    /\ HandlerInit
    /\ pc = "poll"
    /\ todo = {}
    /\ idx = 0
    /\ cur = None
    /\ port = Base
    /\ via = None
    /\ eui = NoEui

-----------------------------------------------------------------------------

\* The query behind the message may fail: the actor's state stays as it was.
QueryFails(query) == query \in Fallible /\ UNCHANGED monitorVars

\* Where the task sends its request from and waits for the answer.
RouterEndpoint == [prefix |-> via, port |-> port]

\* The task has its own socket bound: it waits for the answer under the 30 s
\* timer, sleeps before it asks again, or waits without a timer.
Requesting == pc \in {"recv", "retry", "again"}

\* Endpoints that have a socket bound.
Bound == DOMAIN listening \cup (IF Requesting THEN {RouterEndpoint} ELSE {})

\* The task is done with the current node.
NextNode ==
    /\ pc' = "next"
    /\ cur' = None
    /\ port' = Base
    /\ eui' = NoEui

PollNetwork ==
    /\ pc = "poll"
    /\ pc' = "check"
    /\ MonitorNetworkStatus \/ QueryFails("MonitorNetworkStatus")
    /\ UNCHANGED <<meshVars, handlerVars, sensorVars, todo, idx, cur, port, via, eui>>

\* The task ends for ever when the child table cannot be read.
CheckNewNode ==
    /\ pc = "check"
    /\ \/ pc' = "omr" /\ todo' = NewNodes /\ UNCHANGED monitorVars
       \/ pc' = "exited" /\ QueryFails("CheckNewNode") /\ UNCHANGED todo
    /\ UNCHANGED <<meshVars, handlerVars, sensorVars, idx, cur, port, via, eui>>

\* Mutant: without an OMR address the loop over the nodes runs all the same.
GetOmrIpGoesOn ==
    /\ pc = "omr"
    /\ \/ pc' = "next" /\ via' = omr /\ UNCHANGED monitorVars
       \/ pc' = "next" /\ QueryFails("OmrIp") /\ UNCHANGED via
    /\ UNCHANGED <<meshVars, handlerVars, sensorVars, todo, idx, cur, port, eui>>

\* Without an OMR address the new nodes wait for the next round.
GetOmrIp ==
    /\ pc = "omr"
    /\ \/ /\ pc' = "next" /\ via' = omr /\ UNCHANGED <<todo, monitorVars>>
       \/ /\ pc' = "status" /\ todo' = {} /\ QueryFails("OmrIp")
          /\ UNCHANGED via
    /\ UNCHANGED <<meshVars, handlerVars, sensorVars, idx, cur, port, eui>>

\* Mutant: with an empty pool the task waits until a port is returned.
StartRegistrationWaits(row) ==
    /\ pc = "next"
    /\ row \in todo
    /\ \E p \in free : ReserveFreePort(p) /\ port' = p
    /\ pc' = "bind"
    /\ cur' = row
    /\ todo' = todo \ {row}
    /\ idx' = idx + 1
    /\ UNCHANGED <<meshVars, handlerVars, sensorVars, via, eui>>

\* The next new node: a free port is reserved for it, or, when there is none,
\* the one at its position from the base of the pool is used all the same.
StartRegistration(row) ==
    /\ pc = "next"
    /\ row \in todo
    /\ \/ \E p \in free : ReserveFreePort(p) /\ port' = p
       \/ NoFreePort /\ port' = Base + idx
    /\ pc' = "bind"
    /\ cur' = row
    /\ todo' = todo \ {row}
    /\ idx' = idx + 1
    /\ UNCHANGED <<meshVars, handlerVars, sensorVars, via, eui>>

\* coap_observer_register binds the endpoint and sends the request.
BindAndRequest ==
    /\ pc = "bind"
    /\ RouterEndpoint \notin Bound
    /\ Send(Get(RouterEndpoint, cur.ip))
    /\ pc' = "recv"
    /\ UNCHANGED <<children, omr, monitorVars, handlerVars, sensorVars,
                   todo, idx, cur, port, via, eui>>

\* Mutant: an error of bind leaves the loop body before the port is returned.
BindFailsEarly ==
    /\ pc = "bind"
    /\ RouterEndpoint \in Bound \/ via # omr
    /\ NextNode
    /\ UNCHANGED <<meshVars, monitorVars, handlerVars, sensorVars, todo, idx, via>>

\* Another socket is bound there, or the OMR address is not ours any more.
BindFails ==
    /\ pc = "bind"
    /\ RouterEndpoint \in Bound \/ via # omr
    /\ pc' = "return"
    /\ UNCHANGED <<meshVars, monitorVars, handlerVars, sensorVars,
                   todo, idx, cur, port, via, eui>>

\* m is what recv_from gives the task, under the timer or without it.  (An error
\* under the timer only leaves the timer to wait for.)
Receives(m) ==
    /\ pc \in {"recv", "again"}
    /\ m \in net
    /\ m.to = RouterEndpoint
    /\ net' = net \ {m}
    /\ UNCHANGED <<children, omr, monitorVars, handlerVars, sensorVars,
                   todo, idx, cur, port, via>>

\* The first datagram to arrive is the answer, whoever sent it and whatever it
\* is; only a CoAP packet has an EUI, a reading leaves the zeros.
ReceiveAnswer(m) ==
    /\ Receives(m)
    /\ m.type \in {"reply", "reading"}
    /\ eui' = IF m.type = "reply" THEN DeviceOf[m.from.host] ELSE NoEui
    /\ pc' = "register"

\* `while len == 0`: half a second later the request is sent once more.
ReceiveEmpty(m) ==
    /\ Receives(m)
    /\ m.type = "empty"
    /\ pc' = "retry"
    /\ UNCHANGED eui

\* payload[6..] of an answer too short for an EUI: the task is gone, and nobody
\* returns its port.
ReceiveShort(m) ==
    /\ Receives(m)
    /\ m.type = "short"
    /\ pc' = "panicked"
    /\ UNCHANGED eui

\* The select! branch is taken by now, so this answer is waited for without the
\* timer.
RetryRequest ==
    /\ pc = "retry"
    /\ Send(Get(RouterEndpoint, cur.ip))
    /\ pc' = "again"
    /\ UNCHANGED <<children, omr, monitorVars, handlerVars, sensorVars,
                   todo, idx, cur, port, via, eui>>

\* An error of the socket ends that wait, and the registration fails.
RetryFails ==
    /\ pc = "again"
    /\ pc' = "return"
    /\ UNCHANGED <<meshVars, monitorVars, handlerVars, sensorVars,
                   todo, idx, cur, port, via, eui>>

\* 30 seconds without an answer.
RegistrationTimeout ==
    /\ pc = "recv"
    /\ pc' = "return"
    /\ UNCHANGED <<meshVars, monitorVars, handlerVars, sensorVars,
                   todo, idx, cur, port, via, eui>>

Register ==
    /\ pc = "register"
    /\ RegisterNode(port, cur)
    /\ pc' = "spawn"
    /\ UNCHANGED <<meshVars, handlerVars, sensorVars, todo, idx, cur, port, via, eui>>

\* The handler is spawned, its stream and the registration handed to the Broker.
SpawnAndAnnounce ==
    /\ pc = "spawn"
    /\ SpawnHandler(RouterEndpoint)
    /\ NextNode
    /\ UNCHANGED <<meshVars, monitorVars, sensorVars, todo, idx, via>>

\* Registration failed: the port, reserved or not, goes to the free set.
ReturnPort ==
    /\ pc = "return"
    /\ ReturnFreePort(port)
    /\ NextNode
    /\ UNCHANGED <<meshVars, handlerVars, sensorVars, todo, idx, via>>

EndOfNodes ==
    /\ pc = "next"
    /\ todo = {}
    /\ pc' = "status"
    /\ idx' = 0
    /\ via' = None
    /\ UNCHANGED <<meshVars, monitorVars, handlerVars, sensorVars,
                   todo, cur, port, eui>>

\* GetNodeStatus, and the sleep until the next round.
CheckNodeStatus ==
    /\ pc = "status"
    /\ pc' = "poll"
    /\ GetNodeStatus \/ QueryFails("GetNodeStatus")
    /\ UNCHANGED <<meshVars, handlerVars, sensorVars, todo, idx, cur, port, via, eui>>

RouterStep ==
    \/ PollNetwork
    \/ CheckNewNode
    \/ GetOmrIp
    \/ \E row \in todo : StartRegistration(row)
    \/ BindAndRequest
    \/ BindFails
    \/ \E m \in net : ReceiveAnswer(m)
    \/ \E m \in net : ReceiveEmpty(m)
    \/ \E m \in net : ReceiveShort(m)
    \/ RetryRequest
    \/ RetryFails
    \/ RegistrationTimeout
    \/ Register
    \/ SpawnAndAnnounce
    \/ ReturnPort
    \/ EndOfNodes
    \/ CheckNodeStatus

-----------------------------------------------------------------------------

RunHandler(e) ==
    HandlerBind(e, Bound) /\ UNCHANGED <<monitorVars, sensorVars, routerVars>>

HandlerStep ==
    /\ \/ \E e \in DOMAIN listening : HandlerEnd(e)
       \/ \E e \in DOMAIN listening, m \in net : HandlerReceive(e, m)
    /\ UNCHANGED <<monitorVars, sensorVars, routerVars>>

NodeStep ==
    /\ \E d \in Device :
         \/ \E m \in net : HandleRequest(d, m)
         \/ SendReading(d)
         \/ Reset(d)
    /\ UNCHANGED <<monitorVars, handlerVars, routerVars>>

\* A child of the network sends something else to the task's socket.  (To that of
\* a handler it would be what a late answer is: only its source is remembered.)
StrayDatagram(row, kind) ==
    /\ Requesting
    /\ Send(Stray(kind, row.ip, RouterEndpoint))
    /\ UNCHANGED <<children, omr>>

MeshStep ==
    /\ \/ \E m \in net : Lose(m)
       \/ \E row \in children, kind \in Strays : StrayDatagram(row, kind)
       \/ \E r \in Rloc, d \in Device : Attach(r, hostOf[d])
       \/ \E row \in children : Detach(row)
       \/ \E p \in Prefix : ChangePrefix(p)
    /\ UNCHANGED <<monitorVars, handlerVars, sensorVars, routerVars>>

Next ==
    \/ RouterStep
    \/ \E e \in spawned : RunHandler(e)
    \/ HandlerStep
    \/ NodeStep
    \/ MeshStep

Spec == Init /\ [][Next]_vars

(***************************************************************************)
(* Fairness.  tokio keeps running a task that can go on: a bind or an      *)
(* actor call returns, the wait for the answer is bounded by its 30 s      *)
(* timer, the poll by the interval, the retry by its sleep; and a spawned  *)
(* handler gets to its first step.  The exception is the answer to a       *)
(* retry, which is waited for without a timer: there the task may stay for *)
(* ever.  Nothing is assumed of the mesh, the nodes, or of when a waiting  *)
(* handler times out.                                                      *)
(***************************************************************************)
FairSpec ==
    /\ Spec
    /\ WF_vars(pc # "again" /\ RouterStep)
    /\ WF_vars(\E e \in spawned : RunHandler(e))

-----------------------------------------------------------------------------

\* The task has a port that is not in `nodes` yet; it keeps it if it panics.
Holding == Requesting \/ pc \in {"bind", "register", "return", "panicked"}

HeldPorts == IF Holding THEN {port} ELSE {}

\* No port is ever lost: whatever fails, and even when the pool ran dry, each
\* port of the pool is free, registered, or held by the registration in
\* progress (get_free_port, evict_node and return_port balance).
PoolConserved == Pool \subseteq free \cup DOMAIN nodes \cup HeldPorts

\* A port is not handed out while a node or a registration has it: what the
\* "1:1 mapping" of lib.rs needs of the pool.
PortExclusive ==
    /\ free \cap DOMAIN nodes = {}
    /\ Holding => port \notin free \cup DOMAIN nodes

\* No node is registered at two ports, although the answer to CheckNewNode is
\* used over many awaits during which the child table changes.
NoDuplicateRegistration ==
    \A p, q \in DOMAIN nodes : nodes[p] = nodes[q] => p = q

(***************************************************************************)
(* The pool is large enough: between two rounds `nodes` may keep as many   *)
(* nodes that left as the child table holds, while as many new ones come.  *)
(* A GetNodeStatus that fails leaves the former in place for longer.       *)
(***************************************************************************)
EnoughPorts ==
    /\ PoolSize >= 2 * MaxChildren
    /\ "GetNodeStatus" \notin Fallible

\* Who has a port, in the terms of PortLease.
Holder ==
    [p \in Pool |-> IF p \in HeldPorts THEN HeldPort
                    ELSE IF p \in DOMAIN nodes THEN nodes[p]
                    ELSE FreePort]

Lease == INSTANCE PortLease
         WITH Node <- Row, Free <- FreePort, Held <- HeldPort, holder <- Holder

\* With enough ports, monitor and router together are a PortLease: a port goes
\* from the pool to one registration, from there to one node or back, and from
\* the node only back to the pool.
LeaseImplemented == Lease!LeaseSpec

-----------------------------------------------------------------------------

\* The ways the answer itself may keep the task from going on while it has a port:
\* retries without an answer that has any bytes, for none of them is counted or
\* timed, and an answer too short to be one.
Stuck == pc \in {"retry", "again", "panicked"}

\* A port taken for a registration is registered or free again in the end,
\* whether bind, request or answer fails or the timer strikes, and also after
\* retries, unless these go on for ever or the task panicked
\* (coap_observer_register and the else branch that returns the port).
HeldPortsComeBack ==
    \A p \in Pool :
        [](p \in HeldPorts => <>(p \in free \cup DOMAIN nodes) \/ <>[]Stuck)

\* The task polls again and again, whatever fails in a round, how many nodes
\* come and go meanwhile, and with an empty pool.  There are three ways out, for
\* good: the child table could not be read, the retries are not answered, or an
\* answer was too short for an EUI.
RoundsGoOn == []<>(pc = "poll") \/ <>[](pc = "exited") \/ <>[]Stuck

\* The otbr-agent answers this message's query again and again.
StatusAnswered == []<><<CheckNodeStatus /\ GetNodeStatus>>_vars
NetworkAnswered == []<><<PollNetwork /\ MonitorNetworkStatus>>_vars

\* A node that left for good is evicted for good, and one whose locator or
\* address changed is not kept under the old one (GetNodeStatus), although it
\* may leave while its registration is in progress, the pool may have run dry,
\* and any number of queries may fail as long as some succeed.
StaleNodesEvicted ==
    StatusAnswered =>
        \A row \in Row :
            <>[](row \notin ActiveNodes) => <>[](row \notin RegisteredNodes)

\* Once the OMR prefix settles the monitor follows it, and no registration of
\* an older prefix survives (MonitorNetworkStatus, then GetNodeStatus).
PrefixFollowed ==
    StatusAnswered /\ NetworkAnswered =>
        \A p \in Prefix :
            <>[](omr = p)
                => <>[](addr = p /\ \A q \in DOMAIN nodes : nodes[q].ip.prefix = p)

ChildrenAnswered == []<><<CheckNewNode /\ pc' = "omr">>_vars
OmrAnswered == []<><<GetOmrIp /\ pc' = "next">>_vars

\* A node that stays in the child table and could not be registered is tried
\* again and again, whatever went wrong with it before (bind, request, answer,
\* no free port) and whether old registrations are evicted or not.
RegistrationRetried ==
    ChildrenAnswered /\ OmrAnswered =>
        \A row \in Row :
            <>[](row \in ActiveNodes \ RegisteredNodes) => []<>(cur = row)

(***************************************************************************)
(* What the documentation says and the code does not do.  Each of these is *)
(* refuted by a run of its own.                                            *)
(***************************************************************************)

\* lib.rs: an EUI identifies a node.  The EUI announced with a registration is
\* that of the node registered.
AnnouncedEuiIsTheNodes == pc = "spawn" => eui = DeviceOf[cur.ip.host]

\* lib.rs: for each active node the subscription is maintained.  A registered
\* port does not stay without a task that serves it.
RegistrationServed ==
    \A p \in Pool :
        [](p \in DOMAIN nodes =>
            <>(\/ p \notin DOMAIN nodes
               \/ \E e \in spawned \cup DOMAIN listening : e.port = p))

\* node.rs: a task reports the end of a node that stopped sending, so not of
\* one that another task is hearing.
ErrorsMeanSilence ==
    [][\A e \in DOMAIN listening \ DOMAIN listening' :
         \A f \in DOMAIN listening \ {e} :
            listening[e] \in Ip => listening[f] # listening[e]]_vars

=============================================================================
