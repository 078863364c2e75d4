------------------------- MODULE EventRouter_proofs -------------------------
(***************************************************************************)
(* Proofs about EventRouter, for every mesh, every pool and every bound.   *)
(* TypeOK needs to know that the task's locals are set while it uses them; *)
(* the other invariants then only look at the monitor's and the task's own *)
(* variables, which no step of a handler, a node or the mesh touches.      *)
(***************************************************************************)
EXTENDS EventRouter, FiniteSetTheorems, TLAPS

(***************************************************************************)
(* Types.                                                                  *)
(***************************************************************************)

\* The task is at work on one node.
AtWork ==
    {"bind", "recv", "retry", "again", "register", "spawn", "return"}

LocalsSet ==
    /\ pc \in AtWork \cup {"next"} => via \in Prefix
    /\ pc \in AtWork => cur \in Row

TypeInv == TypeOK /\ LocalsSet

LEMMA TypeInit == Init => TypeInv
  <1>1. IsFiniteSet({}) /\ Cardinality({}) = 0
    BY FS_EmptySet
  <1>2. QED
    BY <1>1, MeshAssumption, MonitorAssumption, SMT
    DEF Init, MeshInit, MonitorInit, SensorInit, HandlerInit, TypeInv, TypeOK,
        LocalsSet, AtWork, MeshTypeOK, MonitorTypeOK, SensorTypeOK,
        HandlerTypeOK, RouterTypeOK, PC, Pool, HostsOf

\* The child table stays within its size.
LEMMA ChildrenType ==
  ASSUME MeshTypeOK,
         \/ children' = children
         \/ \E row \in Row : /\ children' = children \cup {row}
                             /\ Cardinality(children) < MaxChildren
         \/ \E row \in children : children' = children \ {row},
         omr' \in Prefix, net' \subseteq Message
  PROVE  MeshTypeOK'
  <1>1. CASE children' = children
    BY <1>1 DEF MeshTypeOK
  <1>2. ASSUME NEW row \in Row, children' = children \cup {row},
               Cardinality(children) < MaxChildren
        PROVE  MeshTypeOK'
    <2>1. /\ IsFiniteSet(children')
          /\ Cardinality(children') \in {Cardinality(children), Cardinality(children) + 1}
      BY <1>2, FS_AddElement DEF MeshTypeOK
    <2>2. Cardinality(children) \in Nat /\ MaxChildren \in Nat
      BY FS_CardinalityType, MeshAssumption DEF MeshTypeOK
    <2>3. QED
      BY <1>2, <2>1, <2>2 DEF MeshTypeOK
  <1>3. ASSUME NEW row \in children, children' = children \ {row}
        PROVE  MeshTypeOK'
    <2>1. /\ IsFiniteSet(children')
          /\ Cardinality(children') = Cardinality(children) - 1
      BY <1>3, FS_RemoveElement DEF MeshTypeOK
    <2>2. Cardinality(children) \in Nat /\ MaxChildren \in Nat
      BY FS_CardinalityType, MeshAssumption DEF MeshTypeOK
    <2>3. QED
      BY <1>3, <2>1, <2>2 DEF MeshTypeOK
  <1>4. QED
    BY <1>1, <1>2, <1>3

\* What a datagram for an endpoint, and one for a node, is made of.
LEMMA MessageParts ==
  ASSUME NEW m \in Message
  PROVE  /\ m.type # "get" => m.from \in Ip /\ m.to \in Endpoint
         /\ m.type = "get" => m.from \in Endpoint /\ m.to \in Ip
  BY DEF Message, StrayKind

\* Sending keeps the network well typed.
LEMMA SendType ==
  ASSUME net \subseteq Message, NEW used, NEW m \in Message, SendAfter(used, m)
  PROVE  net' \subseteq Message
  BY DEF SendAfter

\* What the task's waits for its answer come to: one has an answer, one asks
\* again, and one is over.
AnswerStep ==
    \/ \E m \in net : ReceiveAnswer(m)
    \/ \E m \in net : ReceiveEmpty(m)
    \/ \E m \in net : ReceiveShort(m)

WaitStep ==
    \/ AnswerStep
    \/ RetryRequest
    \/ RetryFails
    \/ RegistrationTimeout

\* They leave all but the network, the EUI and the place in the task alone, and
\* the port with the task.
LEMMA WaitFrame ==
  WaitStep => /\ UNCHANGED <<children, omr, monitorVars, handlerVars, sensorVars,
                             todo, idx, cur, port, via>>
              /\ pc \in {"recv", "retry", "again"}
              /\ pc' \in {"retry", "again", "register", "return", "panicked"}
  BY DEF WaitStep, AnswerStep, ReceiveAnswer, ReceiveEmpty, ReceiveShort,
     Receives, RetryRequest, RetryFails, RegistrationTimeout, meshVars

\* The task's own steps.
LEMMA RouterTypeStep == TypeInv /\ RouterStep => TypeInv'
  <1> SUFFICES ASSUME TypeInv, RouterStep
               PROVE  TypeInv'
    OBVIOUS
  <1> USE DEF TypeInv, TypeOK
  <1>1. CASE PollNetwork
    <2>1. UNCHANGED <<meshVars, sensorVars, handlerVars>>
      BY <1>1 DEF PollNetwork
    <2>2. addr' \in Prefix \cup {Loopback} /\ nodes' = nodes /\ free' = free
      BY <1>1 DEF PollNetwork, MonitorNetworkStatus, QueryFails, monitorVars,
                  MonitorTypeOK, MeshTypeOK
    <2>3. RouterTypeOK' /\ LocalsSet'
      BY <1>1 DEF PollNetwork, RouterTypeOK, PC, LocalsSet, AtWork
    <2>4. QED
      BY <2>1, <2>2, <2>3 DEF meshVars, sensorVars, handlerVars, MeshTypeOK,
           MonitorTypeOK, SensorTypeOK, HandlerTypeOK
  <1>2. CASE CheckNewNode
    BY <1>2 DEF CheckNewNode, meshVars, sensorVars, handlerVars, monitorVars,
         QueryFails, MeshTypeOK, MonitorTypeOK, SensorTypeOK, HandlerTypeOK,
         RouterTypeOK, PC, LocalsSet, AtWork, NewNodes, ActiveNodes
  <1>3. CASE GetOmrIp
    BY <1>3 DEF GetOmrIp, meshVars, sensorVars, handlerVars, monitorVars,
         QueryFails, MeshTypeOK, MonitorTypeOK, SensorTypeOK, HandlerTypeOK,
         RouterTypeOK, PC, LocalsSet, AtWork
  <1>4. ASSUME NEW row \in todo, StartRegistration(row)
        PROVE  TypeInv'
    <2>1. /\ free' \subseteq Nat /\ port' \in Nat
          /\ UNCHANGED <<nodes, addr>>
      BY <1>4, MonitorAssumption DEF StartRegistration, ReserveFreePort,
           NoFreePort, monitorVars, MonitorTypeOK, RouterTypeOK
    <2>2. RouterTypeOK' /\ LocalsSet'
      BY <1>4, <2>1 DEF StartRegistration, RouterTypeOK, PC, LocalsSet, AtWork
    <2>3. QED
      BY <1>4, <2>1, <2>2 DEF StartRegistration, meshVars, sensorVars,
           handlerVars, MeshTypeOK, MonitorTypeOK, SensorTypeOK, HandlerTypeOK
  <1>5. CASE BindAndRequest
    <2>1. RouterEndpoint \in Endpoint /\ cur.ip \in Ip
      BY <1>5 DEF BindAndRequest, LocalsSet, AtWork, RouterTypeOK,
           RouterEndpoint, Endpoint, Row
    <2>2. Get(RouterEndpoint, cur.ip) \in Message
      BY <2>1 DEF Get, Message
    <2>3. net' \subseteq Message
      BY <1>5, <2>2, SendType DEF BindAndRequest, Send, MeshTypeOK
    <2>4. QED
      BY <1>5, <2>3 DEF BindAndRequest, sensorVars, handlerVars, monitorVars,
           MeshTypeOK, MonitorTypeOK, SensorTypeOK, HandlerTypeOK,
           RouterTypeOK, PC, LocalsSet, AtWork
  <1>6. CASE BindFails
    BY <1>6 DEF BindFails, meshVars, sensorVars, handlerVars, monitorVars,
         MeshTypeOK, MonitorTypeOK, SensorTypeOK, HandlerTypeOK,
         RouterTypeOK, PC, LocalsSet, AtWork
  <1>7. CASE WaitStep
    <2>1. net' \subseteq Message
      <3>1. CASE AnswerStep
        BY <3>1 DEF AnswerStep, ReceiveAnswer, ReceiveEmpty, ReceiveShort,
             Receives, MeshTypeOK
      <3>2. CASE RetryRequest
        <4>1. RouterEndpoint \in Endpoint /\ cur.ip \in Ip
          BY <3>2 DEF RetryRequest, LocalsSet, AtWork, RouterTypeOK,
               RouterEndpoint, Endpoint, Row
        <4>2. Get(RouterEndpoint, cur.ip) \in Message
          BY <4>1 DEF Get, Message
        <4>3. QED
          BY <3>2, <4>2, SendType DEF RetryRequest, Send, MeshTypeOK
      <3>3. CASE RetryFails \/ RegistrationTimeout
        BY <3>3 DEF RetryFails, RegistrationTimeout, meshVars, MeshTypeOK
      <3>4. QED
        BY <1>7, <3>1, <3>2, <3>3 DEF WaitStep
    <2>2. eui' \in Device \cup {NoEui}
      <3>1. ASSUME NEW m \in net, ReceiveAnswer(m)
            PROVE  eui' \in Device \cup {NoEui}
        <4>1. m.from \in Ip
          BY <3>1, MessageParts DEF ReceiveAnswer, MeshTypeOK
        <4>2. DeviceOf[m.from.host] \in Device
          BY <4>1, MeshAssumption DEF Ip
        <4>3. QED
          BY <3>1, <4>2 DEF ReceiveAnswer
      <3>2. CASE \/ \E m \in net : ReceiveEmpty(m)
                 \/ \E m \in net : ReceiveShort(m)
                 \/ RetryRequest \/ RetryFails \/ RegistrationTimeout
        BY <3>2 DEF ReceiveEmpty, ReceiveShort, RetryRequest, RetryFails,
             RegistrationTimeout, RouterTypeOK
      <3>3. QED
        BY <1>7, <3>1, <3>2 DEF WaitStep, AnswerStep
    <2>3. RouterTypeOK' /\ LocalsSet'
      BY <1>7, <2>2, WaitFrame DEF RouterTypeOK, PC, LocalsSet, AtWork
    <2>4. QED
      BY <1>7, <2>1, <2>3, WaitFrame DEF sensorVars, handlerVars, monitorVars,
           MeshTypeOK, MonitorTypeOK, SensorTypeOK, HandlerTypeOK
  <1>9. CASE Register
    <2>1. MonitorTypeOK'
      BY <1>9 DEF Register, RegisterNode, MonitorTypeOK, LocalsSet, AtWork,
           RouterTypeOK
    <2>2. QED
      BY <1>9, <2>1 DEF Register, meshVars, sensorVars, handlerVars,
           MeshTypeOK, SensorTypeOK, HandlerTypeOK, RouterTypeOK, PC,
           LocalsSet, AtWork
  <1>10. CASE SpawnAndAnnounce
    <2>1. RouterEndpoint \in Endpoint
      BY <1>10 DEF SpawnAndAnnounce, LocalsSet, AtWork, RouterTypeOK,
           RouterEndpoint, Endpoint
    <2>2. HandlerTypeOK'
      BY <1>10, <2>1 DEF SpawnAndAnnounce, SpawnHandler, HandlerTypeOK
    <2>3. RouterTypeOK' /\ LocalsSet'
      BY <1>10, MonitorAssumption DEF SpawnAndAnnounce, NextNode, RouterTypeOK,
           PC, LocalsSet, AtWork
    <2>4. QED
      BY <1>10, <2>2, <2>3 DEF SpawnAndAnnounce, meshVars, sensorVars,
           monitorVars, MeshTypeOK, SensorTypeOK, MonitorTypeOK
  <1>11. CASE ReturnPort
    <2>1. RouterTypeOK' /\ LocalsSet'
      BY <1>11, MonitorAssumption DEF ReturnPort, NextNode, RouterTypeOK, PC,
           LocalsSet, AtWork
    <2>2. QED
      BY <1>11, <2>1 DEF ReturnPort, ReturnFreePort, meshVars, sensorVars,
           handlerVars, RouterTypeOK, MeshTypeOK, SensorTypeOK, HandlerTypeOK,
           MonitorTypeOK
  <1>12. CASE EndOfNodes
    BY <1>12 DEF EndOfNodes, meshVars, sensorVars, handlerVars, monitorVars,
         MeshTypeOK, MonitorTypeOK, SensorTypeOK, HandlerTypeOK,
         RouterTypeOK, PC, LocalsSet, AtWork
  <1>13. CASE CheckNodeStatus
    <2>1. MonitorTypeOK'
      BY <1>13 DEF CheckNodeStatus, GetNodeStatus, QueryFails, monitorVars,
           MissingNodes, MonitorTypeOK
    <2>2. QED
      BY <1>13, <2>1 DEF CheckNodeStatus, meshVars, sensorVars, handlerVars,
           MeshTypeOK, SensorTypeOK, HandlerTypeOK, RouterTypeOK, PC,
           LocalsSet, AtWork
  <1>14. QED
    BY <1>1, <1>2, <1>3, <1>4, <1>5, <1>6, <1>7, <1>9, <1>10, <1>11,
       <1>12, <1>13 DEF RouterStep, WaitStep, AnswerStep

\* The steps of the mesh, the nodes and the handlers, and stuttering.
EnvironmentStep ==
    \/ \E e \in spawned : RunHandler(e)
    \/ HandlerStep
    \/ NodeStep
    \/ MeshStep
    \/ UNCHANGED vars

LEMMA NextSplit == [Next]_vars => RouterStep \/ EnvironmentStep
  BY DEF Next, EnvironmentStep

\* They leave the monitor and the task alone.
LEMMA EnvironmentFrame ==
  EnvironmentStep => UNCHANGED <<monitorVars, routerVars>>
  BY DEF EnvironmentStep, RunHandler, HandlerStep, NodeStep, MeshStep, vars

LEMMA EnvironmentTypeStep == TypeInv /\ EnvironmentStep => TypeInv'
  <1> SUFFICES ASSUME TypeInv, EnvironmentStep
               PROVE  TypeInv'
    OBVIOUS
  <1> USE DEF TypeInv, TypeOK
  <1>1. MonitorTypeOK' /\ RouterTypeOK' /\ LocalsSet'
    BY EnvironmentFrame DEF monitorVars, routerVars, MonitorTypeOK,
       RouterTypeOK, LocalsSet
  <1>2. SUFFICES MeshTypeOK' /\ SensorTypeOK' /\ HandlerTypeOK'
    BY <1>1
  <1>3. ASSUME NEW e \in spawned, RunHandler(e)
        PROVE  MeshTypeOK' /\ SensorTypeOK' /\ HandlerTypeOK'
    <2>1. e \in Endpoint
      BY DEF HandlerTypeOK
    <2>2. HandlerTypeOK'
      BY <1>3, <2>1 DEF RunHandler, HandlerBind, HandlerTypeOK
    <2>3. QED
      BY <1>3, <2>2 DEF RunHandler, HandlerBind, meshVars, sensorVars,
           MeshTypeOK, SensorTypeOK
  <1>4. ASSUME NEW e \in DOMAIN listening, HandlerEnd(e),
               UNCHANGED sensorVars
        PROVE  MeshTypeOK' /\ SensorTypeOK' /\ HandlerTypeOK'
    BY <1>4 DEF HandlerEnd, meshVars, sensorVars, MeshTypeOK, SensorTypeOK,
         HandlerTypeOK
  <1>5. ASSUME NEW e \in DOMAIN listening, NEW m \in net,
               HandlerReceive(e, m), UNCHANGED sensorVars
        PROVE  MeshTypeOK' /\ SensorTypeOK' /\ HandlerTypeOK'
    <2>1. m.from \in Ip
      BY <1>5, MessageParts DEF HandlerReceive, MeshTypeOK
    <2>2. HandlerTypeOK'
      BY <1>5, <2>1 DEF HandlerReceive, HandlerTypeOK
    <2>3. QED
      BY <1>5, <2>2 DEF HandlerReceive, sensorVars, MeshTypeOK, SensorTypeOK
  <1>6. ASSUME NEW d \in Device, NEW m \in net, HandleRequest(d, m),
               UNCHANGED handlerVars
        PROVE  MeshTypeOK' /\ SensorTypeOK' /\ HandlerTypeOK'
    <2>1. m.from \in Endpoint
      BY <1>6, MessageParts DEF HandleRequest, MeshTypeOK
    <2>2. SourceFor(d, m.from) \in Ip
      BY <2>1 DEF SourceFor, Ip, Endpoint, SensorTypeOK
    <2>3. Reply(SourceFor(d, m.from), m.from) \in Message
      BY <2>1, <2>2 DEF Reply, Message
    <2>4. net' \subseteq Message
      BY <1>6, <2>3, SendType DEF HandleRequest, MeshTypeOK
    <2>5. QED
      BY <1>6, <2>1, <2>4 DEF HandleRequest, handlerVars, MeshTypeOK,
           SensorTypeOK, HandlerTypeOK
  <1>7. ASSUME NEW d \in Device, SendReading(d), UNCHANGED handlerVars
        PROVE  MeshTypeOK' /\ SensorTypeOK' /\ HandlerTypeOK'
    <2>1. observer[d] \in Endpoint
      BY <1>7 DEF SendReading, SensorTypeOK
    <2>2. SourceFor(d, observer[d]) \in Ip
      BY <2>1 DEF SourceFor, Ip, Endpoint, SensorTypeOK
    <2>3. Reading(SourceFor(d, observer[d]), observer[d]) \in Message
      BY <2>1, <2>2 DEF Reading, Message
    <2>4. net' \subseteq Message
      BY <1>7, <2>3, SendType DEF SendReading, Send, MeshTypeOK
    <2>5. QED
      BY <1>7, <2>4 DEF SendReading, handlerVars, sensorVars, MeshTypeOK,
           SensorTypeOK, HandlerTypeOK
  <1>8. ASSUME NEW d \in Device, Reset(d), UNCHANGED handlerVars
        PROVE  MeshTypeOK' /\ SensorTypeOK' /\ HandlerTypeOK'
    BY <1>8 DEF Reset, HostsOf, meshVars, handlerVars, MeshTypeOK,
         SensorTypeOK, HandlerTypeOK
  <1>9. ASSUME MeshStep
        PROVE  MeshTypeOK' /\ SensorTypeOK' /\ HandlerTypeOK'
    <2>1. SensorTypeOK' /\ HandlerTypeOK'
      BY <1>9 DEF MeshStep, sensorVars, handlerVars, SensorTypeOK, HandlerTypeOK
    <2>2. ASSUME NEW r \in Rloc, NEW d \in Device, Attach(r, hostOf[d])
          PROVE  MeshTypeOK'
      <3> DEFINE row == [rloc |-> r, ip |-> [prefix |-> omr, host |-> hostOf[d]]]
      <3>1. row \in Row
        BY DEF Row, Ip, MeshTypeOK, SensorTypeOK
      <3>2. QED
        BY <2>2, <3>1, ChildrenType DEF Attach, MeshTypeOK
    <2>3. ASSUME NEW row \in children, Detach(row)
          PROVE  MeshTypeOK'
      BY <2>3, ChildrenType DEF Detach, MeshTypeOK
    <2>4. ASSUME NEW p \in Prefix, ChangePrefix(p)
          PROVE  MeshTypeOK'
      BY <2>4 DEF ChangePrefix, MeshTypeOK
    <2>5. ASSUME NEW m \in net, Lose(m)
          PROVE  MeshTypeOK'
      BY <2>5 DEF Lose, MeshTypeOK
    <2>6. ASSUME NEW row \in children, NEW kind \in Strays,
                 StrayDatagram(row, kind)
          PROVE  MeshTypeOK'
      <3>1. RouterEndpoint \in Endpoint /\ row.ip \in Ip
        BY <2>6 DEF StrayDatagram, Requesting, LocalsSet, AtWork, RouterTypeOK,
             RouterEndpoint, Endpoint, Row, MeshTypeOK
      <3>2. Stray(kind, row.ip, RouterEndpoint) \in Message
        BY <3>1, RouterAssumption DEF Stray, StrayKind, Message
      <3>3. QED
        BY <2>6, <3>2, SendType DEF StrayDatagram, Send, MeshTypeOK
    <2>7. QED
      BY <1>9, <2>1, <2>2, <2>3, <2>4, <2>5, <2>6 DEF MeshStep
  <1>10. CASE UNCHANGED vars
    BY <1>10 DEF vars, meshVars, sensorVars, handlerVars, MeshTypeOK,
         SensorTypeOK, HandlerTypeOK
  <1>11. QED
    BY <1>3, <1>4, <1>5, <1>6, <1>7, <1>8, <1>9, <1>10
    DEF EnvironmentStep, HandlerStep, NodeStep

\* Type correctness, and with it: the task never uses an address, a node or a
\* port it has not set (the locals of the closure in router.rs).
THEOREM TypeCorrect == Spec => [](TypeOK /\ LocalsSet)
  <1>1. TypeInv /\ [Next]_vars => TypeInv'
    BY NextSplit, RouterTypeStep, EnvironmentTypeStep
  <1>2. QED
    BY TypeInit, <1>1, PTL DEF Spec, TypeInv

(***************************************************************************)
(* No port is lost.  PoolConserved is inductive as it stands.              *)
(***************************************************************************)

LEMMA PoolConservedStep == PoolConserved /\ [Next]_vars => PoolConserved'
  <1> SUFFICES ASSUME PoolConserved, [Next]_vars
               PROVE  PoolConserved'
    OBVIOUS
  <1> USE DEF PoolConserved, HeldPorts, Holding, Requesting
  <1>1. CASE EnvironmentStep
    BY <1>1, EnvironmentFrame DEF monitorVars, routerVars
  <1>2. CASE PollNetwork
    BY <1>2 DEF PollNetwork, MonitorNetworkStatus, QueryFails, monitorVars
  <1>3. CASE CheckNewNode
    BY <1>3 DEF CheckNewNode, QueryFails, monitorVars
  <1>4. CASE GetOmrIp
    BY <1>4 DEF GetOmrIp, QueryFails, monitorVars
  <1>5. ASSUME NEW row \in todo, StartRegistration(row)
        PROVE  PoolConserved'
    BY <1>5 DEF StartRegistration, ReserveFreePort, NoFreePort, monitorVars
  <1>6. CASE BindAndRequest \/ BindFails
    BY <1>6 DEF BindAndRequest, BindFails, monitorVars
  <1>7. CASE WaitStep
    BY <1>7, WaitFrame DEF monitorVars
  <1>8. CASE Register
    BY <1>8 DEF Register, RegisterNode
  <1>9. CASE SpawnAndAnnounce
    BY <1>9 DEF SpawnAndAnnounce, NextNode, monitorVars
  <1>10. CASE ReturnPort
    BY <1>10 DEF ReturnPort, ReturnFreePort, NextNode
  <1>11. CASE EndOfNodes
    BY <1>11 DEF EndOfNodes, monitorVars
  <1>12. CASE CheckNodeStatus
    BY <1>12 DEF CheckNodeStatus, GetNodeStatus, MissingNodes, QueryFails,
         monitorVars
  <1>13. QED
    BY <1>1, <1>2, <1>3, <1>4, <1>5, <1>6, <1>7, <1>8, <1>9, <1>10, <1>11,
       <1>12, NextSplit DEF RouterStep, WaitStep, AnswerStep

\* Whatever fails, and even when the pool ran dry, each port of the pool is
\* free, registered or held (get_free_port, evict_node, return_port).
THEOREM PoolIsConserved == Spec => []PoolConserved
  <1>1. Init => PoolConserved
    BY DEF Init, MonitorInit, PoolConserved
  <1>2. QED
    BY <1>1, PoolConservedStep, PTL DEF Spec

(***************************************************************************)
(* No node is registered twice.  The answer to CheckNewNode stays disjoint *)
(* from the registered nodes all through the round, and so does the node   *)
(* at work until it is registered.                                         *)
(***************************************************************************)

StillNew ==
    /\ todo \cap RegisteredNodes = {}
    /\ Holding => cur \notin RegisteredNodes \cup todo

UniqueInv == NoDuplicateRegistration /\ StillNew

LEMMA UniqueStep == UniqueInv /\ [Next]_vars => UniqueInv'
  <1> SUFFICES ASSUME UniqueInv, [Next]_vars
               PROVE  UniqueInv'
    OBVIOUS
  <1> USE DEF UniqueInv, StillNew, NoDuplicateRegistration, RegisteredNodes,
              Holding, Requesting
  <1>1. CASE EnvironmentStep
    BY <1>1, EnvironmentFrame DEF monitorVars, routerVars
  <1>2. CASE PollNetwork
    BY <1>2 DEF PollNetwork, MonitorNetworkStatus, QueryFails, monitorVars
  <1>3. CASE CheckNewNode
    BY <1>3 DEF CheckNewNode, NewNodes, QueryFails, monitorVars
  <1>4. CASE GetOmrIp
    BY <1>4 DEF GetOmrIp, QueryFails, monitorVars
  <1>5. ASSUME NEW row \in todo, StartRegistration(row)
        PROVE  UniqueInv'
    <2>1. nodes' = nodes
      BY <1>5 DEF StartRegistration, ReserveFreePort, NoFreePort, monitorVars
    <2>2. QED
      BY <1>5, <2>1 DEF StartRegistration
  <1>6. CASE BindAndRequest \/ BindFails
    BY <1>6 DEF BindAndRequest, BindFails, monitorVars
  <1>7. CASE WaitStep
    BY <1>7, WaitFrame DEF monitorVars
  <1>8. CASE Register
    <2>1. /\ DOMAIN nodes' = DOMAIN nodes \cup {port}
          /\ \A q \in DOMAIN nodes' :
               nodes'[q] = IF q = port THEN cur ELSE nodes[q]
      BY <1>8 DEF Register, RegisterNode
    <2>2. \A q \in DOMAIN nodes : nodes[q] # cur
      BY <1>8 DEF Register
    <2>3. NoDuplicateRegistration'
      BY <2>1, <2>2
    <2>4. QED
      BY <1>8, <2>1, <2>3 DEF Register
  <1>9. CASE SpawnAndAnnounce
    BY <1>9 DEF SpawnAndAnnounce, NextNode, monitorVars
  <1>10. CASE ReturnPort
    BY <1>10 DEF ReturnPort, ReturnFreePort, NextNode
  <1>11. CASE EndOfNodes
    BY <1>11 DEF EndOfNodes, monitorVars
  <1>12. CASE CheckNodeStatus
    BY <1>12 DEF CheckNodeStatus, GetNodeStatus, QueryFails, monitorVars
  <1>13. QED
    BY <1>1, <1>2, <1>3, <1>4, <1>5, <1>6, <1>7, <1>8, <1>9, <1>10, <1>11,
       <1>12, NextSplit DEF RouterStep, WaitStep, AnswerStep

\* No node is registered at two ports, although the child table changes while
\* the answer to CheckNewNode is worked off.
THEOREM RegistrationIsUnique == Spec => []NoDuplicateRegistration
  <1>1. Init => UniqueInv
    BY DEF Init, MonitorInit, UniqueInv, NoDuplicateRegistration, StillNew,
           Holding, Requesting
  <1>2. QED
    BY <1>1, UniqueStep, PTL DEF Spec, UniqueInv

(***************************************************************************)
(* With enough ports the pool never runs dry.  A round starts with at most *)
(* MaxChildren registered nodes, since the last GetNodeStatus kept only    *)
(* nodes of the child table, each of them once; CheckNewNode adds at most  *)
(* MaxChildren to be registered, and each of them takes one port.          *)
(***************************************************************************)

\* Ports the round has taken or may yet take.
Demand ==
    Cardinality(DOMAIN nodes) + Cardinality(todo) + (IF Holding THEN 1 ELSE 0)

BetweenRounds == {"poll", "check", "exited"}

DemandInv ==
    /\ IsFiniteSet(DOMAIN nodes)
    /\ IsFiniteSet(todo)
    /\ pc \in BetweenRounds \cup {"status"} => todo = {}
    /\ pc \in BetweenRounds => Cardinality(DOMAIN nodes) <= MaxChildren
    /\ pc \notin BetweenRounds => Demand <= 2 * MaxChildren

\* Every port in circulation is of the pool, and has one holder.
InPool ==
    /\ free \subseteq Pool
    /\ DOMAIN nodes \subseteq Pool
    /\ Holding => port \in Pool

LeaseInv ==
    /\ TypeInv
    /\ PoolConserved
    /\ UniqueInv
    /\ DemandInv
    /\ InPool
    /\ PortExclusive

LEMMA PoolSizeLemma == IsFiniteSet(Pool) /\ Cardinality(Pool) = PoolSize
  <1>1. /\ Base \in Int /\ Base + PoolSize - 1 \in Int
        /\ ~(Base > Base + PoolSize - 1)
        /\ (Base + PoolSize - 1) - Base + 1 = PoolSize
    BY MonitorAssumption
  <1>2. QED
    BY <1>1, FS_Interval DEF Pool

\* A step that starts a registration finds a free port.
LEMMA PortAvailable ==
  ASSUME LeaseInv, EnoughPorts, pc = "next", todo # {}
  PROVE  free # {}
  <1> SUFFICES ASSUME free = {} PROVE FALSE
    OBVIOUS
  <1>1. Pool \subseteq DOMAIN nodes
    BY DEF LeaseInv, PoolConserved, HeldPorts, Holding, Requesting
  <1>2. PoolSize <= Cardinality(DOMAIN nodes)
    BY <1>1, PoolSizeLemma, FS_Subset DEF LeaseInv, DemandInv
  <1>3. Cardinality(todo) \in Nat \ {0} /\ Cardinality(DOMAIN nodes) \in Nat
    BY FS_CardinalityType, FS_EmptySet DEF LeaseInv, DemandInv
  <1>4. Cardinality(DOMAIN nodes) + Cardinality(todo) <= 2 * MaxChildren
    BY <1>3 DEF LeaseInv, DemandInv, Demand, BetweenRounds, Holding, Requesting
  <1>5. QED
    BY <1>2, <1>3, <1>4, MeshAssumption, MonitorAssumption DEF EnoughPorts

\* After GetNodeStatus at most as many nodes are registered as there are rows.
LEMMA StatusBound ==
  ASSUME LeaseInv, GetNodeStatus
  PROVE  /\ IsFiniteSet(DOMAIN nodes')
         /\ Cardinality(DOMAIN nodes') <= MaxChildren
  <1> DEFINE kept == DOMAIN nodes \ MissingNodes
             rowAt == [p \in kept |-> nodes[p]]
  <1>1. DOMAIN nodes' = kept
    BY DEF GetNodeStatus
  <1>2. rowAt \in Injection(kept, children)
    <2>1. rowAt \in [kept -> children]
      BY DEF MissingNodes, ActiveNodes
    <2>2. \A p, q \in kept : rowAt[p] = rowAt[q] => p = q
      BY DEF LeaseInv, UniqueInv, NoDuplicateRegistration
    <2>3. QED
      BY <2>1, <2>2 DEF Injection, IsInjective
  <1>3. IsFiniteSet(kept) /\ IsFiniteSet(children)
    BY FS_Subset DEF LeaseInv, DemandInv, TypeInv, TypeOK, MeshTypeOK
  <1>4. Cardinality(kept) <= Cardinality(children)
    BY <1>2, <1>3, FS_Injection DEF ExistsInjection
  <1>5. Cardinality(children) <= MaxChildren
    BY DEF LeaseInv, TypeInv, TypeOK, MeshTypeOK
  <1>6. QED
    BY <1>1, <1>3, <1>4, <1>5, FS_CardinalityType, MeshAssumption

\* The counting part of the step.
LEMMA DemandStep ==
  ASSUME LeaseInv, EnoughPorts, [Next]_vars
  PROVE  DemandInv'
  <1> USE DEF DemandInv, Demand, Holding, Requesting, BetweenRounds
  <1>0. /\ IsFiniteSet(DOMAIN nodes) /\ IsFiniteSet(todo)
        /\ Cardinality(DOMAIN nodes) \in Nat /\ Cardinality(todo) \in Nat
        /\ Cardinality({}) = 0 /\ MaxChildren \in Nat
    BY FS_CardinalityType, FS_EmptySet, MeshAssumption DEF LeaseInv
  <1>1. CASE EnvironmentStep
    BY <1>1, EnvironmentFrame DEF monitorVars, routerVars, LeaseInv
  <1>2. CASE PollNetwork
    BY <1>2 DEF PollNetwork, MonitorNetworkStatus, QueryFails, monitorVars,
         LeaseInv
  <1>3. CASE CheckNewNode
    <2>1. /\ IsFiniteSet(NewNodes)
          /\ Cardinality(NewNodes) \in Nat
          /\ Cardinality(NewNodes) <= MaxChildren
      <3>1. NewNodes \in SUBSET children
        BY DEF NewNodes, ActiveNodes
      <3>2. /\ IsFiniteSet(children)
            /\ Cardinality(children) \in Nat
            /\ Cardinality(children) <= MaxChildren
        BY FS_CardinalityType DEF LeaseInv, TypeInv, TypeOK, MeshTypeOK
      <3>3. IsFiniteSet(NewNodes) /\ Cardinality(NewNodes) <= Cardinality(children)
        BY <3>1, <3>2, FS_Subset
      <3>4. QED
        BY <3>2, <3>3, FS_CardinalityType, <1>0
    <2>2. nodes' = nodes
      BY <1>3 DEF CheckNewNode, QueryFails, monitorVars
    <2>3. CASE pc' = "omr"
      BY <1>0, <1>3, <2>1, <2>2, <2>3 DEF CheckNewNode, LeaseInv
    <2>4. CASE pc' = "exited"
      BY <1>0, <1>3, <2>2, <2>4 DEF CheckNewNode, LeaseInv
    <2>5. QED
      BY <1>3, <2>3, <2>4 DEF CheckNewNode
  <1>4. CASE GetOmrIp
    <2>1. nodes' = nodes
      BY <1>4 DEF GetOmrIp, QueryFails, monitorVars
    <2>2. CASE pc' = "next" /\ todo' = todo
      BY <1>0, <1>4, <2>1, <2>2 DEF GetOmrIp, LeaseInv
    <2>3. CASE pc' = "status" /\ todo' = {}
      <3>1. Cardinality(todo') = 0 /\ IsFiniteSet(todo')
        BY <2>3, FS_EmptySet
      <3>2. QED
        BY <1>0, <1>4, <2>1, <2>3, <3>1 DEF GetOmrIp, LeaseInv
    <2>4. QED
      BY <1>4, <2>2, <2>3 DEF GetOmrIp
  <1>5. ASSUME NEW row \in todo, StartRegistration(row)
        PROVE  DemandInv'
    <2>1. nodes' = nodes /\ todo' = todo \ {row} /\ pc = "next" /\ pc' = "bind"
      BY <1>5 DEF StartRegistration, ReserveFreePort, NoFreePort, monitorVars
    <2>2. IsFiniteSet(todo') /\ Cardinality(todo') = Cardinality(todo) - 1
      BY <1>0, <2>1, FS_RemoveElement
    <2>3. QED
      BY <1>0, <2>1, <2>2 DEF LeaseInv
  <1>6. CASE BindAndRequest \/ BindFails
    BY <1>6 DEF BindAndRequest, BindFails, monitorVars, LeaseInv
  <1>7. CASE WaitStep
    BY <1>7, WaitFrame DEF monitorVars, LeaseInv
  <1>8. CASE Register
    <2>1. /\ DOMAIN nodes' = DOMAIN nodes \cup {port}
          /\ todo' = todo /\ pc = "register" /\ pc' = "spawn"
      BY <1>8 DEF Register, RegisterNode
    <2>2. port \notin DOMAIN nodes
      BY <2>1 DEF LeaseInv, PortExclusive
    <2>3. /\ IsFiniteSet(DOMAIN nodes')
          /\ Cardinality(DOMAIN nodes') = Cardinality(DOMAIN nodes) + 1
      BY <1>0, <2>1, <2>2, FS_AddElement
    <2>4. QED
      BY <1>0, <2>1, <2>3 DEF LeaseInv
  <1>9. CASE SpawnAndAnnounce
    BY <1>9 DEF SpawnAndAnnounce, NextNode, monitorVars, LeaseInv
  <1>10. CASE ReturnPort
    <2>1. nodes' = nodes /\ todo' = todo /\ pc = "return" /\ pc' = "next"
      BY <1>10 DEF ReturnPort, ReturnFreePort, NextNode
    <2>2. QED
      BY <1>0, <2>1 DEF LeaseInv
  <1>11. CASE EndOfNodes
    BY <1>11 DEF EndOfNodes, monitorVars, LeaseInv
  <1>12. CASE CheckNodeStatus
    <2>1. GetNodeStatus /\ pc = "status" /\ pc' = "poll" /\ todo' = todo
      BY <1>12 DEF CheckNodeStatus, QueryFails, EnoughPorts
    <2>2. QED
      BY <2>1, StatusBound DEF LeaseInv
  <1>13. QED
    BY <1>1, <1>2, <1>3, <1>4, <1>5, <1>6, <1>7, <1>8, <1>9, <1>10, <1>11,
       <1>12, NextSplit DEF RouterStep, WaitStep, AnswerStep

\* The ports part of the step.
LEMMA ExclusiveStep ==
  ASSUME LeaseInv, EnoughPorts, [Next]_vars
  PROVE  InPool' /\ PortExclusive'
  <1> USE DEF InPool, PortExclusive, Holding, Requesting
  <1>0. Pool' = Pool
    BY DEF Pool
  <1>1. CASE EnvironmentStep
    BY <1>0, <1>1, EnvironmentFrame DEF monitorVars, routerVars, LeaseInv
  <1>2. CASE PollNetwork
    BY <1>0, <1>2 DEF PollNetwork, MonitorNetworkStatus, QueryFails,
         monitorVars, LeaseInv
  <1>3. CASE CheckNewNode
    BY <1>0, <1>3 DEF CheckNewNode, QueryFails, monitorVars, LeaseInv
  <1>4. CASE GetOmrIp
    BY <1>0, <1>4 DEF GetOmrIp, QueryFails, monitorVars, LeaseInv
  <1>5. ASSUME NEW row \in todo, StartRegistration(row)
        PROVE  InPool' /\ PortExclusive'
    <2>1. free # {}
      BY <1>5, PortAvailable DEF StartRegistration
    <2>2. /\ port' \in free /\ free' = free \ {port'} /\ nodes' = nodes
          /\ pc' = "bind"
      BY <1>5, <2>1 DEF StartRegistration, ReserveFreePort, NoFreePort
    <2>3. QED
      BY <1>0, <2>2 DEF LeaseInv
  <1>6. CASE BindAndRequest \/ BindFails
    BY <1>0, <1>6 DEF BindAndRequest, BindFails, monitorVars, LeaseInv
  <1>7. CASE WaitStep
    BY <1>0, <1>7, WaitFrame DEF monitorVars, LeaseInv
  <1>8. CASE Register
    BY <1>0, <1>8 DEF Register, RegisterNode, LeaseInv
  <1>9. CASE SpawnAndAnnounce
    BY <1>0, <1>9 DEF SpawnAndAnnounce, NextNode, monitorVars, LeaseInv
  <1>10. CASE ReturnPort
    BY <1>0, <1>10 DEF ReturnPort, ReturnFreePort, NextNode, LeaseInv
  <1>11. CASE EndOfNodes
    BY <1>0, <1>11 DEF EndOfNodes, monitorVars, LeaseInv
  <1>12. CASE CheckNodeStatus
    BY <1>0, <1>12 DEF CheckNodeStatus, GetNodeStatus, MissingNodes,
         QueryFails, monitorVars, LeaseInv
  <1>13. QED
    BY <1>1, <1>2, <1>3, <1>4, <1>5, <1>6, <1>7, <1>8, <1>9, <1>10, <1>11,
       <1>12, NextSplit DEF RouterStep, WaitStep, AnswerStep

LEMMA LeaseInvInit == Init => LeaseInv
  <1> SUFFICES ASSUME Init PROVE LeaseInv
    OBVIOUS
  <1>1. /\ DOMAIN nodes = {} /\ todo = {} /\ free = Pool /\ pc = "poll"
    BY DEF Init, MonitorInit
  <1>2. TypeInv
    BY TypeInit
  <1>3. PoolConserved /\ UniqueInv /\ InPool /\ PortExclusive
    BY <1>1 DEF PoolConserved, UniqueInv, NoDuplicateRegistration, StillNew,
         RegisteredNodes, Holding, Requesting, InPool, PortExclusive
  <1>4. DemandInv
    BY <1>1, FS_EmptySet, MeshAssumption DEF DemandInv, BetweenRounds
  <1>5. QED
    BY <1>2, <1>3, <1>4 DEF LeaseInv

LEMMA LeaseInvStep == EnoughPorts /\ LeaseInv /\ [Next]_vars => LeaseInv'
  <1> SUFFICES ASSUME EnoughPorts, LeaseInv, [Next]_vars PROVE LeaseInv'
    OBVIOUS
  <1>1. TypeInv'
    BY NextSplit, RouterTypeStep, EnvironmentTypeStep DEF LeaseInv
  <1>2. PoolConserved' /\ UniqueInv'
    BY PoolConservedStep, UniqueStep DEF LeaseInv
  <1>3. DemandInv' /\ InPool' /\ PortExclusive'
    BY DemandStep, ExclusiveStep
  <1>4. QED
    BY <1>1, <1>2, <1>3 DEF LeaseInv

\* A pool twice the size of the child table never runs dry, and never hands
\* out a port that a node or a registration has ("100 ports should be more
\* than enough", monitor.rs), provided that GetNodeStatus does not fail.
THEOREM EnoughPortsSuffice ==
  EnoughPorts /\ Spec
    => [](PortExclusive /\ (pc = "next" /\ todo # {} => free # {}))
  <1> DEFINE Inv == EnoughPorts /\ LeaseInv
  <1>1. EnoughPorts /\ Init => Inv
    BY LeaseInvInit
  <1>2. Inv /\ [Next]_vars => Inv'
    BY LeaseInvStep DEF EnoughPorts
  <1>3. Inv => PortExclusive /\ (pc = "next" /\ todo # {} => free # {})
    BY PortAvailable DEF LeaseInv
  <1> HIDE DEF Inv
  <1>4. QED
    BY <1>1, <1>2, <1>3, PTL DEF Spec

(***************************************************************************)
(* Refinement of PortLease.  Only four kinds of step touch a port.         *)
(***************************************************************************)

LEMMA HolderInit == Init => Lease!LeaseInit
  BY DEF Init, MonitorInit, Lease!LeaseInit, Holder, HeldPorts, Holding,
       Requesting

LEMMA HolderStep ==
  ASSUME LeaseInv, EnoughPorts, [Next]_vars
  PROVE  [Lease!LeaseNext]_Holder
  <1>0. Pool' = Pool
    BY DEF Pool
  <1>1. ASSUME UNCHANGED nodes, HeldPorts' = HeldPorts
        PROVE  Holder' = Holder
    BY <1>0, <1>1 DEF Holder
  <1>2. CASE EnvironmentStep
    BY <1>1, <1>2, EnvironmentFrame DEF monitorVars, routerVars, HeldPorts,
       Holding, Requesting
  <1>3. CASE PollNetwork \/ CheckNewNode \/ GetOmrIp \/ EndOfNodes
    <2>1. UNCHANGED nodes /\ HeldPorts' = HeldPorts
      BY <1>3 DEF PollNetwork, CheckNewNode, GetOmrIp, EndOfNodes,
           MonitorNetworkStatus, QueryFails, monitorVars, HeldPorts, Holding,
                Requesting
    <2>2. QED
      BY <1>1, <2>1
  <1>4. CASE BindAndRequest \/ BindFails
    <2>1. UNCHANGED nodes /\ HeldPorts' = HeldPorts
      BY <1>4 DEF BindAndRequest, BindFails, monitorVars, HeldPorts, Holding,
           Requesting
    <2>2. QED
      BY <1>1, <2>1
  <1>5. CASE WaitStep
    <2>1. UNCHANGED nodes /\ HeldPorts' = HeldPorts
      BY <1>5, WaitFrame DEF monitorVars, HeldPorts, Holding, Requesting
    <2>2. QED
      BY <1>1, <2>1
  <1>6. CASE SpawnAndAnnounce
    <2>1. UNCHANGED nodes /\ HeldPorts' = HeldPorts
      BY <1>6 DEF SpawnAndAnnounce, NextNode, monitorVars, HeldPorts,
           Holding, Requesting
    <2>2. QED
      BY <1>1, <2>1
  <1>7. ASSUME NEW row \in todo, StartRegistration(row)
        PROVE  \E p \in Pool : Lease!Reserve(p)
    <2>1. /\ port' \in free /\ nodes' = nodes /\ pc = "next" /\ pc' = "bind"
      BY <1>7, PortAvailable DEF StartRegistration, ReserveFreePort, NoFreePort
    <2>2. port' \in Pool /\ port' \notin DOMAIN nodes
      BY <2>1 DEF LeaseInv, InPool, PortExclusive
    <2>3. HeldPorts = {} /\ HeldPorts' = {port'}
      BY <2>1 DEF HeldPorts, Holding, Requesting
    <2>4. \A q \in Pool : Holder[q] # HeldPort
      BY <2>3, RouterAssumption DEF Holder, LeaseInv, TypeInv, TypeOK,
         MonitorTypeOK
    <2>5. Holder' = [Holder EXCEPT ![port'] = HeldPort]
      BY <1>0, <2>1, <2>2, <2>3 DEF Holder
    <2>6. QED
      BY <2>2, <2>3, <2>4, <2>5 DEF Lease!Reserve, Holder
  <1>8. CASE Register
    <2>1. /\ pc = "register" /\ pc' = "spawn" /\ port' = port /\ cur' = cur
          /\ nodes' = [q \in DOMAIN nodes \cup {port} |->
                         IF q = port THEN cur ELSE nodes[q]]
      BY <1>8 DEF Register, RegisterNode
    <2>2. /\ port \in Pool /\ cur \in Row /\ cur \notin RegisteredNodes
      BY <2>1 DEF LeaseInv, InPool, Holding, Requesting, UniqueInv, StillNew,
           TypeInv,
           LocalsSet, AtWork
    <2>3. HeldPorts = {port} /\ HeldPorts' = {}
      BY <2>1 DEF HeldPorts, Holding, Requesting
    <2>4. \A q \in Pool : Holder[q] # cur
      BY <2>2, <2>3, RouterAssumption DEF Holder, RegisteredNodes
    <2>5. Holder' = [Holder EXCEPT ![port] = cur]
      BY <1>0, <2>1, <2>2, <2>3 DEF Holder
    <2>6. Holder[port] = HeldPort
      BY <2>2, <2>3 DEF Holder
    <2>7. Lease!Grant(port, cur)
      BY <2>4, <2>5, <2>6 DEF Lease!Grant
    <2>8. QED
      BY <2>2, <2>7 DEF Lease!LeaseNext
  <1>9. CASE ReturnPort
    <2>1. pc = "return" /\ pc' = "next" /\ nodes' = nodes
      BY <1>9 DEF ReturnPort, ReturnFreePort, NextNode
    <2>2. port \in Pool /\ port \notin DOMAIN nodes
      BY <2>1 DEF LeaseInv, InPool, PortExclusive, Holding, Requesting
    <2>3. HeldPorts = {port} /\ HeldPorts' = {}
      BY <2>1 DEF HeldPorts, Holding, Requesting
    <2>4. Holder' = [Holder EXCEPT ![port] = FreePort]
      BY <1>0, <2>1, <2>2, <2>3 DEF Holder
    <2>5. Lease!Release(port)
      BY <2>2, <2>3, <2>4 DEF Lease!Release, Holder
    <2>6. QED
      BY <2>2, <2>5 DEF Lease!LeaseNext
  <1>10. CASE CheckNodeStatus
    <2>1. /\ pc = "status" /\ pc' = "poll"
          /\ nodes' = [p \in DOMAIN nodes \ MissingNodes |-> nodes[p]]
      BY <1>10 DEF CheckNodeStatus, GetNodeStatus, QueryFails, EnoughPorts
    <2>2. MissingNodes \subseteq DOMAIN nodes /\ DOMAIN nodes \subseteq Pool
      BY DEF MissingNodes, LeaseInv, InPool
    <2>3. HeldPorts = {} /\ HeldPorts' = {}
      BY <2>1 DEF HeldPorts, Holding, Requesting
    <2>4. \A p \in MissingNodes : Holder[p] \in Row
      BY <2>2, <2>3 DEF Holder, LeaseInv, TypeInv, TypeOK, MonitorTypeOK
    <2>5. Holder' = [p \in Pool |->
                       IF p \in MissingNodes THEN FreePort ELSE Holder[p]]
      BY <1>0, <2>1, <2>2, <2>3 DEF Holder
    <2>6. Lease!Evict(MissingNodes)
      BY <2>4, <2>5 DEF Lease!Evict
    <2>7. QED
      BY <2>2, <2>6 DEF Lease!LeaseNext
  <1>11. QED
    BY <1>2, <1>3, <1>4, <1>5, <1>6, <1>7, <1>8, <1>9, <1>10, NextSplit
    DEF RouterStep, WaitStep, AnswerStep, Lease!LeaseNext

\* With enough ports the broker's ports are a PortLease: each goes from the
\* pool to one registration at a time, from there to one node, which has no
\* other port, or back, and from the node only back to the pool.
THEOREM LeaseIsImplemented == EnoughPorts /\ Spec => LeaseImplemented
  <1> DEFINE Inv == EnoughPorts /\ LeaseInv
  <1>1. EnoughPorts /\ Init => Inv /\ Lease!LeaseInit
    BY LeaseInvInit, HolderInit
  <1>2. Inv /\ [Next]_vars => Inv'
    BY LeaseInvStep DEF EnoughPorts
  <1>3. Inv /\ [Next]_vars => [Lease!LeaseNext]_Holder
    BY HolderStep
  <1> HIDE DEF Inv
  <1>4. QED
    BY <1>1, <1>2, <1>3, PTL DEF Spec, LeaseImplemented, Lease!LeaseSpec

=============================================================================
