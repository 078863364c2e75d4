----------------------------- MODULE SensorNode -----------------------------
(***************************************************************************)
(* The sensor nodes' half of the registration protocol                     *)
(* (pmindp-esp32-thread/src/platform.rs, coap_server_event_loop): a node   *)
(* remembers one observer, the last one that sent it a CoAP request, and   *)
(* sends its readings there until it is told otherwise or restarts.        *)
(***************************************************************************)
EXTENDS Mesh

CONSTANT NoObserver   \* no handshake since the node started

ASSUME SensorAssumption == NoObserver \notin Endpoint

VARIABLES
    hostOf,    \* the interface identifier each node has now
    observer   \* observer_addr of each node

sensorVars == <<hostOf, observer>>

SensorTypeOK ==
    /\ hostOf \in [Device -> Host]
    /\ observer \in [Device -> Endpoint \cup {NoObserver}]

HostsOf(d) == {h \in Host : DeviceOf[h] = d}

SensorInit ==
    /\ hostOf \in {f \in [Device -> Host] : \A d \in Device : f[d] \in HostsOf(d)}
    /\ observer = [d \in Device |-> NoObserver]

\* The source address a node uses towards ep.
SourceFor(d, ep) == [prefix |-> ep.prefix, host |-> hostOf[d]]

\* A CoAP request is answered with EUI and name, whether the answer gets
\* through or not, and its sender becomes the observer.
HandleRequest(d, m) ==
    /\ m \in net
    /\ m.type = "get"
    /\ m.to.host = hostOf[d]
    /\ SendAfter({m}, Reply(SourceFor(d, m.from), m.from))
    /\ observer' = [observer EXCEPT ![d] = m.from]
    /\ UNCHANGED <<children, omr, hostOf>>

\* The sensor timer fired and there is an observer: a reading is sent to it.
SendReading(d) ==
    /\ observer[d] # NoObserver
    /\ Send(Reading(SourceFor(d, observer[d]), observer[d]))
    /\ UNCHANGED <<children, omr, sensorVars>>

\* Send error, sensor error, brown-out or button: the cpu restarts.  The node
\* has forgotten its observer, and its address may be a new one.
Reset(d) ==
    /\ \E h \in HostsOf(d) : hostOf' = [hostOf EXCEPT ![d] = h]
    /\ observer' = [observer EXCEPT ![d] = NoObserver]
    /\ UNCHANGED meshVars

\* Whatever the nodes do not do: a datagram gets into the network that none of
\* them sent, others are received or lost, children come and go.
Elsewhere ==
    /\ \A m \in net' \ net : m.type \notin {"reply", "reading"}
    /\ UNCHANGED sensorVars

\* What the broker may expect of the nodes; Esp32Platform implements it.
NodeSpec ==
    /\ SensorInit
    /\ [][\/ \E d \in Device : \/ \E m \in net : HandleRequest(d, m)
                               \/ SendReading(d)
                               \/ Reset(d)
          \/ Elsewhere]_<<meshVars, sensorVars>>

=============================================================================
