-------------------------------- MODULE Mesh --------------------------------
(***************************************************************************)
(* The Thread mesh as the broker sees it through the otbr-agent: the child *)
(* table `ot-ctl childip` prints, the OMR prefix `ot-ctl prefix` prints,   *)
(* and the datagrams in flight between the broker and the sensor nodes.    *)
(*                                                                         *)
(* The otbr-agent and the radio are external to the repository: they are   *)
(* modelled from how client/cli.rs queries them and from the sockets the   *)
(* broker and the nodes use.  An IPv6 address is its first segment, the    *)
(* only part of the prefix the broker ever compares, and the host the rest *)
(* of it names.                                                            *)
(***************************************************************************)
EXTENDS Naturals, FiniteSets

CONSTANTS
    Device,       \* the sensor nodes, named by their EUI
    Host,         \* the interface identifiers the nodes take, one per start
    DeviceOf,     \* the node that takes an interface identifier
    Rloc,         \* routing locators
    Prefix,       \* first segments of the prefixes that may be the OMR prefix
    MaxChildren,  \* size of the child table
    MaxNet        \* bound: datagrams in flight

ASSUME MeshAssumption ==
    /\ DeviceOf \in [Host -> Device]
    /\ \A d \in Device : \E h \in Host : DeviceOf[h] = d
    /\ MaxChildren \in Nat
    /\ MaxNet \in Nat

VARIABLES
    children,  \* the rows of the child table
    omr,       \* first segment of the current OMR prefix
    net        \* the datagrams in flight

meshVars == <<children, omr, net>>

Ip == [prefix : Prefix, host : Host]

\* What get_child_ips returns a vector of: routing locator and address.
Row == [rloc : Rloc, ip : Ip]

\* A UDP address of the border router: its OMR address and a port.
Endpoint == [prefix : Prefix, port : Nat]

(***************************************************************************)
(* Datagrams.  The CoAP GET carries the observer's port in its message id, *)
(* so its source endpoint says all that the node learns from it.  A child  *)
(* that is no sensor node may send anything; what the broker tells apart   *)
(* is a datagram of no bytes, "empty", and a CoAP packet whose payload is  *)
(* shorter than an EUI, "short".                                           *)
(***************************************************************************)
Get(ep, ip) == [type |-> "get", from |-> ep, to |-> ip]
Reply(ip, ep) == [type |-> "reply", from |-> ip, to |-> ep]
Reading(ip, ep) == [type |-> "reading", from |-> ip, to |-> ep]
Stray(kind, ip, ep) == [type |-> kind, from |-> ip, to |-> ep]

StrayKind == {"empty", "short"}

Message == [type : {"get"}, from : Endpoint, to : Ip]
             \cup [type : {"reply", "reading"} \cup StrayKind,
                   from : Ip, to : Endpoint]

MeshTypeOK ==
    /\ children \subseteq Row
    /\ IsFiniteSet(children)
    /\ Cardinality(children) <= MaxChildren
    /\ omr \in Prefix
    /\ net \subseteq Message

MeshInit ==
    /\ children = {}
    /\ omr \in Prefix
    /\ net = {}

-----------------------------------------------------------------------------

\* send_to / socket.send with m, after `used` was taken out of the network: a
\* datagram that finds the bound reached, or that the radio loses, is gone.
SendAfter(used, m) ==
    \/ net' = net \ used
    \/ /\ Cardinality((net \ used) \cup {m}) <= MaxNet
       /\ net' = (net \ used) \cup {m}

Send(m) == SendAfter({}, m)

\* A datagram is lost, or arrives where no socket is bound.
Lose(m) ==
    /\ m \in net
    /\ net' = net \ {m}
    /\ UNCHANGED <<children, omr>>

\* The address of host h becomes reachable at locator r.  A child has one
\* locator, a locator one child, and an address is registered once.
Attach(r, h) ==
    LET row == [rloc |-> r, ip |-> [prefix |-> omr, host |-> h]]
    IN  /\ \A other \in children :
             /\ other.ip # row.ip
             /\ other.rloc = r <=> other.ip.host = h
        /\ Cardinality(children) < MaxChildren
        /\ children' = children \cup {row}
        /\ UNCHANGED <<omr, net>>

\* The child times out, leaves for another router, or drops the address.
Detach(row) ==
    /\ row \in children
    /\ children' = children \ {row}
    /\ UNCHANGED <<omr, net>>

\* The network's OMR prefix is replaced; addresses of the old one linger.
ChangePrefix(p) ==
    /\ p # omr
    /\ omr' = p
    /\ UNCHANGED <<children, net>>

=============================================================================
