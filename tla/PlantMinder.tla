----------------------------- MODULE PlantMinder -----------------------------
(***************************************************************************)
(* The terminal front end (pmindd/src/event.rs, minder.rs): what it knows  *)
(* of the nodes from the two channels it subscribed to the Broker with.    *)
(*                                                                         *)
(* The event handler task forwards readings to one queue and everything    *)
(* else to another; the main loop takes an event at a time, and looks at   *)
(* the readings only when that event is a tick.  So registrations and      *)
(* readings are not in order with each other.                              *)
(*                                                                         *)
(* A reading is where it came from and its place among those that arrived; *)
(* a node's name goes with its EUI, and its state is never changed.  What  *)
(* is drawn of all this is module NodeHistory.                             *)
(***************************************************************************)
EXTENDS Naturals, SequencesExt, FiniteSets, Selection

CONSTANTS
    Eui,          \* the nodes
    Ip,           \* the addresses they have, no two the same
    OwnerOf,      \* the node an address belongs to
    NoEui,        \* the all-zero EUI, for a node whose answer carried none
    AnswersRead,  \* every registration carries the node's EUI
    Window,       \* MAX_WINDOW (50)
    Drain,        \* readings dropped when the window is full (5)
    Limit,        \* readings taken in one tick (20)
    NumTabs,      \* NUM_TABS
    MaxRow,       \* bound: the row below which Down is still pressed
    MaxEvents,    \* bound: events queued
    MaxReadings   \* bound: readings that arrive

ASSUME MinderAssumption ==
    /\ OwnerOf \in [Ip -> Eui]
    /\ NoEui \notin Eui
    /\ AnswersRead \in BOOLEAN
    /\ Window \in Nat /\ Drain \in Nat /\ NumTabs \in Nat \ {0}
    /\ Limit \in Nat \ {0}
    /\ MaxRow \in Nat /\ MaxEvents \in Nat /\ MaxReadings \in Nat

VARIABLES
    events,      \* ticks, key presses and registrations, as the task met them
    readings,    \* data_queue_rx
    arrived,     \* number of readings that arrived so far
    running,     \* the main loop runs
    panicked,    \* it was ended by a panic
    nodes,       \* address -> EUI and history shown there
    node_addrs,  \* EUI -> address
    tab,         \* the view
    row          \* the selected row

viewVars == <<tab, row>>
nodeVars == <<nodes, node_addrs>>
vars == <<events, readings, arrived, running, panicked, nodeVars, viewVars>>

Registration == [type : {"registration"}, eui : Eui \cup {NoEui}, ip : Ip]
Termination == [type : {"termination"}, ip : Ip]
Key == [type : {"key"}, cmd : {"Quit", "Next", "Back", "Up", "Down", "Invalid"}]
Tick == [type |-> "tick"]

Reading == [ip : Ip, n : 1 .. MaxReadings]

TypeOK ==
    /\ events \in Seq(Registration \cup Termination \cup Key \cup {Tick})
    /\ readings \in Seq(Reading)
    /\ arrived \in 0 .. MaxReadings
    /\ running \in BOOLEAN
    /\ panicked \in BOOLEAN
    /\ DOMAIN nodes \subseteq Ip
    /\ nodes \in [DOMAIN nodes -> [eui : Eui \cup {NoEui}, history : Seq(Reading)]]
    /\ DOMAIN node_addrs \subseteq Eui \cup {NoEui}
    /\ node_addrs \in [DOMAIN node_addrs -> Ip]
    /\ tab \in 0 .. NumTabs - 1
    /\ row \in Nat

Init ==
    /\ events = <<>>
    /\ readings = <<>>
    /\ arrived = 0
    /\ running = TRUE
    /\ panicked = FALSE
    /\ nodes = [i \in {} |-> {}]
    /\ node_addrs = [e \in {} |-> {}]
    /\ tab = 0
    /\ row = 0

-----------------------------------------------------------------------------
(* The event handler task. *)

Forward(e) ==
    /\ running
    /\ Len(events) < MaxEvents
    /\ events' = Append(events, e)
    /\ UNCHANGED <<readings, arrived, running, panicked, nodeVars, viewVars>>

ForwardRegistration(ip) ==
    \E e \in {OwnerOf[ip]} \cup (IF AnswersRead THEN {} ELSE {NoEui}) :
        Forward([type |-> "registration", eui |-> e, ip |-> ip])

ForwardTermination(ip) == Forward([type |-> "termination", ip |-> ip])

ForwardKey(k) ==
    /\ k.cmd = "Down" => row < MaxRow
    /\ Forward(k)

ForwardReading(ip) ==
    /\ running
    /\ arrived < MaxReadings
    /\ arrived' = arrived + 1
    /\ readings' = Append(readings, [ip |-> ip, n |-> arrived + 1])
    /\ UNCHANGED <<events, running, panicked, nodeVars, viewVars>>

-----------------------------------------------------------------------------
(* The main loop. *)

\* events.next(), for an event of type t.
TakeEvent(t) ==
    /\ running
    /\ events # <<>>
    /\ Head(events).type = t
    /\ events' = Tail(events)

OfIp(batch, ip) == Select(batch, {r \in Reading : r.ip = ip})

\* new_data: the oldest readings make room when the window is full.
Overflows(old, new) == new # <<>> /\ Len(old) + Len(new) >= Window

Extended(old, new) ==
    (IF Overflows(old, new) THEN SubSeq(old, Drain + 1, Len(old)) ELSE old) \o new

\* Mutant: recv_many takes whatever there is.
AllOfThem == Len(readings)

BatchSize == IF Len(readings) < Limit THEN Len(readings) ELSE Limit

\* Mutant: what was taken is still there.
StillThere == readings

Remaining == SubSeq(readings, BatchSize + 1, Len(readings))

\* tick, recv_many: at most Limit readings go to the histories of the nodes
\* they are from; those of other addresses are dropped.  Draining more than
\* there is panics.
HandleTick ==
    /\ TakeEvent("tick")
    /\ LET batch == SubSeq(readings, 1, BatchSize)
       IN  /\ readings' = Remaining
           /\ IF \E ip \in DOMAIN nodes :
                   /\ Overflows(nodes[ip].history, OfIp(batch, ip))
                   /\ Len(nodes[ip].history) < Drain
              THEN /\ running' = FALSE
                   /\ panicked' = TRUE
                   /\ UNCHANGED nodes
              ELSE /\ nodes' = [ip \in DOMAIN nodes |->
                        [nodes[ip] EXCEPT !.history = Extended(@, OfIp(batch, ip))]]
                   /\ UNCHANGED <<running, panicked>>
    /\ UNCHANGED <<arrived, node_addrs, viewVars>>

\* Mutant: the history is looked up after the old entry was removed.
NoHistory(eui) == <<>>

\* What is known of a node from an earlier registration of its EUI.
History(eui) ==
    IF eui \in DOMAIN node_addrs /\ node_addrs[eui] \in DOMAIN nodes
    THEN nodes[node_addrs[eui]].history
    ELSE <<>>

\* Mutant: the entries that have a history are evicted, whosever they are.
KeptEmpty(eui) == {ip \in DOMAIN nodes : nodes[ip].history = <<>>}

\* Mutant: the old address is not evicted.
KeptAll(eui) == DOMAIN nodes

\* The addresses kept: the old one is evicted when it had any history.
Kept(eui) ==
    DOMAIN nodes \ (IF History(eui) # <<>> THEN {node_addrs[eui]} ELSE {})

\* node_registration.  An entry that stays at the new address keeps its EUI.
HandleRegistration ==
    /\ TakeEvent("registration")
    /\ LET reg == Head(events)
           kept == Kept(reg.eui)
       IN  /\ node_addrs' = [e \in DOMAIN node_addrs \cup {reg.eui} |->
                                IF e = reg.eui THEN reg.ip ELSE node_addrs[e]]
           /\ nodes' = [ip \in kept \cup {reg.ip} |->
                 IF ip # reg.ip THEN nodes[ip]
                 ELSE [eui |-> IF ip \in kept THEN nodes[ip].eui ELSE reg.eui,
                       history |-> History(reg.eui)]]
    /\ UNCHANGED <<readings, arrived, running, panicked, viewVars>>

\* handle_node_state_change: a termination is only logged; the node is shown on.
HandleTermination ==
    /\ TakeEvent("termination")
    /\ UNCHANGED <<readings, arrived, running, panicked, nodeVars, viewVars>>

LastRow ==
    IF DOMAIN node_addrs = {} THEN 0 ELSE Cardinality(DOMAIN node_addrs) - 1

\* Mutant: one tab too many.
NextTabLate == IF tab = NumTabs THEN 0 ELSE tab + 1

NextTab == IF tab = NumTabs - 1 THEN 0 ELSE tab + 1

\* handle_app_cmd
HandleKey ==
    /\ TakeEvent("key")
    /\ LET cmd == Head(events).cmd
       IN  /\ running' = (cmd # "Quit")
           /\ tab' = CASE cmd = "Next" -> NextTab
                       [] cmd = "Back" -> IF tab = 0 THEN NumTabs - 1 ELSE tab - 1
                       [] OTHER        -> tab
           /\ row' = CASE cmd = "Down" -> row + 1
                       [] cmd = "Up"   -> IF row = 0 THEN LastRow ELSE row - 1
                       [] OTHER        -> row
    /\ UNCHANGED <<readings, arrived, panicked, nodeVars>>

-----------------------------------------------------------------------------

Next ==
    \/ Forward(Tick)
    \/ \E k \in Key : ForwardKey(k)
    \/ \E ip \in Ip :
         \/ ForwardRegistration(ip)
         \/ ForwardTermination(ip)
         \/ ForwardReading(ip)
    \/ HandleTick
    \/ HandleRegistration
    \/ HandleTermination
    \/ HandleKey

Spec == Init /\ [][Next]_vars

-----------------------------------------------------------------------------

\* What shows a node: every EUI seen leads to an entry of its own, however
\* often the node comes back under another address.
AddrsResolve ==
    \A e \in DOMAIN node_addrs :
        /\ node_addrs[e] \in DOMAIN nodes
        /\ nodes[node_addrs[e]].eui = e

\* An entry shows readings of its node only, in the order they arrived and
\* each once, although the readings of all nodes come through one queue and
\* histories move from address to address.
HistoriesInOrder ==
    \A ip \in DOMAIN nodes :
        LET h == nodes[ip].history
        IN  /\ \A i \in DOMAIN h : OwnerOf[h[i].ip] = nodes[ip].eui
            /\ \A i, j \in DOMAIN h : i < j => h[i].n < h[j].n

\* No reading is shown twice, in one entry or in two: a history that moves to
\* another address stays at none, not even when its node is shown twice.
ReadingsShownOnce ==
    \A ip, other \in DOMAIN nodes :
        \A i \in DOMAIN nodes[ip].history, j \in DOMAIN nodes[other].history :
            nodes[ip].history[i] = nodes[other].history[j] => ip = other /\ i = j

\* Making room never drains more than there is, which would end the program
\* with a panic: a tick's batch is too small for that (recv_many, new_data).
NoPanic == ~panicked

\* A registration, of this node or another, loses no history of any node that
\* is known (node_registration carries it to the new address).
RegistrationsKeepHistories ==
    [][HandleRegistration =>
         \A e \in DOMAIN node_addrs :
            nodes'[node_addrs'[e]].history = nodes[node_addrs[e]].history]_vars

\* minder.rs: a registration evicts "the old addr from both hashmaps", so that
\* there is one entry for each node.  Refuted by a run.
OldAddressesEvicted ==
    \A ip \in DOMAIN nodes : node_addrs[nodes[ip].eui] = ip

=============================================================================
