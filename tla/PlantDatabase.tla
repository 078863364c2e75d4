---------------------------- MODULE PlantDatabase ----------------------------
(***************************************************************************)
(* The database client (pmindb/src/db.rs): one task per subscribed channel *)
(* sends the PlantDatabase actor a message for each item and waits for the *)
(* answer; what the answer says is not looked at.  The actor handles one   *)
(* message after the other.                                                *)
(*                                                                         *)
(* A plant is its EUI and address; name, species and update count are left *)
(* out.  A reading is where it came from, its place among those that       *)
(* arrived, and the sensors it has data of.  An address has one node.      *)
(***************************************************************************)
EXTENDS Naturals, SequencesExt, Selection

CONSTANTS
    Eui,          \* the nodes
    Addr,         \* the addresses they have
    OwnerOf,      \* the node an address belongs to
    NoEui,        \* the all-zero EUI, for a node whose answer carried none
    AnswersRead,  \* every registration carries the node's EUI
    MaxFaults,    \* bound: failing statements and restarts of the program
    MaxQueue,     \* bound: registrations queued
    MaxReadings   \* bound: readings that arrive

ASSUME DatabaseAssumption ==
    /\ OwnerOf \in [Addr -> Eui]
    /\ NoEui \notin Eui
    /\ AnswersRead \in BOOLEAN
    /\ MaxFaults \in Nat
    /\ MaxQueue \in Nat /\ MaxReadings \in Nat

VARIABLES
    faults,    \* number of failing statements and restarts so far
    statuses,  \* the registrations in the registry task's channel
    readings,  \* the readings in the stream task's channel
    arrived,   \* number of readings that arrived so far
    mailbox,   \* the actor's messages; a task has at most one there
    plants,    \* the plants table, in the order of insertion
    rows       \* the rows of the three data tables, in the order of insertion

inputVars == <<statuses, readings, arrived>>
vars == <<faults, inputVars, mailbox, plants, rows>>

Plant == [eui : Eui \cup {NoEui}, addr : Addr]
Sensors == {{"soil"}, {"soil", "light"}, {"soil", "light", "gas"}}
Reading == [addr : Addr, n : 1 .. MaxReadings, has : Sensors]
Row == [table : {"gas", "light", "soil"}, eui : Eui \cup {NoEui}, reading : Reading]

CreateOrModify(p) == [type |-> "CreateOrModify", plant |-> p]
NodeSensorData(r) == [type |-> "NodeSensorData", reading |-> r]

TypeOK ==
    /\ faults \in 0 .. MaxFaults
    /\ statuses \in Seq(Plant)
    /\ readings \in Seq(Reading)
    /\ arrived \in 0 .. MaxReadings
    /\ mailbox \in Seq([type : {"CreateOrModify"}, plant : Plant]
                         \cup [type : {"NodeSensorData"}, reading : Reading])
    /\ Len(mailbox) <= 2
    /\ plants \in Seq(Plant)
    /\ rows \in Seq(Row)

Init ==
    /\ faults = 0
    /\ statuses = <<>>
    /\ readings = <<>>
    /\ arrived = 0
    /\ mailbox = <<>>
    /\ plants = <<>>
    /\ rows = <<>>

-----------------------------------------------------------------------------
(* The Broker's side of the two channels; a termination is only logged. *)

Registered(a) ==
    /\ Len(statuses) < MaxQueue
    /\ \E e \in {OwnerOf[a]} \cup (IF AnswersRead THEN {} ELSE {NoEui}) :
         statuses' = Append(statuses, [eui |-> e, addr |-> a])
    /\ UNCHANGED <<faults, readings, arrived, mailbox, plants, rows>>

ReadingArrives(a, has) ==
    /\ arrived < MaxReadings
    /\ arrived' = arrived + 1
    /\ readings' = Append(readings, [addr |-> a, n |-> arrived + 1, has |-> has])
    /\ UNCHANGED <<faults, statuses, mailbox, plants, rows>>

-----------------------------------------------------------------------------

InMailbox(t) == \E i \in DOMAIN mailbox : mailbox[i].type = t

\* spawn_db_conn_registry_task: the next registration, once the last is answered.
RegistryTask ==
    /\ statuses # <<>>
    /\ ~InMailbox("CreateOrModify")
    /\ statuses' = Tail(statuses)
    /\ mailbox' = Append(mailbox, CreateOrModify(Head(statuses)))
    /\ UNCHANGED <<faults, readings, arrived, plants, rows>>

\* Mutant: the stream task does not wait for the answer.
StreamTaskSends ==
    /\ readings # <<>>
    /\ \E i \in DOMAIN readings :
         /\ readings' = RemoveAt(readings, i)
         /\ mailbox' = Append(mailbox, NodeSensorData(readings[i]))
    /\ UNCHANGED <<faults, statuses, arrived, plants, rows>>

\* spawn_db_conn_sensor_stream_task: likewise for the readings.
StreamTask ==
    /\ readings # <<>>
    /\ ~InMailbox("NodeSensorData")
    /\ readings' = Tail(readings)
    /\ mailbox' = Append(mailbox, NodeSensorData(Head(readings)))
    /\ UNCHANGED <<faults, statuses, arrived, plants, rows>>

NextMessage(t) ==
    /\ mailbox # <<>>
    /\ Head(mailbox).type = t
    /\ mailbox' = Tail(mailbox)

Fault == faults < MaxFaults /\ faults' = faults + 1

\* create_or_modify_plant_record: insert, or on conflict update in place.
Upserted(p) ==
    IF \E i \in DOMAIN plants : plants[i].eui = p.eui
    THEN [i \in DOMAIN plants |-> IF plants[i].eui = p.eui THEN p ELSE plants[i]]
    ELSE Append(plants, p)

HandleCreateOrModify ==
    /\ NextMessage("CreateOrModify")
    /\ \/ plants' = Upserted(Head(mailbox).plant) /\ UNCHANGED faults
       \/ Fault /\ UNCHANGED plants
    /\ UNCHANGED <<inputVars, rows>>

\* Mutant: the query has no filter.
AnyPlant(a) == DOMAIN plants

\* Mutant: the first plant is taken, and then its address looked at.
FirstIfThere(a) == {i \in DOMAIN plants : i = 1 /\ plants[i].addr = a}

PlantsAt(a) == {i \in DOMAIN plants : plants[i].addr = a}

\* Mutant: the optional data last.
SoilFirst(r) == Select(<<"soil", "light", "gas">>, r.has)

\* insert_reading: gas and light, if there, before soil.
Inserts(r) == Select(<<"gas", "light", "soil">>, r.has)

\* insert_reading: the reading goes to the first plant at its address.  There is
\* no transaction: a statement that fails leaves what the earlier ones inserted.
HandleNodeSensorData ==
    /\ NextMessage("NodeSensorData")
    /\ LET r == Head(mailbox).reading
           tables == Inserts(r)
           eui == plants[CHOOSE i \in PlantsAt(r.addr) :
                            \A j \in PlantsAt(r.addr) : i <= j].eui
       IN  IF PlantsAt(r.addr) = {}
           THEN UNCHANGED <<faults, rows>>
           ELSE \E done \in 0 .. Len(tables) :
                  /\ IF done < Len(tables) THEN Fault ELSE UNCHANGED faults
                  /\ rows' = rows \o [i \in 1 .. done |->
                       [table |-> tables[i], eui |-> eui, reading |-> r]]
    /\ UNCHANGED <<inputVars, plants>>

\* The program ends and starts again: what was queued is lost, the tables stay.
Restart ==
    /\ Fault
    /\ statuses' = <<>>
    /\ readings' = <<>>
    /\ mailbox' = <<>>
    /\ UNCHANGED <<arrived, plants, rows>>

-----------------------------------------------------------------------------

Next ==
    \/ \E a \in Addr : Registered(a)
    \/ \E a \in Addr, has \in Sensors : ReadingArrives(a, has)
    \/ RegistryTask
    \/ StreamTask
    \/ HandleCreateOrModify
    \/ HandleNodeSensorData
    \/ Restart

Spec == Init /\ [][Next]_vars

\* Both tasks and the actor run as long as they have something to do.
FairSpec ==
    /\ Spec
    /\ WF_vars(RegistryTask)
    /\ WF_vars(StreamTask)
    /\ WF_vars(HandleCreateOrModify \/ HandleNodeSensorData)

-----------------------------------------------------------------------------

\* pmindb/src/lib.rs: addresses associate a reading to its EUI, "even if the
\* address changes": it is stored with the node it is from or not at all.
StoredWithItsPlant ==
    \A i \in DOMAIN rows : rows[i].eui = OwnerOf[rows[i].reading.addr]

\* The soil row says that a reading is complete: whichever statement failed,
\* what is in the optional tables was inserted before it.
SoilRowCompletes ==
    \A i \in DOMAIN rows : rows[i].table = "soil" =>
        \A t \in rows[i].reading.has : \E j \in 1 .. i :
            rows[j].table = t /\ rows[j].reading = rows[i].reading

\* A table has a node's readings in the order they arrived, each once.
TablesInOrder ==
    \A i, j \in DOMAIN rows :
        i < j /\ rows[i].table = rows[j].table
            => rows[i].reading.n < rows[j].reading.n

\* Once nothing fails any more, a reading that arrives while its plant is
\* recorded at its address is stored in the end, unless the plant moves before
\* that, and whatever was left half done before.
ReadingsStored ==
    \A a \in Addr, k \in 1 .. MaxReadings, has \in Sensors :
        LET r == [addr |-> a, n |-> k, has |-> has]
            recorded == \E i \in DOMAIN plants : plants[i].addr = a
        IN  (r \in ToSet(readings) /\ recorded /\ faults = MaxFaults)
              ~> (\/ ~recorded
                  \/ \E i \in DOMAIN rows : rows[i].table = "soil" /\ rows[i].reading = r)

=============================================================================
