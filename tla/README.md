# plant-minder in TLA+

Plant-minder watches plants: battery-powered sensor nodes on a Thread mesh send
readings over UDP to a *broker* that runs next to an OpenThread border router;
a terminal front end and an optional database subscribe to the broker. These
modules model the control of that system (who holds which port, what becomes of
a registration, a reading, a termination, in which order and after which
failures), check it with TLC on small instances, and prove with TLAPS, for every size, what matters
most about the port pool, the Broker, the firmware, the front end and the database.

## 1. The system

| Component | Source | State | Operations | Right when |
|---|---|---|---|---|
| OtMonitor (actor) | `pmind-broker/src/monitor.rs` | pool of free ports, `nodes` (port -> node), own OMR address | ReserveFreePort, ReturnFreePort, InternalRegistration, CheckNewNode, GetNodeStatus, MonitorNetworkStatus | no port lost or shared, no node registered twice, nodes that left are evicted |
| EventRouter monitor task | `pmind-broker/src/router.rs` | the loop's position and locals | poll, register a node with a CoAP GET, spawn its handler, announce it, return the port | every reserved port is registered or comes back, and rounds go on |
| NodeEventHandler (one task per registration) | `pmind-broker/src/node.rs` | socket, last address heard | bind, receive, time out | readings forwarded in order, one end reported |
| otbr-agent client | `pmind-broker/src/client/` | none; `ot-ctl` queries | child table, OMR prefix and address | - |
| Sensor node | `pmindp-esp32-thread/src/{platform,lib}.rs`, `bin/main.rs` | one observer address, the timer and its flag, a buffer | boot, timer interrupt, read the sensors, send, CoAP request, reset | sends to the last observer only, and goes on doing so |
| Broker | `pmind-broker/src/broker.rs` | event queue, data queue, subscribers | merge, event loop, one task per stream, subscribe, unsubscribe | subscribers get everything, in order and once |
| Terminal front end | `pmindd/src/{event,minder}.rs`, `bin/main.rs` | `nodes`, `node_addrs`, tab, row | forward events, tick, registration, key | every node has its own history, in order, and nothing panics |
| Plant database | `pmindb/src/db.rs` | `plants` and three data tables | CreateOrModify, NodeSensorData | rows belong to the plant the reading is from |
| TSL2591 driver | `pmindp-esp32-thread/src/sensor/tsl2591.rs` | gain, integration time, fault count | new, read, adjust | lux is scaled by the setting its sample was taken with |
| Other sensor drivers | `pmindp-esp32-thread/src/sensor/` | none | one bus transaction each | - |
| Rendering | `pmindd/src/ui` | none | draw the node maps | new readings can be seen |
| Reading types, device tests | `pmindp-sensor`, `pmind-tests` | none | - | - |

How they interact:

- The monitor task calls the OtMonitor actor and awaits each answer; the actor
  asks the otbr-agent. Mesh, nodes and handlers move between any two awaits.
- The monitor task and the handlers meet nodes only through UDP: datagrams are
  lost, delayed, reordered, and may come from a node that still has an earlier
  observer address.
- A registered node's stream and registration are handed over on *two* unbounded
  channels. The broker merges them, runs one task per stream, and selects between
  events, data and API calls with `tokio::select!`.
- Each subscriber has one channel for readings and one for status; the front end
  and the database each read them from different tasks, so the two are not in order with
  each other.

What is hard here: the many awaits between asking for new nodes and registering
them; a small pool with a fallback port; a socket closed by one task and bound
again by another; silent ends of tasks; nodes that restart under another
address; an interrupt that shares a flag with a loop; two channels for what belongs
together; inserts without a transaction; two register writes that are not atomic. `PROJECT.json` lists these hazards at
their lines with the properties that cover them.

## 2. Modules

```
Mesh <- OtMonitor ---------\
     <- NodeEventHandler ---+-- EventRouter -- MCEventRouter        PortLease
     <- SensorNode --------/        |                (abstract; EventRouter!Lease
     |                              `-- EventRouter_proofs            refines it)
     `----------\
Tsl2591 <-------- Esp32Platform -- MCEsp32Platform   (its Node refines SensorNode)
                       `-- Esp32Platform_proofs

Broker -- MCBroker                    (its Promise refines the abstract Subscription)
   `-- Broker_proofs <- Delivery_proofs
PlantMinder <- NodeHistory -- MCPlantMinder
   `-- PlantMinder_proofs
PlantDatabase -- MCPlantDatabase
   `-- PlantDatabase_proofs
Selection, Selection_proofs: used by Broker, PlantMinder, PlantDatabase and their proofs
```

**Mesh** (external): the child table, the OMR prefix, datagrams in flight. An
address is its first segment (all that `check_addr_update_needed` compares)
plus a host. A child has one locator and a locator one child; an address whose
prefix was replaced may linger. A datagram is lost or delivered in any order. A child that is no
sensor node may send an empty datagram or a CoAP packet too short for an EUI (`StrayKind`).

**OtMonitor**: one action per actor message. `free`, `nodes`, `addr` are
`Ports::free_ports`, `nodes` and the actor's address.
A registration replaces one of the same port, and a port is put in the pool
whether it came from there or not, as in the code.

**SensorNode**: the node as the broker meets it. `observer` is `observer_addr`;
`HandleRequest` is the CoAP branch, `SendReading` the timer branch, `Reset` a restart
with perhaps another address. A reading may be sent whenever there is an observer.
`NodeSpec` says what a node may do whatever the rest of the system does.

**Esp32Platform** is the firmware itself. `pc` is where the program is: `boot`
(the drivers are made; each failure is an `unwrap`, hence `panic`), `top` of the
loop, `send`, `receive`, `reset` (the loop was left). `fired` is
`SENSOR_TIMER_FIRED`, which the loop takes only while it has an observer; the interrupt may come
between any two steps. `SensorRead` reads soil, light and gas one after the
other into one buffer, where a sensor that fails takes no room; where the longest JSON of those that
were read does not fit, the node may panic. `ReceivePanics` is the loop's `unwrap`s. A node that
panicked stays so until power is lost or its button pressed, which may happen anywhere. The
light sensor is **Tsl2591** (`LightNew`, `LightNewFails`, `Read`), which EventRouter's node abstracts
away: `Node` maps the firmware to SensorNode.

**NodeEventHandler**: `spawned` are tasks that did not run yet, `listening` maps
a bound endpoint to `node_addr`. Time is abstracted: a timeout may strike whenever the task waits.

**EventRouter** composes the four. `pc` is where the task awaits: `poll`
(MonitorNetworkStatus), `check` (CheckNewNode), `omr` (GetOmrIp), `next` (top of
the loop over nodes), `bind`, `recv` (the 30 s select), `retry` (the sleep after an
empty answer), `again` (the wait for the answer to a retry, which no timer ends), `register`,
`spawn`, `return` (ReturnFreePort), `status` (GetNodeStatus), `exited` (the `break`) and `panicked`
(at an answer too short for an EUI; the task is gone and its port stays taken). The
first datagram at the socket that is not empty ends the wait, whoever sent it; the fallback port is
`Base + idx`. `Fallible` names the messages whose query may fail, `Strays` what else arrives.

**PortLease** is the abstract promise: a port is free, held by the one
registration in progress, or leased to one node; it changes hands by way of the
pool only. `Holder` is the refinement mapping.

**Broker** takes it from there, with a handler reduced to what it emits
(readings, and one end; SocketError is treated as Timeout is, so one value stands
for both). Its actions are the merge task's branches, the event loop's branches,
the two outcomes of `sensor_stream_process`, and the subscription calls.

**Subscription** is the abstract promise to a client: a queue per topic, each
message of which goes to those who are subscribed when its turn comes. `Topic`
is a kind of news of one stream; `Pending` gathers what waits of it in the
stream's channel, the merge task's channels and the event loop's queues.

**PlantMinder**: the event handler task (`Forward...`) and the main loop
(`HandleTick`, `HandleRegistration`, `HandleTermination`, `HandleKey`). `nodes` and
`node_addrs` are the two hash maps; a reading is its source and its place in the order of
arrival. **NodeHistory** adds what is drawn of a history: the time axis and which readings are on it.

**PlantDatabase**: the registry task, the stream task, the actor's mailbox and
the tables. Each task awaits the answer to a message before it sends another. A failing
statement leaves what the statements before it inserted; `Restart` loses what
was queued. `.first()` is modelled as the first inserted row.

**Tsl2591**: the driver's idea of gain and integration time beside the device's
control register and the setting of the device's latest `sample`. A write that fails may have
reached the device. After a change of setting the 120 ms that the driver
waits may be less than the integration time, so the sample may be older.

**Selection** is a helper: the elements of a sequence that belong to a set, in their order. It is
SelectSeq, but defined by a recursive function, of which lemmas can be proved.

Definitions whose comment starts with `Mutant:` are not part of the models. Each is a
plausible bug in the definition that follows it, which must make a
property fail when it takes that definition's place (`PROJECT.json`, `mutants`).

## 3. What the runs show

`tlc -config <run>.cfg <module>`; the longest, `delivery`, takes some three minutes.

| Run | Module | Instance | Shows |
|---|---|---|---|
| core | MCEventRouter | one node with two addresses, two locators, one row in the child table, two ports, three of the queries fallible, both strays | `TypeOK`, `PoolConserved`, `PortExclusive`, `NoDuplicateRegistration`, and `LeaseImplemented`: monitor and router refine PortLease |
| liveness | MCEventRouter | one locator, one port, two prefixes, every query fails at times, both strays | even with a pool that runs dry no port is lost (`PoolConserved`); `HeldPortsComeBack`, `StaleNodesEvicted`, `PrefixFollowed`, `RegistrationRetried`, `RoundsGoOn` |
| delivery | MCBroker | two streams, two readings between them, one client, one API call at a time | `SubscriptionImplemented`, `ReadingsInOrder`, `TerminatedOnce`, `ReadingsDelivered`, `StatusDelivered` |
| front_end | MCPlantMinder | a node with two addresses and one with one, window 4, batches of 2, six readings | `AddrsResolve`, `HistoriesInOrder`, `ReadingsShownOnce`, `NoPanic`, `RegistrationsKeepHistories` |
| database | MCPlantDatabase | the same nodes, two readings, one fault | `StoredWithItsPlant`, `SoilRowCompletes`, `TablesInOrder`, `ReadingsStored` |
| firmware | MCEsp32Platform | one node, two endpoints that ask for readings, two addresses; the code's threshold, buffer and reading lengths | `NodeImplemented`: the firmware refines SensorNode; `LuxScaledAsMeasured`, `ReadingsGoOn`, `KeepsMeasuring` |

Runs that TLC must refute, because the code does not do what its documentation
says (`PROJECT.json`, `findings`, has the quotations):

| Run | Property | What happens |
|---|---|---|
| pool_collision | `PortExclusive` | with fewer than twice as many ports as children, the fallback port is used although a node has it (and would be "returned" to the pool if the registration failed) |
| wrong_eui | `AnnouncedEuiIsTheNodes` | the answer is lost and the reading that follows it is taken as the CoAP answer; the node is announced with the zero EUI |
| live_node_terminated | `ErrorsMeanSilence` | the handler of a node's old port reports it terminated while the new one hears it |
| unserved | `RegistrationServed` | a handler that ended is not replaced while its node stays in the child table |
| ghost_entry | `OldAddressesEvicted` | a node that changes its address before its first reading is shown twice |
| newest_off_chart | `NewestOnChart` | with the code's numbers (window 50, a reading every 25 s, an axis of 1000 s) a node's newest readings lie beyond the axis |

Bounds, and why they are enough:

- *One node, two addresses, two locators*: what the monitor tells apart is rows, and
  the core instance has four of them (a node that restarts, moves, or both).
  Devices matter only to the EUI of an answer. More nodes at a time only make the pool
  smaller relative to the child table, which the theorems cover for every size.
- *One datagram in flight* (`MaxNet`): an answer, a stale reading and a loss each
  need one. A datagram that finds the bound reached is lost, as any may be.
- *Pool*: `core` has the least pool for which exclusivity holds (two per child);
  `liveness` and `pool_collision` have one port, which runs dry.
- *Two readings, two streams*: order needs two of one stream, independence two streams.
- *Window 4, drain 2, batch 2, six readings*: the code's 50, 5 and 20 scaled to
  the least for which the history overflows and is drained more than once; the relation that
  matters, batch plus drain within the window, is the same.
- *Strays* reach the registering task only: to a handler's socket they are what a late answer is.
  The refuting runs do without them, so that what they refute does not depend on foreign devices.
- *Firmware*: one node and one datagram in flight; the mesh is only there for `NodeImplemented`.
  The light fits no setting or one of the four, the cases in which the driver has to search.
- *newest_off_chart*: one node; its time is the number of readings times the
  period. The constants are the code's own, not scaled.
- *One fault* in `database`: each failure point is tried with each order of
  messages, and after it `ReadingsStored` says that the rest recovers.
- `CHECK_DEADLOCK FALSE` only in the runs of MCPlantMinder: `Quit` ends the program.
- Symmetry is used only in runs without liveness, over values that are only compared.

Fairness. In EventRouter the monitor task is weakly fair (each actor call and
bind returns, the wait for an answer is bounded by a 30 s timer, the poll by the
interval, a retry by its sleep; tokio runs a task that is ready) and so is a spawned handler's first
step. The one wait without a bound is excepted: in `again` the task is not fair, since
`recv_from` there is awaited inside the branch of the `select!` that the timer has lost to. Nothing is assumed of the mesh, of nodes, or of timeouts. Queries
may fail for ever; `StaleNodesEvicted`, `PrefixFollowed` and `RegistrationRetried` say
what follows *if* the agent answers again and again. A failing CheckNewNode ends
the task for good (`router.rs:259`); retries that are never answered, or for ever with empty datagrams, and
the panic at a short answer do so in the middle of a round (`Stuck`, `router.rs:111-132`).
`RoundsGoOn` and `HeldPortsComeBack` say that nothing else does. In Broker each `select!` branch and each stream
task is weakly fair: `select!` without `biased` picks at random among the ready
branches. In PlantDatabase the two tasks and the actor are weakly fair. In Esp32Platform the
loop is weakly fair, since none of its steps waits (`receive` returns at once), and so is the
interrupt of a running timer. `ReadingsGoOn` and `KeepsMeasuring` have as their premise that the node
is up and keeps its observer (`Serving`), so that there is no panic and no end of resets; the latter also a steady light and a working bus.

## 4. What is proved

`EventRouter_proofs` (TLAPS), for every set of devices, hosts, locators and
prefixes, every pool, child table and network bound, and every set of failing
queries and strays:

- **TypeCorrect**: `Spec => [](TypeOK /\ LocalsSet)`. The strengthening says that the
  task's `via` and `cur` are set while it is at work on a node; the finiteness and size of
  the child table are part of it.
- **PoolIsConserved**: inductive relative to the types. Each of reserve,
  register, return and evict moves a port between `free`, `nodes` and the task.
- **RegistrationIsUnique**: needs that what is still to be done (`todo`, `cur`)
  is disjoint from what is registered, and that only this task registers; the
  steps of mesh, nodes and handlers leave all of it alone.
- **EnoughPortsSuffice**: under `EnoughPorts` (`PoolSize >= 2 * MaxChildren`, and
  GetNodeStatus does not fail) no port is ever shared. Exclusivity is not
  inductive by itself, since a dry pool breaks it. The invariant `LeaseInv` adds
  a bound on demand: after GetNodeStatus at most `MaxChildren` nodes are
  registered, CheckNewNode asks for at most `MaxChildren` more, so registered
  and pending nodes together never exceed the pool and a free port is there
  (`DemandStep`, `PortAvailable`, by cardinalities).
- **LeaseIsImplemented**: `EnoughPorts /\ Spec => Lease!LeaseSpec`: every step maps to a
  PortLease step or a stutter under `Holder`.

`Broker_proofs`, for any number of streams, clients, readings and calls:

- **TypeCorrect**.
- **OrderIsKept** (`ReadingsInOrder`). What a client got says nothing of what is still under way,
  so `OrderInv` orders the whole path: in each queue the readings of a stream are in order
  (`Ordered`), what is further along was sent before what is behind (`Before`: client, data queue,
  channel), and no number is beyond `sent`. A step moves one message from the head of a queue to
  the end of the next (`AppendOrder`, `TailOrder`).
- **EndIsToldOnce** (`TerminatedOnce`). `EndInv`: once a handler ended, its end is one message in one
  of three places, its channel, the event queue or the clients' status channels, and once in each.

`Delivery_proofs`, for the same:

- **DeliveryImplemented** (`SubscriptionImplemented`): `Spec => Promise!SubscriptionSpec`. What is
  pending of a topic is a selection from a concatenation of queues. Appending to a queue outside
  a topic, or handing a message from the head of one queue to the end of the one before it, leaves
  the topic's `Pending` alone (a stutter); a new message appends to `Pending` of one topic
  (Publish); the event loop's two branches take its head and give it to `subs` (Deliver), a call
  joins or leaves. `OrderInv` supplies that a channel holds its own stream's messages only.

`Esp32Platform_proofs`, for every threshold, buffer and set of requesters:

- **TypeCorrect**, with `RequestsOfObservers`: requests under way come from observers.
- **LuxIsScaled** (`LuxScaledAsMeasured`). `Agreement`: while the fault count is below the threshold,
  driver and device have the same setting. Above it they may differ, but the next
  read then writes both or does not measure.
- **NodeIsImplemented**: every step of the firmware is a step of SensorNode or a stutter.

`PlantMinder_proofs`, for any nodes, addresses, windows and queues:

- **TypeCorrect**. The strengthening says that the map is finite, without which its last row
  would be no number.
- **AddrsAlwaysResolve** (`AddrsResolve`) and **HistoriesAreKept** (`RegistrationsKeepHistories`), under
  `AnswersRead`. `MapsInv` adds that entries, and the registrations in the queue, carry the EUI of
  the node that has the address; without it (a zero EUI) two nodes would share an entry.
- **NeverPanics** (`NoPanic`) under `Limit + Drain <= Window`, which the code's constants satisfy
  (20 + 5 <= 50): what a tick has for an entry is at most the batch (`SelectType`), so a history
  that it makes overflow has more than `Window - Limit` readings, enough to drain.
- **EachReadingShownOnce** (`ReadingsShownOnce`), with no assumption about the EUIs. A history says
  nothing of what is still to come, so `OrderInv` adds the queue: it is in order, and all that
  waits arrived after all that any entry shows. What a tick adds to an entry is thus nowhere yet,
  and a registration takes a history from the address that it evicts (`RegistrationEntries`).
- **HistoriesAlwaysInOrder** (`HistoriesInOrder`) under `AnswersRead`: `OrderInv` for the order, and
  `HistoriesOwned`, with `MapsInv`, for whose entry a reading is in.

`PlantDatabase_proofs`, for any nodes, readings, faults and restarts:

- **TypeCorrect**: each task has at most one message with the actor (`OneEach`), which bounds
  the mailbox.
- **StoredWithTheOwner** (`StoredWithItsPlant`) under `AnswersRead`. `OwnerInv` follows the EUI from
  the registration queue by the mailbox to the plants: wherever a plant is, it is the one whose
  node has the address.
- **SoilRowsComplete** (`SoilRowCompletes`). The soil row is the last of a reading's inserts, and a
  fault keeps a prefix of them (`InsertsParts`, `HandledRows`).
- **TablesAlwaysInOrder** (`TablesInOrder`). `OrderInv`: the numbers of readings increase from the tables
  by the message with the actor to the queue, none is beyond what arrived, so
  that rows are only ever added behind smaller ones, also after a restart.

`Selection_proofs` has what these rest on: the type and length of a selection, what it is of an empty
sequence, after an append, of a concatenation and of a tail (`SelectType` ... `SelectTail`), and that its
elements stand in the sequence at increasing places (`SelectPlaces`). An induction scheme is not
available, since no prover instantiates an operator parameter; the lemmas are proved over the
set of the lengths for which they hold, by its least counterexample (`UpTo`).

All of them rest on the named ASSUMEs of the modules (constants are of their types, markers
are no values), and on no other. `EnoughPorts`, `AnswersRead` and `Limit + Drain <= Window`
are hypotheses of the theorems named, not assumptions; each holds in the run that checks the property.

With this every invariant, action property and refinement that a passing run checks is a theorem. Only
model-checked: what is temporal under fairness, which is out of the prover's reach (all of `liveness` but
`PoolConserved`; `ReadingsDelivered`, `StatusDelivered`, `ReadingsStored`, `ReadingsGoOn`,
`KeepsMeasuring`); the refuting runs; NodeHistory.

## 5. What is not modelled

- Rendering beyond the time axis; wording, names of nodes and plants, update counters;
  the history queries of the database, which are `todo!()`.
- Text parsing of `ot-ctl` output (only that a query answers or fails).
- Sensor builds other than soil (ATSAMD10), light (TSL2591) and gas (BME680). The
  SHT40 takes the gas sensor's place. The probe circuit writes two raw
  bytes where `sensor_read` expects JSON, so its soil reading is never used.
- The number of bytes a reading has. Whether all three fit in the 127 of `platform.rs:90` depends on the
  digits of the measured values: with 16 characters for each `f32` they have 42, 35 and 84 bytes. Any
  two fit. The model lets the node panic when all three were read, and nothing is claimed of it.
- `pmind-tests`: example programs that need devices.
- Time as numbers, except on the chart. Timeouts are choices.
- A zero EUI (run wrong_eui) reaching front end and database: their runs take
  `AnswersRead = TRUE`. With `FALSE`, entries and rows of a node are attributed to the zero EUI.

The models also show behaviour no run is dedicated to:

- a port goes back to the pool while its handler is still bound to it (`monitor.rs:161`), and a handler that
  times out before its first datagram reports the broker's own endpoint (`node.rs:96`);
- a handler that cannot bind ends its stream's task without any subscriber
  being told (`broker.rs:247`), although `node.rs:37` says of every ErrorState that it "is
  reported to client subscribers via NodeStatus::Termination";
- `sensor_read` never fails: the branch that resets on a sensor error (`platform.rs:121`) is not
  reached, and a soil sensor that fails is sent as zeros (`platform.rs:213`);
- the fault count of the TSL2591 survives successful reads (`tsl2591.rs:471`), and the read
  that changes the setting may scale an older sample by it;
- a node that was terminated is shown as before (`minder.rs:393`).

## 6. Plan

Done: 1. Mesh, OtMonitor, SensorNode, NodeEventHandler, EventRouter, PortLease;
2. EventRouter_proofs; 3. Broker; 4. PlantMinder; 5. PlantDatabase; 6. Tsl2591;
7. Esp32Platform and its refinement of SensorNode; 8. Subscription and Broker's refinement of it; 9.
NodeHistory; 10. liveness of the monitor task under failing queries, empty and short answers; 11. proofs about Esp32Platform,
Broker and PlantMinder; 12. Selection, PlantDatabase_proofs, Delivery_proofs, and the front end's
order and drains.

Next:

1. One instance of EventRouter and Broker together, if it can be kept small enough, or what
   Broker takes of a handler (`HandlerReading`, `HandlerEnds`) as a refinement by NodeEventHandler.
2. What else a registration with a zero EUI (`AnswersRead = FALSE`) leaves true of the front end and
   the database: `ReadingsShownOnce`, `TablesInOrder` and `SoilRowCompletes` are proved for it.
