------------------------------- MODULE Broker -------------------------------
(***************************************************************************)
(* The Broker (pmind-broker/src/broker.rs): how the events of the per-node *)
(* handlers and the registrations of the EventRouter reach the clients.    *)
(*                                                                         *)
(* Everything runs over unbounded channels.  One task merges the streams   *)
(* and registrations the router hands over into the event queue; one task  *)
(* per stream splits its events into the data queue and the event queue;   *)
(* the event loop takes from the event queue, the data queue or the client *)
(* API, whichever tokio::select! picks, and copies to every subscriber.    *)
(***************************************************************************)
EXTENDS Naturals, SequencesExt, Selection

CONSTANTS
    Stream,       \* the handlers that may be spawned, one event stream each
    Client,       \* the subscribers, each with a client id of its own
    MaxReadings,  \* bound: readings sent, over all streams
    MaxApi        \* bound: calls of the subscription API on their way

ASSUME BrokerAssumption ==
    /\ MaxReadings \in Nat
    /\ MaxApi \in Nat

VARIABLES
    handler,   \* stream -> what its NodeEventHandler is doing
    sent,      \* number of readings sent so far, over all streams
    chan,      \* stream -> NodeEvents in its channel
    streamRx,  \* receivers the router handed over (node_data_rx)
    regRx,     \* registrations the router handed over (node_reg_rx)
    events,    \* the BrokerEvent queue
    dataQueue, \* the readings of all streams
    process,   \* stream -> state of its sensor_stream_process task
    api,       \* the ClientApi queue
    subs,      \* the clients in the subscriber map
    gotData,   \* client -> readings sent to it, in order
    gotStatus  \* client -> registrations and terminations sent to it

sourceVars == <<handler, sent, streamRx, regRx>>
clientVars == <<gotData, gotStatus>>
vars == <<handler, sent, chan, streamRx, regRx, events, dataQueue, process,
          api, subs, gotData, gotStatus>>

\* SocketError is treated as Timeout is, wherever it goes.
ErrorState == {"Timeout", "SetupError"}

NodeEvent == [kind : {"SensorReading"}, of : Stream, n : 1..MaxReadings]
               \cup [kind : {"End"}, of : Stream, why : ErrorState]

Status == [kind : {"Registration"}, of : Stream]
            \cup [kind : {"Termination"}, of : Stream, why : ErrorState]

BrokerEvent == Status \cup [kind : {"SensorReportHandleCreate"}, of : Stream]

ClientApi == [op : {"Subscribe", "Unsubscribe"}, client : Client]

Reading(s, n) == [kind |-> "SensorReading", of |-> s, n |-> n]

TypeOK ==
    /\ handler \in [Stream -> {"absent", "running", "heard", "ended"}]
    /\ sent \in 0..MaxReadings
    /\ chan \in [Stream -> Seq(NodeEvent)]
    /\ streamRx \in Seq(Stream)
    /\ regRx \in Seq(Stream)
    /\ events \in Seq(BrokerEvent)
    /\ dataQueue \in Seq(NodeEvent)
    /\ process \in [Stream -> {"absent", "running", "closed"}]
    /\ api \in Seq(ClientApi)
    /\ subs \subseteq Client
    /\ gotData \in [Client -> Seq(NodeEvent)]
    /\ gotStatus \in [Client -> Seq(Status)]

Init ==
    /\ handler = [s \in Stream |-> "absent"]
    /\ sent = 0
    /\ chan = [s \in Stream |-> <<>>]
    /\ streamRx = <<>>
    /\ regRx = <<>>
    /\ events = <<>>
    /\ dataQueue = <<>>
    /\ process = [s \in Stream |-> "absent"]
    /\ api = <<>>
    /\ subs = {}
    /\ gotData = [c \in Client |-> <<>>]
    /\ gotStatus = [c \in Client |-> <<>>]

-----------------------------------------------------------------------------
(* The EventRouter and the node event handlers (router.rs, node.rs). *)

\* A registered node: its handler is spawned, its stream and its registration
\* are handed over, one on each channel.
RegisterNode(s) ==
    /\ handler[s] = "absent"
    /\ handler' = [handler EXCEPT ![s] = "running"]
    /\ streamRx' = Append(streamRx, s)
    /\ regRx' = Append(regRx, s)
    /\ UNCHANGED <<sent, chan, events, dataQueue, process, api, subs, clientVars>>

Running(s) == handler[s] \in {"running", "heard"}

\* The handler received a reading.
HandlerReading(s) ==
    /\ Running(s)
    /\ sent < MaxReadings
    /\ sent' = sent + 1
    /\ handler' = [handler EXCEPT ![s] = "heard"]
    /\ chan' = [chan EXCEPT ![s] = Append(@, Reading(s, sent + 1))]
    /\ UNCHANGED <<streamRx, regRx, events, dataQueue, process,
                   api, subs, clientVars>>

\* Mutant: a handler that timed out goes on with its loop.
HandlerGoesOn(s, why) ==
    /\ Running(s)
    /\ why = "SetupError" => handler[s] # "heard"
    /\ chan' = [chan EXCEPT ![s] = Append(@, [kind |-> "End", of |-> s, why |-> why])]
    /\ UNCHANGED <<handler, sent, streamRx, regRx, events, dataQueue, process,
                   api, subs, clientVars>>

\* The handler ends; a bind that fails is the first thing it ever does.
HandlerEnds(s, why) ==
    /\ Running(s)
    /\ why = "SetupError" => handler[s] # "heard"
    /\ handler' = [handler EXCEPT ![s] = "ended"]
    /\ chan' = [chan EXCEPT ![s] = Append(@, [kind |-> "End", of |-> s, why |-> why])]
    /\ UNCHANGED <<sent, streamRx, regRx, events, dataQueue, process,
                   api, subs, clientVars>>

-----------------------------------------------------------------------------
(* The task of Broker::new that merges the router's two channels. *)

\* Mutant: the tick cancels the branch that already took the item.
MergeStreamOrTick ==
    /\ streamRx # <<>>
    /\ streamRx' = Tail(streamRx)
    /\ \/ events' = Append(events, [kind |-> "SensorReportHandleCreate",
                                    of |-> Head(streamRx)])
       \/ UNCHANGED events
    /\ UNCHANGED <<handler, sent, chan, regRx, dataQueue, process, api, subs, clientVars>>

MergeStream ==
    /\ streamRx # <<>>
    /\ streamRx' = Tail(streamRx)
    /\ events' = Append(events, [kind |-> "SensorReportHandleCreate",
                                 of |-> Head(streamRx)])
    /\ UNCHANGED <<handler, sent, chan, regRx, dataQueue, process, api, subs, clientVars>>

\* Mutant: as above.
MergeRegistrationOrTick ==
    /\ regRx # <<>>
    /\ regRx' = Tail(regRx)
    /\ \/ events' = Append(events, [kind |-> "Registration", of |-> Head(regRx)])
       \/ UNCHANGED events
    /\ UNCHANGED <<handler, sent, chan, streamRx, dataQueue, process, api, subs, clientVars>>

MergeRegistration ==
    /\ regRx # <<>>
    /\ regRx' = Tail(regRx)
    /\ events' = Append(events, [kind |-> "Registration", of |-> Head(regRx)])
    /\ UNCHANGED <<handler, sent, chan, streamRx, dataQueue, process,
                   api, subs, clientVars>>

-----------------------------------------------------------------------------
(* event_loop *)

ToSubscribers(got, m) ==
    [c \in Client |-> IF c \in subs THEN Append(got[c], m) ELSE got[c]]

\* Mutant: whatever the event, the subscribers' status channels get it.
ForwardEvent ==
    /\ events # <<>>
    /\ events' = Tail(events)
    /\ gotStatus' = ToSubscribers(gotStatus, Head(events))
    /\ UNCHANGED <<sourceVars, chan, dataQueue, process, api, subs, gotData>>

\* NodeRegistration and NodeTermination go to every subscriber's status
\* channel; a stream gets a sensor_stream_process task of its own.
HandleEvent ==
    /\ events # <<>>
    /\ events' = Tail(events)
    /\ LET e == Head(events)
       IN  IF e.kind = "SensorReportHandleCreate"
           THEN /\ process' = [process EXCEPT ![e.of] = "running"]
                /\ UNCHANGED gotStatus
           ELSE /\ gotStatus' = ToSubscribers(gotStatus, e)
                /\ UNCHANGED process
    /\ UNCHANGED <<sourceVars, chan, dataQueue, api, subs, gotData>>

\* Mutant: only the newest reading is broadcast, as over a watch channel.
HandleNewest ==
    /\ dataQueue # <<>>
    /\ dataQueue' = <<>>
    /\ gotData' = ToSubscribers(gotData, Last(dataQueue))
    /\ UNCHANGED <<sourceVars, chan, events, process, api, subs, gotStatus>>

HandleData ==
    /\ dataQueue # <<>>
    /\ dataQueue' = Tail(dataQueue)
    /\ gotData' = ToSubscribers(gotData, Head(dataQueue))
    /\ UNCHANGED <<sourceVars, chan, events, process, api, subs, gotStatus>>

\* Subscribe replaces the client's channels, should it have an entry already;
\* Unsubscribe of a client that has none is only logged.
HandleApi ==
    /\ api # <<>>
    /\ api' = Tail(api)
    /\ LET call == Head(api)
       IN  subs' = IF call.op = "Subscribe" THEN subs \cup {call.client}
                   ELSE subs \ {call.client}
    /\ UNCHANGED <<sourceVars, chan, events, dataQueue, process, clientVars>>

-----------------------------------------------------------------------------
(* sensor_stream_process, one task per stream. *)

\* Mutant: every reading is forwarded from a task spawned for it.
ProcessReadingSpawned(s) ==
    /\ process[s] = "running"
    /\ \E i \in DOMAIN chan[s] :
         /\ chan[s][i].kind = "SensorReading"
         /\ chan' = [chan EXCEPT ![s] = RemoveAt(@, i)]
         /\ dataQueue' = Append(dataQueue, chan[s][i])
    /\ UNCHANGED <<sourceVars, events, process, api, subs, clientVars>>

ProcessReading(s) ==
    /\ process[s] = "running"
    /\ chan[s] # <<>>
    /\ Head(chan[s]).kind = "SensorReading"
    /\ chan' = [chan EXCEPT ![s] = Tail(@)]
    /\ dataQueue' = Append(dataQueue, Head(chan[s]))
    /\ UNCHANGED <<sourceVars, events, process, api, subs, clientVars>>

\* A timeout or a socket error becomes a NodeTermination, after which the task
\* only waits for its channel to close; a setup error ends it at once.  Either is
\* its end, as the handler that was the channel's sender ended with the event.
ProcessEnd(s) ==
    /\ process[s] = "running"
    /\ chan[s] # <<>>
    /\ Head(chan[s]).kind = "End"
    /\ chan' = [chan EXCEPT ![s] = Tail(@)]
    /\ process' = [process EXCEPT ![s] = "closed"]
    /\ LET why == Head(chan[s]).why
       IN  events' = IF why = "SetupError" THEN events
                     ELSE Append(events, [kind |-> "Termination", of |-> s, why |-> why])
    /\ UNCHANGED <<sourceVars, dataQueue, api, subs, clientVars>>

-----------------------------------------------------------------------------
(* BrokerHandle: the call returns as soon as the request is queued. *)

CallApi(c, op) ==
    /\ Len(api) < MaxApi
    /\ api' = Append(api, [op |-> op, client |-> c])
    /\ UNCHANGED <<sourceVars, chan, events, dataQueue, process, subs, clientVars>>

-----------------------------------------------------------------------------

StreamTask(s) == ProcessReading(s) \/ ProcessEnd(s)

Next ==
    \/ MergeStream
    \/ MergeRegistration
    \/ HandleEvent
    \/ HandleData
    \/ HandleApi
    \/ \E s \in Stream :
         \/ StreamTask(s)
         \/ RegisterNode(s)
         \/ HandlerReading(s)
         \/ \E why \in ErrorState : HandlerEnds(s, why)
    \/ \E c \in Client, op \in {"Subscribe", "Unsubscribe"} : CallApi(c, op)

Spec == Init /\ [][Next]_vars

(***************************************************************************)
(* Fairness.  select! without `biased` tries its branches in random order, *)
(* so a branch that stays ready is taken in the end; a queue that is not   *)
(* empty stays so until its one reader takes from it.  Nothing is assumed  *)
(* of the router, the handlers and the clients.                            *)
(***************************************************************************)
FairSpec ==
    /\ Spec
    /\ WF_vars(MergeStream)
    /\ WF_vars(MergeRegistration)
    /\ WF_vars(HandleEvent)
    /\ WF_vars(HandleData)
    /\ WF_vars(HandleApi)
    /\ \A s \in Stream : WF_vars(StreamTask(s))

-----------------------------------------------------------------------------

\* The readings of a node reach a subscriber in the order its handler sent
\* them, each at most once, whatever the queues and tasks in between.
ReadingsInOrder ==
    \A c \in Client : \A i, j \in DOMAIN gotData[c] :
        i < j /\ gotData[c][i].of = gotData[c][j].of
            => gotData[c][i].n < gotData[c][j].n

\* A node is reported terminated at most once, and never while its handler is
\* still running (node.rs breaks out of its loop once it reported the error).
TerminatedOnce ==
    \A c \in Client : \A i \in DOMAIN gotStatus[c] :
        gotStatus[c][i].kind = "Termination" =>
            /\ handler[gotStatus[c][i].of] = "ended"
            /\ \A j \in DOMAIN gotStatus[c] \ {i} :
                 gotStatus[c][j].of = gotStatus[c][i].of
                     => gotStatus[c][j].kind # "Termination"

(***************************************************************************)
(* The Broker in the terms of Subscription.  A topic is one kind of news   *)
(* of one stream; what is published of it waits in up to three queues, the *)
(* one furthest along first.                                               *)
(***************************************************************************)
Topic == Stream \X {"SensorReading", "Registration", "Termination"}

\* The messages of each topic.
About ==
    [t \in Topic |-> {m \in NodeEvent \cup BrokerEvent : m.of = t[1] /\ m.kind = t[2]}]

OnTopic(queue, t) == Select(queue, About[t])

\* The ends that will be reported.
Ends == {m \in NodeEvent : m.kind = "End" /\ m.why # "SetupError"}

\* What of t is published and not in the event queue yet: registrations for the
\* merge task, or ends that the stream's task is going to report.
Waiting(t) ==
    IF t[2] = "Registration" THEN Select(regRx, {t[1]})
    ELSE Select(chan[t[1]], Ends)

\* The news of t without what the topic says already: a reading's number.
News(queue) == [i \in DOMAIN queue |-> IF queue[i].kind = "SensorReading" THEN queue[i].n ELSE 0]

Pending ==
    [t \in Topic |->
        IF t[2] = "SensorReading" THEN News(OnTopic(dataQueue \o chan[t[1]], t))
        ELSE News(OnTopic(events, t)) \o [i \in DOMAIN Waiting(t) |-> 0]]

Got ==
    [c \in Client |-> [t \in Topic |->
        News(OnTopic(IF t[2] = "SensorReading" THEN gotData[c] ELSE gotStatus[c], t))]]

Promise == INSTANCE Subscription
           WITH Message <- 0 .. MaxReadings, pending <- Pending,
                members <- subs, got <- Got

\* Merge task, event loop and stream tasks together are a Subscription: what is
\* published is lost or sent twice in none of the queues between, readings and
\* statuses are not reordered, and a subscription begins and ends at one point
\* for all topics.
SubscriptionImplemented == Promise!SubscriptionSpec

\* A reading that a handler sent while c was subscribed reaches c, unless c
\* unsubscribes, although its stream may not have a task yet.
ReadingsDelivered ==
    \A c \in Client, s \in Stream, n \in 1 .. MaxReadings :
        (c \in subs /\ Reading(s, n) \in ToSet(chan[s]))
            ~> (c \notin subs \/ Reading(s, n) \in ToSet(gotData[c]))

\* A registration reaches every client that stays subscribed, and so does the
\* end of a handler by timeout or socket error: "manage when nodes drop off the
\* network (socket clean up, notify subscribing clients)" (README.md:65).
StatusDelivered ==
    \A c \in Client, s \in Stream :
        /\ (c \in subs /\ s \in ToSet(regRx))
             ~> (c \notin subs \/ [kind |-> "Registration", of |-> s] \in ToSet(gotStatus[c]))
        /\ (c \in subs /\ [kind |-> "End", of |-> s, why |-> "Timeout"] \in ToSet(chan[s]))
             ~> (\/ c \notin subs
                 \/ [kind |-> "Termination", of |-> s, why |-> "Timeout"]
                      \in ToSet(gotStatus[c]))

=============================================================================
