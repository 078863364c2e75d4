---------------------------- MODULE Broker_proofs ----------------------------
(***************************************************************************)
(* Proofs about the Broker, for any number of streams, clients, readings   *)
(* and calls.                                                              *)
(***************************************************************************)
EXTENDS Broker, TLAPS

(***************************************************************************)
(* Sequences.                                                              *)
(***************************************************************************)

LEMMA AppendParts ==
  ASSUME NEW S, NEW q \in Seq(S), NEW m \in S
  PROVE  /\ Append(q, m) \in Seq(S)
         /\ DOMAIN q = 1 .. Len(q) /\ Len(q) \in Nat
         /\ DOMAIN Append(q, m) = 1 .. Len(q) + 1
         /\ \A i \in 1 .. Len(q) : Append(q, m)[i] = q[i]
         /\ Append(q, m)[Len(q) + 1] = m
  OBVIOUS

LEMMA TailParts ==
  ASSUME NEW S, NEW q \in Seq(S), q # <<>>
  PROVE  /\ Tail(q) \in Seq(S)
         /\ Head(q) \in S /\ Head(q) = q[1]
         /\ DOMAIN q = 1 .. Len(q) /\ Len(q) \in Nat \ {0}
         /\ DOMAIN Tail(q) = 1 .. Len(q) - 1
         /\ \A i \in 1 .. Len(q) - 1 : Tail(q)[i] = q[i + 1]
  OBVIOUS

(***************************************************************************)
(* Types.                                                                  *)
(***************************************************************************)

LEMMA TypeInit == Init => TypeOK
  BY BrokerAssumption DEF Init, TypeOK

LEMMA ReadingType ==
  ASSUME NEW s \in Stream, NEW n \in 1 .. MaxReadings
  PROVE  Reading(s, n) \in NodeEvent
  BY DEF Reading, NodeEvent

LEMMA ToSubscribersType ==
  ASSUME NEW S, NEW got \in [Client -> Seq(S)], NEW m \in S
  PROVE  ToSubscribers(got, m) \in [Client -> Seq(S)]
  <1>1. \A c \in Client : Append(got[c], m) \in Seq(S)
    BY AppendParts
  <1>2. QED
    BY <1>1 DEF ToSubscribers

LEMMA TypeStep == TypeOK /\ [Next]_vars => TypeOK'
  <1> SUFFICES ASSUME TypeOK, [Next]_vars
               PROVE  TypeOK'
    OBVIOUS
  <1> USE DEF TypeOK
  <1>1. ASSUME NEW s \in Stream, RegisterNode(s)
        PROVE  TypeOK'
    BY <1>1 DEF RegisterNode, clientVars
  <1>2. ASSUME NEW s \in Stream, HandlerReading(s)
        PROVE  TypeOK'
    <2>1. sent + 1 \in 1 .. MaxReadings
      BY <1>2, BrokerAssumption DEF HandlerReading
    <2>2. chan' \in [Stream -> Seq(NodeEvent)]
      BY <1>2, <2>1, ReadingType, AppendParts DEF HandlerReading
    <2>3. QED
      BY <1>2, <2>1, <2>2 DEF HandlerReading, clientVars
  <1>3. ASSUME NEW s \in Stream, NEW why \in ErrorState, HandlerEnds(s, why)
        PROVE  TypeOK'
    <2>1. [kind |-> "End", of |-> s, why |-> why] \in NodeEvent
      BY DEF NodeEvent
    <2>2. chan' \in [Stream -> Seq(NodeEvent)]
      BY <1>3, <2>1, AppendParts DEF HandlerEnds
    <2>3. QED
      BY <1>3, <2>2 DEF HandlerEnds, clientVars
  <1>4. CASE MergeStream
    <2>1. Head(streamRx) \in Stream /\ streamRx' \in Seq(Stream)
      BY <1>4, TailParts DEF MergeStream
    <2>2. [kind |-> "SensorReportHandleCreate", of |-> Head(streamRx)] \in BrokerEvent
      BY <2>1 DEF BrokerEvent
    <2>3. QED
      BY <1>4, <2>1, <2>2, AppendParts DEF MergeStream, clientVars
  <1>5. CASE MergeRegistration
    <2>1. Head(regRx) \in Stream /\ regRx' \in Seq(Stream)
      BY <1>5, TailParts DEF MergeRegistration
    <2>2. [kind |-> "Registration", of |-> Head(regRx)] \in BrokerEvent
      BY <2>1 DEF BrokerEvent, Status
    <2>3. QED
      BY <1>5, <2>1, <2>2, AppendParts DEF MergeRegistration, clientVars
  <1>6. CASE HandleEvent
    <2>1. Head(events) \in BrokerEvent /\ events' \in Seq(BrokerEvent)
      BY <1>6, TailParts DEF HandleEvent
    <2>2. CASE Head(events).kind = "SensorReportHandleCreate"
      <3>1. Head(events).of \in Stream
        BY <2>1 DEF BrokerEvent, Status
      <3>2. QED
        BY <1>6, <2>1, <2>2, <3>1 DEF HandleEvent, sourceVars
    <2>3. CASE Head(events).kind # "SensorReportHandleCreate"
      <3>1. Head(events) \in Status
        BY <2>1, <2>3 DEF BrokerEvent
      <3>2. gotStatus' = ToSubscribers(gotStatus, Head(events))
        BY <1>6, <2>3 DEF HandleEvent
      <3>3. gotStatus' \in [Client -> Seq(Status)]
        BY <3>1, <3>2, ToSubscribersType
      <3>4. QED
        BY <1>6, <2>1, <2>3, <3>3 DEF HandleEvent, sourceVars
    <2>4. QED
      BY <2>2, <2>3
  <1>7. CASE HandleData
    <2>1. Head(dataQueue) \in NodeEvent /\ dataQueue' \in Seq(NodeEvent)
      BY <1>7, TailParts DEF HandleData
    <2>2. gotData' \in [Client -> Seq(NodeEvent)]
      BY <1>7, <2>1, ToSubscribersType DEF HandleData
    <2>3. QED
      BY <1>7, <2>1, <2>2 DEF HandleData, sourceVars
  <1>8. CASE HandleApi
    <2>1. Head(api) \in ClientApi /\ api' \in Seq(ClientApi)
      BY <1>8, TailParts DEF HandleApi
    <2>2. subs' \subseteq Client
      BY <1>8, <2>1 DEF HandleApi, ClientApi
    <2>3. QED
      BY <1>8, <2>1, <2>2 DEF HandleApi, sourceVars, clientVars
  <1>9. ASSUME NEW s \in Stream, ProcessReading(s)
        PROVE  TypeOK'
    <2>1. Head(chan[s]) \in NodeEvent /\ Tail(chan[s]) \in Seq(NodeEvent)
      BY <1>9, TailParts DEF ProcessReading
    <2>2. dataQueue' \in Seq(NodeEvent)
      BY <1>9, <2>1, AppendParts DEF ProcessReading
    <2>3. QED
      BY <1>9, <2>1, <2>2 DEF ProcessReading, sourceVars, clientVars
  <1>10. ASSUME NEW s \in Stream, ProcessEnd(s)
         PROVE  TypeOK'
    <2>1. Head(chan[s]) \in NodeEvent /\ Tail(chan[s]) \in Seq(NodeEvent)
      BY <1>10, TailParts DEF ProcessEnd
    <2>2. [kind |-> "Termination", of |-> s, why |-> Head(chan[s]).why] \in BrokerEvent
      BY <1>10, <2>1 DEF ProcessEnd, NodeEvent, BrokerEvent, Status
    <2>3. events' \in Seq(BrokerEvent)
      BY <1>10, <2>2, AppendParts DEF ProcessEnd
    <2>4. QED
      BY <1>10, <2>1, <2>3 DEF ProcessEnd, sourceVars, clientVars
  <1>11. ASSUME NEW c \in Client, NEW op \in {"Subscribe", "Unsubscribe"}, CallApi(c, op)
         PROVE  TypeOK'
    <2>1. [op |-> op, client |-> c] \in ClientApi
      BY DEF ClientApi
    <2>2. QED
      BY <1>11, <2>1, AppendParts DEF CallApi, sourceVars, clientVars
  <1>12. CASE UNCHANGED vars
    BY <1>12 DEF vars
  <1>13. QED
    BY <1>1, <1>2, <1>3, <1>4, <1>5, <1>6, <1>7, <1>8, <1>9, <1>10, <1>11, <1>12
    DEF Next, StreamTask

\* Types, for every instance.
THEOREM TypeCorrect == Spec => []TypeOK
  BY TypeInit, TypeStep, PTL DEF Spec

(***************************************************************************)
(* Order.  A reading moves from its stream's channel to the data queue and *)
(* from there to the clients; whatever of its stream is further along was  *)
(* sent before it.                                                         *)
(***************************************************************************)

\* If m and k are readings of one stream, m was sent first.
Earlier(m, k) ==
    m.kind = "SensorReading" /\ k.kind = "SensorReading" /\ m.of = k.of => m.n < k.n

Ordered(q) == \A i, j \in DOMAIN q : i < j => Earlier(q[i], q[j])

Before(q, r) == \A i \in DOMAIN q, j \in DOMAIN r : Earlier(q[i], r[j])

SentByNow(q) == \A i \in DOMAIN q : q[i].kind = "SensorReading" => q[i].n <= sent

OrderInv ==
    /\ \A s \in Stream :
         /\ \A i \in DOMAIN chan[s] : chan[s][i].of = s
         /\ Ordered(chan[s]) /\ SentByNow(chan[s])
         /\ Before(dataQueue, chan[s])
    /\ \A i \in DOMAIN dataQueue : dataQueue[i].kind = "SensorReading"
    /\ Ordered(dataQueue) /\ SentByNow(dataQueue)
    /\ \A c \in Client :
         /\ \A i \in DOMAIN gotData[c] : gotData[c][i].kind = "SensorReading"
         /\ Ordered(gotData[c]) /\ SentByNow(gotData[c])
         /\ Before(gotData[c], dataQueue)
         /\ \A s \in Stream : Before(gotData[c], chan[s])

LEMMA OrderInit == Init => OrderInv
  BY DEF Init, OrderInv, Ordered, Before, SentByNow

\* What joins a queue is ordered after what is there.
LEMMA AppendOrder ==
  ASSUME NEW q \in Seq(NodeEvent), NEW m \in NodeEvent, Ordered(q),
         \A i \in DOMAIN q : Earlier(q[i], m)
  PROVE  /\ Ordered(Append(q, m))
         /\ \A r : Before(q, r) /\ (\A j \in DOMAIN r : Earlier(m, r[j]))
                    => Before(Append(q, m), r)
         /\ \A r : Before(r, q) /\ (\A i \in DOMAIN r : Earlier(r[i], m))
                    => Before(r, Append(q, m))
  <1>1. /\ DOMAIN q = 1 .. Len(q) /\ Len(q) \in Nat
        /\ DOMAIN Append(q, m) = 1 .. Len(q) + 1
        /\ \A i \in 1 .. Len(q) : Append(q, m)[i] = q[i]
        /\ Append(q, m)[Len(q) + 1] = m
    BY AppendParts
  <1> DEFINE p == Append(q, m)
  <1> HIDE DEF p
  <1>2. \A i \in DOMAIN p : (i \in DOMAIN q /\ p[i] = q[i]) \/ (i = Len(q) + 1 /\ p[i] = m)
    BY <1>1 DEF p
  <1>3. \A i, j \in DOMAIN p : i < j => i \in DOMAIN q
    BY <1>1 DEF p
  <1>4. Ordered(p)
    BY <1>2, <1>3 DEF Ordered
  <1>5. QED
    BY <1>2, <1>4 DEF p, Before

\* What leaves a queue is ordered before what stays.
LEMMA TailOrder ==
  ASSUME NEW q \in Seq(NodeEvent), q # <<>>
  PROVE  /\ Ordered(q) => Ordered(Tail(q)) /\ \A i \in DOMAIN Tail(q) : Earlier(Head(q), Tail(q)[i])
         /\ \A r : Before(q, r) => Before(Tail(q), r) /\ \A j \in DOMAIN r : Earlier(Head(q), r[j])
         /\ \A r : Before(r, q) => Before(r, Tail(q)) /\ \A j \in DOMAIN r : Earlier(r[j], Head(q))
  <1>1. /\ Head(q) = q[1]
        /\ DOMAIN q = 1 .. Len(q) /\ Len(q) \in Nat \ {0}
        /\ DOMAIN Tail(q) = 1 .. Len(q) - 1
        /\ \A i \in 1 .. Len(q) - 1 : Tail(q)[i] = q[i + 1]
    BY TailParts
  <1> DEFINE t == Tail(q)
  <1> HIDE DEF t
  <1>2. 1 \in DOMAIN q /\ \A i \in DOMAIN t : i + 1 \in DOMAIN q /\ t[i] = q[i + 1] /\ 1 < i + 1
    BY <1>1 DEF t
  <1>3. Ordered(q) => Ordered(t) /\ \A i \in DOMAIN t : Earlier(q[1], t[i])
    <2>1. \A i, j \in DOMAIN t : i < j => i + 1 < j + 1
      BY <1>1 DEF t
    <2>2. QED
      BY <1>2, <2>1 DEF Ordered
  <1>4. QED
    BY <1>1, <1>2, <1>3 DEF t, Before

LEMMA OrderStep == TypeOK /\ OrderInv /\ [Next]_vars => OrderInv'
  <1> SUFFICES ASSUME TypeOK, OrderInv, [Next]_vars
               PROVE  OrderInv'
    OBVIOUS
  <1>0. UNCHANGED <<sent, chan, dataQueue, gotData>> => OrderInv'
    BY DEF OrderInv, Ordered, Before, SentByNow
  <1>1. ASSUME NEW s \in Stream, HandlerReading(s)
        PROVE  OrderInv'
    <2> DEFINE m == Reading(s, sent + 1)
    <2>1. /\ m \in NodeEvent /\ m.kind = "SensorReading" /\ m.of = s /\ m.n = sent + 1
          /\ sent \in Nat /\ sent' = sent + 1
          /\ chan' = [chan EXCEPT ![s] = Append(@, m)]
          /\ UNCHANGED <<dataQueue, gotData>>
      BY <1>1, BrokerAssumption, ReadingType DEF HandlerReading, Reading, TypeOK, clientVars
    <2> HIDE DEF m
    <2>2. \A q \in Seq(NodeEvent) : SentByNow(q) =>
            SentByNow(q)' /\ \A i \in DOMAIN q : Earlier(q[i], m)
      <3> SUFFICES ASSUME NEW q \in Seq(NodeEvent), SentByNow(q)
                   PROVE  /\ \A i \in DOMAIN q : q[i].kind = "SensorReading" => q[i].n <= sent'
                          /\ \A i \in DOMAIN q : Earlier(q[i], m)
        BY DEF SentByNow
      <3>1. ASSUME NEW i \in DOMAIN q, q[i].kind = "SensorReading"
            PROVE  q[i].n <= sent' /\ q[i].n < m.n
        <4>1. q[i] \in NodeEvent
          OBVIOUS
        <4>2. q[i].n \in Int /\ q[i].n <= sent
          BY <3>1, <4>1, BrokerAssumption DEF NodeEvent, SentByNow
        <4>3. QED
          BY <2>1, <4>2
      <3>2. QED
        BY <3>1 DEF Earlier
    <2>3. /\ chan[s] \in Seq(NodeEvent) /\ dataQueue \in Seq(NodeEvent)
          /\ \A c \in Client : gotData[c] \in Seq(NodeEvent)
          /\ \A t \in Stream : chan[t] \in Seq(NodeEvent)
          /\ chan'[s] = Append(chan[s], m)
          /\ \A t \in Stream : t # s => chan'[t] = chan[t]
      BY <2>1 DEF TypeOK
    <2>4. /\ \A i \in DOMAIN chan'[s] : chan'[s][i].of = s
          /\ \A i \in DOMAIN chan'[s] :
               chan'[s][i].kind = "SensorReading" => chan'[s][i].n <= sent'
      <3>1. \A i \in DOMAIN chan'[s] : chan'[s][i] = m \/ (i \in DOMAIN chan[s] /\ chan'[s][i] = chan[s][i])
        BY <2>1, <2>3, AppendParts
      <3>2. \A i \in DOMAIN chan[s] : chan[s][i].kind = "SensorReading" => chan[s][i].n <= sent'
        BY <2>2, <2>3 DEF OrderInv, SentByNow
      <3>3. QED
        BY <2>1, <3>1, <3>2 DEF OrderInv
    <2>5. /\ Ordered(chan'[s])
          /\ Before(dataQueue, chan'[s])
          /\ \A c \in Client : Before(gotData[c], chan'[s])
      BY <2>1, <2>2, <2>3, AppendOrder DEF OrderInv
    <2>6. /\ SentByNow(dataQueue)'
          /\ \A c \in Client : SentByNow(gotData[c])'
          /\ \A t \in Stream : t # s => SentByNow(chan[t])'
      <3>1. \A q \in Seq(NodeEvent) : SentByNow(q) =>
              \A i \in DOMAIN q : q[i].kind = "SensorReading" => q[i].n <= sent'
        BY <2>2 DEF SentByNow
      <3>2. QED
        BY <2>1, <2>3, <3>1 DEF OrderInv, SentByNow
    <2>7. QED
      BY <2>1, <2>3, <2>4, <2>5, <2>6 DEF OrderInv, SentByNow
  <1>2. ASSUME NEW s \in Stream, NEW why \in ErrorState, HandlerEnds(s, why)
        PROVE  OrderInv'
    <2> DEFINE m == [kind |-> "End", of |-> s, why |-> why]
    <2>1. /\ m \in NodeEvent /\ m.kind = "End" /\ m.of = s
          /\ chan' = [chan EXCEPT ![s] = Append(@, m)]
          /\ UNCHANGED <<sent, dataQueue, gotData>>
      BY <1>2 DEF HandlerEnds, NodeEvent, clientVars
    <2> HIDE DEF m
    <2>2. /\ chan[s] \in Seq(NodeEvent)
          /\ chan'[s] = Append(chan[s], m)
          /\ \A t \in Stream : t # s => chan'[t] = chan[t]
      BY <2>1 DEF TypeOK
    <2>3. \A k : Earlier(k, m)
      BY <2>1 DEF Earlier
    <2>4. /\ Ordered(chan'[s])
          /\ Before(dataQueue, chan'[s])
          /\ \A c \in Client : Before(gotData[c], chan'[s])
      BY <2>1, <2>2, <2>3, AppendOrder DEF OrderInv
    <2>5. \A i \in DOMAIN chan'[s] : chan'[s][i] = m \/ (i \in DOMAIN chan[s] /\ chan'[s][i] = chan[s][i])
      BY <2>1, <2>2, AppendParts
    <2>6. QED
      BY <2>1, <2>2, <2>4, <2>5 DEF OrderInv, SentByNow
  <1>3. ASSUME NEW s \in Stream, ProcessReading(s)
        PROVE  OrderInv'
    <2> DEFINE m == Head(chan[s])
    <2>1. /\ chan[s] \in Seq(NodeEvent) /\ chan[s] # <<>> /\ dataQueue \in Seq(NodeEvent)
          /\ \A c \in Client : gotData[c] \in Seq(NodeEvent)
          /\ m.kind = "SensorReading"
          /\ chan'[s] = Tail(chan[s])
          /\ \A t \in Stream : t # s => chan'[t] = chan[t]
          /\ dataQueue' = Append(dataQueue, m)
          /\ UNCHANGED <<sent, gotData>>
      BY <1>3 DEF ProcessReading, sourceVars, clientVars, TypeOK
    <2>2. /\ m \in NodeEvent /\ m = chan[s][1] /\ 1 \in DOMAIN chan[s]
          /\ \A i \in DOMAIN Tail(chan[s]) :
               i + 1 \in DOMAIN chan[s] /\ Tail(chan[s])[i] = chan[s][i + 1]
      BY <2>1, TailParts
    <2>3. /\ m.of = s
          /\ Ordered(Tail(chan[s]))
          /\ \A i \in DOMAIN Tail(chan[s]) : Earlier(m, Tail(chan[s])[i])
          /\ Before(dataQueue, Tail(chan[s])) /\ \A i \in DOMAIN dataQueue : Earlier(dataQueue[i], m)
          /\ \A c \in Client : /\ Before(gotData[c], Tail(chan[s]))
                              /\ \A i \in DOMAIN gotData[c] : Earlier(gotData[c][i], m)
      BY <2>1, <2>2, TailOrder DEF OrderInv
    <2> HIDE DEF m
    <2>4. \A t \in Stream : t # s => \A i \in DOMAIN chan[t] : Earlier(m, chan[t][i])
      BY <2>3 DEF OrderInv, Earlier
    <2>5. /\ Ordered(dataQueue')
          /\ Before(dataQueue', Tail(chan[s]))
          /\ \A t \in Stream : t # s => Before(dataQueue', chan[t])
          /\ \A c \in Client : Before(gotData[c], dataQueue')
      BY <2>1, <2>2, <2>3, <2>4, AppendOrder DEF OrderInv
    <2>6. /\ \A i \in DOMAIN chan'[s] : chan'[s][i].of = s
          /\ SentByNow(chan'[s])
      BY <2>1, <2>2 DEF OrderInv, SentByNow
    <2>7. /\ \A i \in DOMAIN dataQueue' : dataQueue'[i].kind = "SensorReading"
          /\ SentByNow(dataQueue')
      <3>1. \A i \in DOMAIN dataQueue' :
              dataQueue'[i] = m \/ (i \in DOMAIN dataQueue /\ dataQueue'[i] = dataQueue[i])
        BY <2>1, <2>2, AppendParts
      <3>2. m.n <= sent
        BY <2>1, <2>2 DEF OrderInv, SentByNow
      <3>3. QED
        BY <2>1, <3>1, <3>2 DEF OrderInv, SentByNow
    <2>8. QED
      BY <2>1, <2>3, <2>5, <2>6, <2>7 DEF OrderInv, SentByNow
  <1>4. ASSUME NEW s \in Stream, ProcessEnd(s)
        PROVE  OrderInv'
    <2>1. /\ chan[s] \in Seq(NodeEvent) /\ chan[s] # <<>>
          /\ chan'[s] = Tail(chan[s])
          /\ \A t \in Stream : t # s => chan'[t] = chan[t]
          /\ UNCHANGED <<sent, dataQueue, gotData>>
      BY <1>4 DEF ProcessEnd, sourceVars, clientVars, TypeOK
    <2>2. \A i \in DOMAIN Tail(chan[s]) :
            i + 1 \in DOMAIN chan[s] /\ Tail(chan[s])[i] = chan[s][i + 1]
      BY <2>1, TailParts
    <2>3. /\ Ordered(Tail(chan[s]))
          /\ Before(dataQueue, Tail(chan[s]))
          /\ \A c \in Client : Before(gotData[c], Tail(chan[s]))
      BY <2>1, TailOrder DEF OrderInv
    <2>4. /\ \A i \in DOMAIN chan'[s] : chan'[s][i].of = s
          /\ SentByNow(chan'[s])
      BY <2>1, <2>2 DEF OrderInv, SentByNow
    <2>5. QED
      BY <2>1, <2>3, <2>4 DEF OrderInv, SentByNow
  <1>5. CASE HandleData
    <2> DEFINE m == Head(dataQueue)
    <2>1. /\ dataQueue \in Seq(NodeEvent) /\ dataQueue # <<>>
          /\ \A c \in Client : gotData[c] \in Seq(NodeEvent)
          /\ dataQueue' = Tail(dataQueue)
          /\ UNCHANGED <<sent, chan>>
          /\ \A c \in Client : gotData'[c] = gotData[c] \/ gotData'[c] = Append(gotData[c], m)
      BY <1>5 DEF HandleData, ToSubscribers, sourceVars, TypeOK
    <2>2. /\ m \in NodeEvent /\ m = dataQueue[1] /\ 1 \in DOMAIN dataQueue
          /\ \A i \in DOMAIN Tail(dataQueue) :
               i + 1 \in DOMAIN dataQueue /\ Tail(dataQueue)[i] = dataQueue[i + 1]
      BY <2>1, TailParts
    <2>3. /\ m.kind = "SensorReading" /\ m.n <= sent
          /\ Ordered(Tail(dataQueue))
          /\ \A i \in DOMAIN Tail(dataQueue) : Earlier(m, Tail(dataQueue)[i])
          /\ \A s \in Stream : /\ Before(Tail(dataQueue), chan[s])
                              /\ \A i \in DOMAIN chan[s] : Earlier(m, chan[s][i])
          /\ \A c \in Client : /\ Before(gotData[c], Tail(dataQueue))
                              /\ \A i \in DOMAIN gotData[c] : Earlier(gotData[c][i], m)
      BY <2>1, <2>2, TailOrder DEF OrderInv, SentByNow
    <2> HIDE DEF m
    <2>4. ASSUME NEW c \in Client
          PROVE  /\ Ordered(gotData'[c])
                 /\ Before(gotData'[c], Tail(dataQueue))
                 /\ \A s \in Stream : Before(gotData'[c], chan[s])
      <3>1. CASE gotData'[c] = gotData[c]
        BY <2>3, <3>1 DEF OrderInv
      <3>2. CASE gotData'[c] = Append(gotData[c], m)
        <4>1. /\ gotData[c] \in Seq(NodeEvent) /\ Ordered(gotData[c])
              /\ \A i \in DOMAIN gotData[c] : Earlier(gotData[c][i], m)
              /\ Before(gotData[c], Tail(dataQueue))
              /\ \A s \in Stream : Before(gotData[c], chan[s])
          BY <2>1, <2>3 DEF OrderInv
        <4>2. /\ Ordered(Append(gotData[c], m))
              /\ \A r : Before(gotData[c], r) /\ (\A j \in DOMAIN r : Earlier(m, r[j]))
                        => Before(Append(gotData[c], m), r)
          BY <2>2, <4>1, AppendOrder
        <4>3. QED
          BY <2>3, <3>2, <4>1, <4>2
      <3>3. QED
        BY <2>1, <3>1, <3>2
    <2>5. ASSUME NEW c \in Client, NEW i \in DOMAIN gotData'[c]
          PROVE  gotData'[c][i].kind = "SensorReading" /\ gotData'[c][i].n <= sent
      <3>1. gotData'[c][i] = m \/ (i \in DOMAIN gotData[c] /\ gotData'[c][i] = gotData[c][i])
        <4>1. gotData[c] \in Seq(NodeEvent)
          BY <2>1
        <4>2. CASE gotData'[c] = gotData[c]
          BY <4>2
        <4>3. CASE gotData'[c] = Append(gotData[c], m)
          BY <2>2, <4>1, <4>3, AppendParts
        <4>4. QED
          BY <2>1, <4>2, <4>3
      <3>2. QED
        BY <2>3, <3>1 DEF OrderInv, SentByNow
    <2>6. /\ \A i \in DOMAIN Tail(dataQueue) : Tail(dataQueue)[i].kind = "SensorReading"
          /\ SentByNow(Tail(dataQueue))
      BY <2>2 DEF OrderInv, SentByNow
    <2>7. QED
      BY <2>1, <2>3, <2>4, <2>5, <2>6 DEF OrderInv, SentByNow
  <1>6. ASSUME NEW s \in Stream, RegisterNode(s)
        PROVE  OrderInv'
    BY <1>0, <1>6 DEF RegisterNode, clientVars
  <1>7. CASE MergeStream \/ MergeRegistration
    BY <1>0, <1>7 DEF MergeStream, MergeRegistration, clientVars
  <1>8. CASE HandleEvent \/ HandleApi
    BY <1>0, <1>8 DEF HandleEvent, HandleApi, sourceVars, clientVars
  <1>9. ASSUME NEW c \in Client, NEW op \in {"Subscribe", "Unsubscribe"}, CallApi(c, op)
        PROVE  OrderInv'
    BY <1>0, <1>9 DEF CallApi, sourceVars, clientVars
  <1>10. CASE UNCHANGED vars
    BY <1>0, <1>10 DEF vars
  <1>11. QED
    BY <1>1, <1>2, <1>3, <1>4, <1>5, <1>6, <1>7, <1>8, <1>9, <1>10 DEF Next, StreamTask

\* The readings of a node reach every client in order and at most once, however
\* many nodes, tasks and clients there are.
THEOREM OrderIsKept == Spec => []ReadingsInOrder
  <1>1. TypeOK /\ OrderInv => ReadingsInOrder
    <2> SUFFICES ASSUME TypeOK, OrderInv, NEW c \in Client,
                        NEW i \in DOMAIN gotData[c], NEW j \in DOMAIN gotData[c],
                        i < j, gotData[c][i].of = gotData[c][j].of
                 PROVE  gotData[c][i].n < gotData[c][j].n
      BY DEF ReadingsInOrder
    <2>1. QED
      BY DEF OrderInv, Ordered, Earlier
  <1>2. QED
    BY <1>1, OrderInit, OrderStep, TypeCorrect, PTL DEF Spec

(***************************************************************************)
(* Ends.  The end of a handler is one message, which is in its channel,    *)
(* then in the event queue, then at the clients, and never in two places.  *)
(***************************************************************************)

Report(m, s) == m.kind \in {"End", "Termination"} /\ m.of = s

Told(q, s) == \E i \in DOMAIN q : Report(q[i], s)

Once(q, s) == \A i, j \in DOMAIN q : Report(q[i], s) /\ Report(q[j], s) => i = j

EndsOnce(s) ==
    /\ \A i \in DOMAIN chan[s] : chan[s][i].of = s
    /\ Once(chan[s], s)
    /\ Told(chan[s], s) => handler[s] = "ended"
    /\ Once(events, s)
    /\ Told(events, s) => handler[s] = "ended" /\ ~Told(chan[s], s)
    /\ \A c \in Client :
         /\ Once(gotStatus[c], s)
         /\ Told(gotStatus[c], s) =>
              handler[s] = "ended" /\ ~Told(chan[s], s) /\ ~Told(events, s)

EndInv == \A s \in Stream : EndsOnce(s)

LEMMA EndInit == Init => EndInv
  BY DEF Init, EndInv, EndsOnce, Once, Told

LEMMA AppendReport ==
  ASSUME NEW S, NEW q \in Seq(S), NEW m \in S, NEW s
  PROVE  /\ Told(Append(q, m), s) <=> Told(q, s) \/ Report(m, s)
         /\ Once(q, s) /\ (Report(m, s) => ~Told(q, s)) => Once(Append(q, m), s)
  <1>1. /\ DOMAIN q = 1 .. Len(q) /\ Len(q) \in Nat
        /\ DOMAIN Append(q, m) = 1 .. Len(q) + 1
        /\ \A i \in 1 .. Len(q) : Append(q, m)[i] = q[i]
        /\ Append(q, m)[Len(q) + 1] = m
    BY AppendParts
  <1> DEFINE p == Append(q, m)
             last == Len(q) + 1
  <1> HIDE DEF p
  <1>2. /\ \A i \in DOMAIN p : (i \in DOMAIN q /\ p[i] = q[i]) \/ (i = last /\ p[i] = m)
        /\ \A i \in DOMAIN q : i \in DOMAIN p /\ p[i] = q[i]
        /\ last \in DOMAIN p /\ p[last] = m
    BY <1>1 DEF p
  <1> HIDE DEF last
  <1>3. QED
    BY <1>2 DEF p, Told, Once

LEMMA TailReport ==
  ASSUME NEW S, NEW q \in Seq(S), q # <<>>, NEW s
  PROVE  /\ Told(q, s) <=> Report(Head(q), s) \/ Told(Tail(q), s)
         /\ Once(q, s) => Once(Tail(q), s) /\ ~(Report(Head(q), s) /\ Told(Tail(q), s))
  <1>1. /\ Head(q) = q[1]
        /\ DOMAIN q = 1 .. Len(q) /\ Len(q) \in Nat \ {0}
        /\ DOMAIN Tail(q) = 1 .. Len(q) - 1
        /\ \A i \in 1 .. Len(q) - 1 : Tail(q)[i] = q[i + 1]
    BY TailParts
  <1> DEFINE t == Tail(q)
  <1> HIDE DEF t
  <1>2. /\ 1 \in DOMAIN q
        /\ \A i \in DOMAIN t : i + 1 \in DOMAIN q /\ t[i] = q[i + 1] /\ i + 1 # 1
        /\ \A i, j \in DOMAIN t : i + 1 = j + 1 => i = j
    BY <1>1 DEF t
  <1>3. \A i \in DOMAIN q : i = 1 \/ \E j \in DOMAIN t : t[j] = q[i]
    <2> SUFFICES ASSUME NEW i \in DOMAIN q, i # 1
                 PROVE  \E j \in DOMAIN t : t[j] = q[i]
      OBVIOUS
    <2>1. i - 1 \in DOMAIN t /\ t[i - 1] = q[i]
      BY <1>1 DEF t
    <2>2. QED
      BY <2>1
  <1>4. QED
    BY <1>1, <1>2, <1>3 DEF t, Told, Once

LEMMA EndStep == TypeOK /\ EndInv /\ [Next]_vars => EndInv'
  <1> SUFFICES ASSUME TypeOK, EndInv, [Next]_vars
               PROVE  EndInv'
    OBVIOUS
  <1>0. UNCHANGED <<handler, chan, events, gotStatus>> => EndInv'
    BY DEF EndInv, EndsOnce, Once, Told
  <1>a. /\ \A s \in Stream : chan[s] \in Seq(NodeEvent)
        /\ events \in Seq(BrokerEvent)
        /\ \A c \in Client : gotStatus[c] \in Seq(Status)
    BY DEF TypeOK
  <1>1. ASSUME NEW s \in Stream, RegisterNode(s)
        PROVE  EndInv'
    <2>1. /\ UNCHANGED <<chan, events, gotStatus>>
          /\ \A t \in Stream : handler[t] = "ended" => handler'[t] = "ended"
      BY <1>1 DEF RegisterNode, clientVars, TypeOK
    <2>2. QED
      BY <2>1 DEF EndInv, EndsOnce
  <1>2. ASSUME NEW s \in Stream, HandlerReading(s)
        PROVE  EndInv'
    <2> DEFINE m == Reading(s, sent + 1)
    <2>1. /\ m \in NodeEvent /\ m.of = s /\ ~Report(m, s)
          /\ chan'[s] = Append(chan[s], m)
          /\ \A t \in Stream : t # s => chan'[t] = chan[t]
          /\ \A t \in Stream : handler[t] = "ended" => handler'[t] = "ended"
          /\ UNCHANGED <<events, gotStatus>>
      <3>1. sent + 1 \in 1 .. MaxReadings
        BY <1>2, BrokerAssumption DEF HandlerReading, TypeOK
      <3>2. QED
        BY <1>2, <3>1, ReadingType
        DEF HandlerReading, Running, Reading, Report, clientVars, TypeOK
    <2> HIDE DEF m
    <2>2. /\ Told(chan'[s], s) <=> Told(chan[s], s)
          /\ Once(chan'[s], s)
          /\ \A i \in DOMAIN chan'[s] : chan'[s][i].of = s
      <3>1. chan[s] \in Seq(NodeEvent) /\ Once(chan[s], s)
        BY <1>a DEF EndInv, EndsOnce
      <3>2. \A i \in DOMAIN chan'[s] :
              chan'[s][i] = m \/ (i \in DOMAIN chan[s] /\ chan'[s][i] = chan[s][i])
        BY <2>1, <3>1, AppendParts
      <3>3. QED
        BY <2>1, <3>1, <3>2, AppendReport DEF EndInv, EndsOnce
    <2>3. EndsOnce(s)'
      <3>1. EndsOnce(s)
        BY DEF EndInv
      <3>2. QED
        BY <2>1, <2>2, <3>1 DEF EndsOnce
    <2>4. ASSUME NEW t \in Stream, t # s
          PROVE  EndsOnce(t)'
      <3>1. EndsOnce(t)
        BY DEF EndInv
      <3>2. QED
        BY <2>1, <2>4, <3>1 DEF EndsOnce
    <2>5. QED
      BY <2>3, <2>4 DEF EndInv
  <1>3. ASSUME NEW s \in Stream, NEW why \in ErrorState, HandlerEnds(s, why)
        PROVE  EndInv'
    <2> DEFINE m == [kind |-> "End", of |-> s, why |-> why]
    <2>1. /\ m \in NodeEvent /\ m.of = s
          /\ chan'[s] = Append(chan[s], m)
          /\ \A t \in Stream : t # s => chan'[t] = chan[t] /\ handler'[t] = handler[t]
          /\ handler[s] # "ended" /\ handler'[s] = "ended"
          /\ UNCHANGED <<events, gotStatus>>
      BY <1>3 DEF HandlerEnds, Running, NodeEvent, clientVars, TypeOK
    <2> HIDE DEF m
    <2>2. /\ Once(chan[s], s) /\ ~Told(chan[s], s) /\ ~Told(events, s)
          /\ \A c \in Client : ~Told(gotStatus[c], s)
      BY <2>1 DEF EndInv, EndsOnce
    <2>3. /\ Once(chan'[s], s)
          /\ \A i \in DOMAIN chan'[s] : chan'[s][i].of = s
      <3>1. \A i \in DOMAIN chan'[s] :
              chan'[s][i] = m \/ (i \in DOMAIN chan[s] /\ chan'[s][i] = chan[s][i])
        BY <1>a, <2>1, AppendParts
      <3>2. QED
        BY <1>a, <2>1, <2>2, <3>1, AppendReport DEF EndInv, EndsOnce
    <2>4. QED
      BY <2>1, <2>2, <2>3 DEF EndInv, EndsOnce
  <1>4. ASSUME NEW e \in BrokerEvent, \A s : ~Report(e, s),
               events' = Append(events, e), UNCHANGED <<handler, chan, gotStatus>>
        PROVE  EndInv'
    <2>1. \A s \in Stream : /\ Told(events', s) <=> Told(events, s)
                            /\ Once(events, s) => Once(events', s)
      BY <1>a, <1>4, AppendReport
    <2>2. ASSUME NEW s \in Stream
          PROVE  EndsOnce(s)'
      <3>1. EndsOnce(s)
        BY DEF EndInv
      <3>2. chan' = chan /\ handler' = handler /\ gotStatus' = gotStatus
        BY <1>4
      <3>3. Once(events', s) /\ (Told(events', s) <=> Told(events, s))
        BY <2>1, <3>1 DEF EndsOnce
      <3>4. QED
        BY <3>1, <3>2, <3>3 DEF EndsOnce
    <2>3. QED
      BY <2>2 DEF EndInv
  <1>5. CASE MergeStream
    <2> DEFINE e == [kind |-> "SensorReportHandleCreate", of |-> Head(streamRx)]
    <2>1. Head(streamRx) \in Stream
      BY <1>5, TailParts DEF MergeStream, TypeOK
    <2>2. e \in BrokerEvent /\ \A s : ~Report(e, s)
      BY <2>1 DEF BrokerEvent, Report
    <2>3. events' = Append(events, e) /\ UNCHANGED <<handler, chan, gotStatus>>
      BY <1>5 DEF MergeStream, clientVars
    <2>4. QED
      BY <1>4, <2>2, <2>3
  <1>6. CASE MergeRegistration
    <2> DEFINE e == [kind |-> "Registration", of |-> Head(regRx)]
    <2>1. Head(regRx) \in Stream
      BY <1>6, TailParts DEF MergeRegistration, TypeOK
    <2>2. e \in BrokerEvent /\ \A s : ~Report(e, s)
      BY <2>1 DEF BrokerEvent, Status, Report
    <2>3. events' = Append(events, e) /\ UNCHANGED <<handler, chan, gotStatus>>
      BY <1>6 DEF MergeRegistration, clientVars
    <2>4. QED
      BY <1>4, <2>2, <2>3
  <1>7. CASE HandleEvent
    <2> DEFINE e == Head(events)
    <2>1. /\ events # <<>> /\ events' = Tail(events) /\ e \in BrokerEvent
          /\ UNCHANGED <<handler, chan>>
      BY <1>7, <1>a, TailParts DEF HandleEvent, sourceVars
    <2>2. \A s \in Stream :
            /\ Told(events, s) <=> Report(e, s) \/ Told(events', s)
            /\ Once(events', s)
            /\ ~(Report(e, s) /\ Told(events', s))
      BY <1>a, <2>1, TailReport DEF EndInv, EndsOnce
    <2>3. ASSUME NEW c \in Client, NEW s \in Stream
          PROVE  /\ Once(gotStatus'[c], s)
                 /\ Told(gotStatus'[c], s) => Told(gotStatus[c], s) \/ Report(e, s)
      <3>1. CASE gotStatus'[c] = gotStatus[c]
        BY <3>1 DEF EndInv, EndsOnce
      <3>2. CASE e \in Status /\ gotStatus'[c] = Append(gotStatus[c], e)
        <4>1. gotStatus[c] \in Seq(Status) /\ Once(gotStatus[c], s)
          BY <1>a DEF EndInv, EndsOnce
        <4>2. Report(e, s) => ~Told(gotStatus[c], s)
          BY <2>2 DEF EndInv, EndsOnce
        <4>3. QED
          BY <3>2, <4>1, <4>2, AppendReport
      <3>3. gotStatus'[c] = gotStatus[c] \/ (e \in Status /\ gotStatus'[c] = Append(gotStatus[c], e))
        <4>1. e.kind # "SensorReportHandleCreate" => e \in Status
          BY <2>1 DEF BrokerEvent
        <4>2. QED
          BY <1>7, <4>1 DEF HandleEvent, ToSubscribers
      <3>4. QED
        BY <3>1, <3>2, <3>3
    <2> HIDE DEF e
    <2>4. QED
      BY <2>1, <2>2, <2>3 DEF EndInv, EndsOnce
  <1>8. ASSUME NEW s \in Stream, ProcessReading(s)
        PROVE  EndInv'
    <2>1. /\ chan[s] # <<>> /\ chan'[s] = Tail(chan[s])
          /\ \A t \in Stream : t # s => chan'[t] = chan[t]
          /\ UNCHANGED <<handler, events, gotStatus>>
      BY <1>8 DEF ProcessReading, sourceVars, clientVars, TypeOK
    <2>2. /\ Told(chan'[s], s) => Told(chan[s], s)
          /\ Once(chan'[s], s)
      BY <1>a, <2>1, TailReport DEF EndInv, EndsOnce
    <2>3. \A i \in DOMAIN chan'[s] : i + 1 \in DOMAIN chan[s] /\ chan'[s][i] = chan[s][i + 1]
      BY <1>a, <2>1, TailParts
    <2>4. \A i \in DOMAIN chan'[s] : chan'[s][i].of = s
      BY <2>3 DEF EndInv, EndsOnce
    <2>5. ASSUME NEW t \in Stream
          PROVE  EndsOnce(t)'
      <3>1. EndsOnce(t) /\ EndsOnce(s)
        BY DEF EndInv
      <3>2. handler' = handler /\ events' = events /\ gotStatus' = gotStatus
        BY <2>1
      <3>3. CASE t = s
        BY <2>2, <2>4, <3>1, <3>2, <3>3 DEF EndsOnce
      <3>4. CASE t # s
        BY <2>1, <3>1, <3>2, <3>4 DEF EndsOnce
      <3>5. QED
        BY <3>3, <3>4
    <2>6. QED
      BY <2>5 DEF EndInv
  <1>9. ASSUME NEW s \in Stream, ProcessEnd(s)
        PROVE  EndInv'
    <2>1. /\ chan[s] # <<>> /\ chan'[s] = Tail(chan[s])
          /\ \A t \in Stream : t # s => chan'[t] = chan[t]
          /\ UNCHANGED <<handler, gotStatus>>
          /\ Head(chan[s]).kind = "End"
      BY <1>9 DEF ProcessEnd, sourceVars, clientVars, TypeOK
    <2>2. Report(Head(chan[s]), s)
      <3>1. Head(chan[s]) = chan[s][1] /\ 1 \in DOMAIN chan[s]
        BY <1>a, <2>1, TailParts
      <3>2. QED
        BY <2>1, <3>1 DEF Report, EndInv, EndsOnce
    <2>3. /\ Told(chan[s], s) /\ ~Told(chan'[s], s)
          /\ Once(chan'[s], s)
      BY <1>a, <2>1, <2>2, TailReport DEF EndInv, EndsOnce
    <2>4. \A i \in DOMAIN chan'[s] : i + 1 \in DOMAIN chan[s] /\ chan'[s][i] = chan[s][i + 1]
      BY <1>a, <2>1, TailParts
    <2>5. ASSUME NEW t \in Stream
          PROVE  /\ Once(events', t)
                 /\ Told(events', t) => Told(events, t) \/ t = s
      <3> DEFINE e == [kind |-> "Termination", of |-> s, why |-> Head(chan[s]).why]
      <3>1. events' = events \/ (events' = Append(events, e) /\ e \in BrokerEvent)
        <4>1. Head(chan[s]) \in NodeEvent
          BY <1>a, <2>1, TailParts
        <4>2. e \in BrokerEvent
          BY <2>1, <4>1 DEF NodeEvent, BrokerEvent, Status
        <4>3. QED
          BY <1>9, <4>2 DEF ProcessEnd
      <3>2. Report(e, t) <=> t = s
        BY DEF Report
      <3> HIDE DEF e
      <3>3. Once(events, t) /\ (Report(e, t) => ~Told(events, t))
        BY <2>3, <3>2 DEF EndInv, EndsOnce
      <3>4. QED
        BY <1>a, <3>1, <3>2, <3>3, AppendReport
    <2>6. \A i \in DOMAIN chan'[s] : chan'[s][i].of = s
      BY <2>4 DEF EndInv, EndsOnce
    <2>7. handler[s] = "ended" /\ \A c \in Client : ~Told(gotStatus[c], s)
      BY <2>3 DEF EndInv, EndsOnce
    <2>8. ASSUME NEW t \in Stream
          PROVE  EndsOnce(t)'
      <3>1. EndsOnce(t)
        BY DEF EndInv
      <3>2. handler' = handler /\ gotStatus' = gotStatus
        BY <2>1
      <3>3. CASE t = s
        BY <2>3, <2>5, <2>6, <2>7, <3>1, <3>2, <3>3 DEF EndsOnce
      <3>4. CASE t # s
        BY <2>1, <2>5, <3>1, <3>2, <3>4 DEF EndsOnce
      <3>5. QED
        BY <3>3, <3>4
    <2>9. QED
      BY <2>8 DEF EndInv
  <1>10. CASE HandleData \/ HandleApi
    BY <1>0, <1>10 DEF HandleData, HandleApi, sourceVars, clientVars
  <1>11. ASSUME NEW c \in Client, NEW op \in {"Subscribe", "Unsubscribe"}, CallApi(c, op)
         PROVE  EndInv'
    BY <1>0, <1>11 DEF CallApi, sourceVars, clientVars
  <1>12. CASE UNCHANGED vars
    BY <1>0, <1>12 DEF vars
  <1>13. QED
    BY <1>1, <1>2, <1>3, <1>5, <1>6, <1>7, <1>8, <1>9, <1>10, <1>11, <1>12
    DEF Next, StreamTask

\* No client is told twice that a node is gone, or while its handler still runs.
THEOREM EndIsToldOnce == Spec => []TerminatedOnce
  <1>1. TypeOK /\ EndInv => TerminatedOnce
    <2> SUFFICES ASSUME TypeOK, EndInv, NEW c \in Client, NEW i \in DOMAIN gotStatus[c],
                        gotStatus[c][i].kind = "Termination"
                 PROVE  /\ handler[gotStatus[c][i].of] = "ended"
                        /\ \A j \in DOMAIN gotStatus[c] \ {i} :
                             gotStatus[c][j].of = gotStatus[c][i].of
                                 => gotStatus[c][j].kind # "Termination"
      BY DEF TerminatedOnce
    <2>1. gotStatus[c][i] \in Status
      BY DEF TypeOK
    <2>2. gotStatus[c][i].of \in Stream
      BY <2>1 DEF Status
    <2>3. QED
      BY <2>2 DEF EndInv, EndsOnce, Told, Once, Report
  <1>2. QED
    BY <1>1, EndInit, EndStep, TypeCorrect, PTL DEF Spec

=============================================================================
