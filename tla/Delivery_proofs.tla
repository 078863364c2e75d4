--------------------------- MODULE Delivery_proofs ---------------------------
(***************************************************************************)
(* The Broker implements Subscription, for any number of streams, clients, *)
(* readings and calls: every step is a step of Subscription, or changes    *)
(* nothing in its terms.                                                   *)
(***************************************************************************)
EXTENDS Broker_proofs, Selection_proofs

(***************************************************************************)
(* What a message says beyond its topic.                                   *)
(***************************************************************************)

Said(m) == IF m.kind = "SensorReading" THEN m.n ELSE 0

\* One message more, and one less.
LEMMA NewsAppend ==
  ASSUME NEW S, NEW q \in Seq(S), NEW m \in S
  PROVE  News(Append(q, m)) = Append(News(q), Said(m))
  <1> DEFINE N == Len(q)
             f == [i \in 1 .. N |-> Said(q[i])]
             g == [i \in 1 .. N + 1 |-> Said(Append(q, m)[i])]
  <1>1. /\ N \in Nat /\ DOMAIN q = 1 .. N /\ DOMAIN Append(q, m) = 1 .. N + 1
        /\ \A i \in 1 .. N : Append(q, m)[i] = q[i]
        /\ Append(q, m)[N + 1] = m
    BY AppendParts
  <1>2. News(q) = f /\ News(Append(q, m)) = g
    BY <1>1 DEF News, Said
  <1> DEFINE V == {Said(q[i]) : i \in 1 .. N} \cup {Said(m)}
  <1>3. f \in Seq(V) /\ Len(f) = N /\ Said(m) \in V /\ \A i \in 1 .. N : f[i] = Said(q[i])
    BY <1>1
  <1>4. g \in Seq(V) /\ Len(g) = N + 1
    BY <1>1
  <1>5. \A i \in 1 .. N + 1 : g[i] = IF i = N + 1 THEN Said(m) ELSE Said(q[i])
    BY <1>1
  <1> HIDE DEF f, g, V, N
  <1>6. /\ Append(f, Said(m)) \in Seq(V) /\ Len(Append(f, Said(m))) = N + 1
        /\ \A i \in 1 .. N : Append(f, Said(m))[i] = f[i]
        /\ Append(f, Said(m))[N + 1] = Said(m)
    BY <1>3
  <1>7. g = Append(f, Said(m))
    <2>1. \A i \in 1 .. N + 1 : g[i] = Append(f, Said(m))[i]
      BY <1>1, <1>3, <1>5, <1>6
    <2>2. QED
      BY <1>1, <1>4, <1>6, <2>1
  <1>8. QED
    BY <1>2, <1>7

\* What is handed from the front of one queue to the back of the one before it
\* stays in its place.
LEMMA HandedOn ==
  ASSUME NEW S, NEW q \in Seq(S), NEW r \in Seq(S), r # <<>>
  PROVE  Append(q, Head(r)) \o Tail(r) = q \o r
  OBVIOUS

LEMMA NewsEmpty == News(<<>>) = <<>>
  BY DEF News

LEMMA NewsTail ==
  ASSUME NEW S, NEW q \in Seq(S), q # <<>>
  PROVE  News(q) # <<>> /\ Head(News(q)) = Said(Head(q)) /\ Tail(News(q)) = News(Tail(q))
  <1> DEFINE N == Len(q)
             f == [i \in 1 .. N |-> Said(q[i])]
             g == [i \in 1 .. N - 1 |-> Said(Tail(q)[i])]
  <1>1. /\ N \in Nat \ {0} /\ DOMAIN q = 1 .. N /\ DOMAIN Tail(q) = 1 .. N - 1
        /\ \A i \in 1 .. N - 1 : Tail(q)[i] = q[i + 1]
        /\ Head(q) = q[1]
    BY TailParts
  <1>2. News(q) = f /\ News(Tail(q)) = g
    BY <1>1 DEF News, Said
  <1> DEFINE V == {Said(q[i]) : i \in 1 .. N}
  <1>3. f \in Seq(V) /\ Len(f) = N /\ \A i \in 1 .. N : f[i] = Said(q[i])
    BY <1>1
  <1>4. /\ \A i \in 1 .. N - 1 : i + 1 \in 1 .. N /\ g[i] = Said(q[i + 1])
        /\ g \in Seq(V) /\ Len(g) = N - 1
    BY <1>1
  <1> HIDE DEF f, g, V, N
  <1>5. /\ f # <<>> /\ Head(f) = f[1] /\ 1 \in 1 .. N
        /\ Tail(f) \in Seq(V) /\ Len(Tail(f)) = N - 1
        /\ \A i \in 1 .. N - 1 : Tail(f)[i] = f[i + 1]
    BY <1>1, <1>3
  <1>6. Tail(f) = g
    <2>1. \A i \in 1 .. N - 1 : Tail(f)[i] = g[i]
      BY <1>3, <1>4, <1>5
    <2>2. QED
      BY <1>1, <1>4, <1>5, <2>1
  <1>7. QED
    BY <1>1, <1>2, <1>3, <1>5, <1>6

LEMMA NewsType ==
  ASSUME NEW q \in Seq(NodeEvent \cup BrokerEvent)
  PROVE  News(q) \in Seq(0 .. MaxReadings)
  <1>1. \A i \in 1 .. Len(q) : Said(q[i]) \in 0 .. MaxReadings
    <2>1. \A m \in NodeEvent \cup BrokerEvent : Said(m) \in 0 .. MaxReadings
      BY BrokerAssumption DEF Said, NodeEvent, BrokerEvent, Status
    <2>2. QED
      BY <2>1
  <1>2. DOMAIN q = 1 .. Len(q) /\ Len(q) \in Nat
    OBVIOUS
  <1>3. News(q) = [i \in 1 .. Len(q) |-> Said(q[i])]
    BY <1>2 DEF News, Said
  <1>4. QED
    BY <1>1, <1>2, <1>3

\* Publications of which nothing is to be said but their topic.
Noughts(q) == [i \in DOMAIN q |-> 0]

LEMMA NoughtsParts ==
  ASSUME NEW S, NEW q \in Seq(S)
  PROVE  /\ Noughts(q) \in Seq(Nat) /\ Len(Noughts(q)) = Len(q)
         /\ \A i \in 1 .. Len(q) : Noughts(q)[i] = 0
  <1>1. DOMAIN q = 1 .. Len(q) /\ Len(q) \in Nat
    OBVIOUS
  <1>2. QED
    BY <1>1 DEF Noughts

\* All there is of a topic: what is in the event queue, and what will be.
Both(a, q) == a \o Noughts(q)

LEMMA BothParts ==
  ASSUME NEW a \in Seq(Nat), NEW S, NEW q \in Seq(S)
  PROVE  /\ Both(a, q) \in Seq(Nat) /\ Len(Both(a, q)) = Len(a) + Len(q)
         /\ Len(a) \in Nat /\ Len(q) \in Nat
         /\ \A i \in 1 .. Len(a) : Both(a, q)[i] = a[i]
         /\ \A i \in Len(a) + 1 .. Len(a) + Len(q) : Both(a, q)[i] = 0
  <1> DEFINE z == Noughts(q)
  <1>1. /\ z \in Seq(Nat) /\ Len(z) = Len(q) /\ \A i \in 1 .. Len(q) : z[i] = 0
    BY NoughtsParts
  <1> HIDE DEF z
  <1>2. /\ a \o z \in Seq(Nat) /\ Len(a \o z) = Len(a) + Len(z)
        /\ \A i \in 1 .. Len(a) : (a \o z)[i] = a[i]
        /\ \A i \in 1 .. Len(z) : (a \o z)[Len(a) + i] = z[i]
    <2>1. a \in Seq(Nat) /\ z \in Seq(Nat)
      BY <1>1
    <2>2. QED
      BY <2>1, ConcatParts
  <1>3. /\ Len(a) \in Nat /\ Len(q) \in Nat
        /\ \A i \in Len(a) + 1 .. Len(a) + Len(q) :
             i - Len(a) \in 1 .. Len(q) /\ Len(a) + (i - Len(a)) = i
    OBVIOUS
  <1>4. \A i \in Len(a) + 1 .. Len(a) + Len(q) : (a \o z)[i] = 0
    BY <1>1, <1>2, <1>3
  <1>5. QED
    BY <1>1, <1>2, <1>3, <1>4 DEF Both, z

\* Two sequences of numbers are the same if they have the same elements.
LEMMA SameElements ==
  ASSUME NEW p \in Seq(Nat), NEW r \in Seq(Nat), Len(p) = Len(r),
         \A i \in 1 .. Len(p) : p[i] = r[i]
  PROVE  p = r
  OBVIOUS

LEMMA BothPublished ==
  ASSUME NEW a \in Seq(Nat), NEW S, NEW q \in Seq(S), NEW m \in S
  PROVE  Both(a, Append(q, m)) = Append(Both(a, q), 0)
  <1> DEFINE p == Both(a, Append(q, m))
             b == Both(a, q)
             L == Len(a)
             N == Len(q)
  <1>1. /\ b \in Seq(Nat) /\ Len(b) = L + N /\ L \in Nat /\ N \in Nat
        /\ \A i \in 1 .. L : b[i] = a[i]
        /\ \A i \in L + 1 .. L + N : b[i] = 0
    BY BothParts
  <1>2. Append(q, m) \in Seq(S) /\ Len(Append(q, m)) = N + 1
    OBVIOUS
  <1>3. /\ p \in Seq(Nat) /\ Len(p) = L + Len(Append(q, m))
        /\ \A i \in 1 .. L : p[i] = a[i]
        /\ \A i \in L + 1 .. L + Len(Append(q, m)) : p[i] = 0
    BY <1>2, BothParts
  <1> HIDE DEF p, b, L, N
  <1>4. /\ Append(b, 0) \in Seq(Nat) /\ Len(Append(b, 0)) = L + N + 1
        /\ \A i \in 1 .. L + N : Append(b, 0)[i] = b[i]
        /\ Append(b, 0)[L + N + 1] = 0
    BY <1>1
  <1>5. \A i \in 1 .. L + N + 1 :
          i \in 1 .. L \/ i \in L + 1 .. L + N \/ i = L + N + 1
    BY <1>1
  <1>6. Len(p) = L + N + 1
    BY <1>1, <1>2, <1>3
  <1>7. ASSUME NEW i \in 1 .. L + N + 1
        PROVE  p[i] = Append(b, 0)[i]
    <2>1. CASE i \in 1 .. L
      BY <1>1, <1>3, <1>4, <2>1
    <2>2. CASE i \in L + 1 .. L + N
      BY <1>1, <1>2, <1>3, <1>4, <2>2
    <2>3. CASE i = L + N + 1
      BY <1>1, <1>2, <1>3, <1>4, <2>3
    <2>4. QED
      BY <1>5, <2>1, <2>2, <2>3
  <1>8. p = Append(b, 0)
    BY <1>3, <1>4, <1>6, <1>7, SameElements
  <1>9. QED
    BY <1>8 DEF p, b

\* From what will be there to what is.
LEMMA BothShifted ==
  ASSUME NEW a \in Seq(Nat), NEW S, NEW q \in Seq(S), q # <<>>
  PROVE  Both(Append(a, 0), Tail(q)) = Both(a, q)
  <1> DEFINE x == Append(a, 0)
             y == Tail(q)
             p == Both(x, y)
             b == Both(a, q)
             L == Len(a)
             N == Len(q)
  <1>1. /\ b \in Seq(Nat) /\ Len(b) = L + N /\ L \in Nat /\ N \in Nat
        /\ \A i \in 1 .. L : b[i] = a[i]
        /\ \A i \in L + 1 .. L + N : b[i] = 0
    BY BothParts
  <1>2. N \in Nat \ {0}
    OBVIOUS
  <1>3. /\ y \in Seq(S) /\ Len(y) = N - 1
        /\ x \in Seq(Nat) /\ Len(x) = L + 1
        /\ \A i \in 1 .. L : x[i] = a[i]
        /\ x[L + 1] = 0
    OBVIOUS
  <1> DEFINE k == Len(x)
             l == Len(y)
  <1> HIDE DEF x, y
  <1>4. /\ p \in Seq(Nat) /\ Len(p) = k + l
        /\ \A i \in 1 .. k : p[i] = x[i]
        /\ \A i \in k + 1 .. k + l : p[i] = 0
    BY <1>3, BothParts
  <1>5. k = L + 1 /\ l = N - 1
    BY <1>3
  <1> HIDE DEF p, b, L, N, k, l
  <1>6. /\ Len(p) = L + N
        /\ \A i \in 1 .. L + 1 : p[i] = x[i]
        /\ \A i \in (L + 1) + 1 .. (L + 1) + (N - 1) : p[i] = 0
    <2>1. L + N = (L + 1) + (N - 1)
      BY <1>1, <1>2
    <2>2. QED
      BY <1>4, <1>5, <2>1
  <1>7. \A i \in 1 .. L + N :
          i \in 1 .. L \/ i = L + 1 \/ i \in (L + 1) + 1 .. (L + 1) + (N - 1)
    BY <1>1, <1>2
  <1>8. ASSUME NEW i \in 1 .. L + N
        PROVE  p[i] = b[i]
    <2>1. CASE i \in 1 .. L
      <3>1. i \in 1 .. L + 1
        BY <1>1, <1>2, <2>1
      <3>2. QED
        BY <1>1, <1>2, <1>3, <1>6, <2>1, <3>1
    <2>2. CASE i = L + 1
      <3>1. L + 1 \in 1 .. L + 1 /\ L + 1 \in L + 1 .. L + N
        BY <1>1, <1>2
      <3>2. QED
        BY <1>1, <1>2, <1>3, <1>6, <2>2, <3>1
    <2>3. CASE i \in (L + 1) + 1 .. (L + 1) + (N - 1)
      <3>1. i \in L + 1 .. L + N
        BY <1>1, <1>2, <2>3
      <3>2. QED
        BY <1>1, <1>2, <1>6, <2>3, <3>1
    <2>4. QED
      BY <1>7, <2>1, <2>2, <2>3
  <1>9. p = b
    BY <1>1, <1>2, <1>4, <1>6, <1>8, SameElements
  <1>10. QED
    BY <1>9 DEF p, b, x, y

LEMMA BothDelivered ==
  ASSUME NEW a \in Seq(Nat), NEW S, NEW q \in Seq(S), a # <<>>
  PROVE  Both(a, q) # <<>> /\ Head(Both(a, q)) = Head(a) /\ Tail(Both(a, q)) = Both(Tail(a), q)
  <1> DEFINE z == Noughts(q)
  <1>1. z \in Seq(Nat)
    BY NoughtsParts
  <1> HIDE DEF z
  <1>2. a \o z # <<>> /\ Head(a \o z) = Head(a) /\ Tail(a \o z) = Tail(a) \o z
    BY <1>1
  <1>3. QED
    BY <1>2 DEF Both, z

(***************************************************************************)
(* Topics.                                                                 *)
(***************************************************************************)

Readings(s) == <<s, "SensorReading">>
Registrations(s) == <<s, "Registration">>
Terminations(s) == <<s, "Termination">>

Anything == NodeEvent \cup BrokerEvent

LEMMA TopicCases ==
  /\ \A s \in Stream : {Readings(s), Registrations(s), Terminations(s)} \subseteq Topic
  /\ \A t \in Topic : \E s \in Stream : t \in {Readings(s), Registrations(s), Terminations(s)}
  /\ \A s, z \in Stream : /\ Readings(s) = Readings(z) => s = z
                          /\ Registrations(s) = Registrations(z) => s = z
                          /\ Terminations(s) = Terminations(z) => s = z
                          /\ Readings(s) # Registrations(z) /\ Readings(s) # Terminations(z)
                          /\ Registrations(s) # Terminations(z)
  BY DEF Topic, Readings, Registrations, Terminations

LEMMA AboutParts ==
  ASSUME NEW s \in Stream, NEW m \in Anything
  PROVE  /\ m \in About[Readings(s)] <=> m.of = s /\ m.kind = "SensorReading"
         /\ m \in About[Registrations(s)] <=> m.of = s /\ m.kind = "Registration"
         /\ m \in About[Terminations(s)] <=> m.of = s /\ m.kind = "Termination"
  BY DEF About, Topic, Readings, Registrations, Terminations, Anything

LEMMA MoreThere ==
  ASSUME NEW S, NEW T, S \subseteq T, NEW q \in Seq(S)
  PROVE  q \in Seq(T)
  OBVIOUS

LEMMA QueueTypes ==
  ASSUME TypeOK
  PROVE  /\ dataQueue \in Seq(Anything) /\ events \in Seq(Anything) /\ regRx \in Seq(Stream)
         /\ \A s \in Stream : /\ chan[s] \in Seq(NodeEvent) /\ chan[s] \in Seq(Anything)
                              /\ dataQueue \o chan[s] \in Seq(Anything)
         /\ \A c \in Client : gotData[c] \in Seq(Anything) /\ gotStatus[c] \in Seq(Anything)
  <1>1. NodeEvent \subseteq Anything /\ BrokerEvent \subseteq Anything /\ Status \subseteq Anything
    BY DEF Anything, BrokerEvent
  <1>2. dataQueue \in Seq(Anything) /\ events \in Seq(Anything) /\ regRx \in Seq(Stream)
    BY <1>1, MoreThere DEF TypeOK
  <1>3. ASSUME NEW s \in Stream
        PROVE  /\ chan[s] \in Seq(NodeEvent) /\ chan[s] \in Seq(Anything)
               /\ dataQueue \o chan[s] \in Seq(Anything)
    <2>1. chan[s] \in Seq(NodeEvent)
      BY DEF TypeOK
    <2>2. chan[s] \in Seq(Anything)
      BY <1>1, <2>1, MoreThere
    <2>3. QED
      BY <1>2, <2>1, <2>2, ConcatParts
  <1>4. ASSUME NEW c \in Client
        PROVE  gotData[c] \in Seq(Anything) /\ gotStatus[c] \in Seq(Anything)
    <2>1. gotData[c] \in Seq(NodeEvent) /\ gotStatus[c] \in Seq(Status)
      BY DEF TypeOK
    <2>2. QED
      BY <1>1, <2>1, MoreThere
  <1>5. QED
    BY <1>2, <1>3, <1>4

LEMMA PendingParts ==
  ASSUME NEW s \in Stream
  PROVE  /\ Pending[Readings(s)] = News(Select(dataQueue \o chan[s], About[Readings(s)]))
         /\ Pending[Registrations(s)] =
              Both(News(Select(events, About[Registrations(s)])), Select(regRx, {s}))
         /\ Pending[Terminations(s)] =
              Both(News(Select(events, About[Terminations(s)])), Select(chan[s], Ends))
         /\ Pending'[Readings(s)] = News(Select(dataQueue' \o chan'[s], About[Readings(s)]))
         /\ Pending'[Registrations(s)] =
              Both(News(Select(events', About[Registrations(s)])), Select(regRx', {s}))
         /\ Pending'[Terminations(s)] =
              Both(News(Select(events', About[Terminations(s)])), Select(chan'[s], Ends))
  <1>1. /\ Readings(s) \in Topic /\ Registrations(s) \in Topic /\ Terminations(s) \in Topic
        /\ Readings(s)[1] = s /\ Registrations(s)[1] = s /\ Terminations(s)[1] = s
        /\ Readings(s)[2] = "SensorReading" /\ Registrations(s)[2] = "Registration"
        /\ Terminations(s)[2] = "Termination"
    BY DEF Topic, Readings, Registrations, Terminations
  <1>2. /\ Pending[Readings(s)] = News(Select(dataQueue \o chan[s], About[Readings(s)]))
        /\ Pending'[Readings(s)] = News(Select(dataQueue' \o chan'[s], About[Readings(s)]))
    BY <1>1 DEF Pending, OnTopic
  <1>3. /\ Pending[Registrations(s)] =
             Both(News(Select(events, About[Registrations(s)])), Select(regRx, {s}))
        /\ Pending'[Registrations(s)] =
             Both(News(Select(events', About[Registrations(s)])), Select(regRx', {s}))
    BY <1>1 DEF Pending, OnTopic, Both, Noughts, Waiting
  <1>4. /\ Pending[Terminations(s)] =
             Both(News(Select(events, About[Terminations(s)])), Select(chan[s], Ends))
        /\ Pending'[Terminations(s)] =
             Both(News(Select(events', About[Terminations(s)])), Select(chan'[s], Ends))
    BY <1>1 DEF Pending, OnTopic, Both, Noughts, Waiting
  <1>5. QED
    BY <1>2, <1>3, <1>4

LEMMA GotParts ==
  ASSUME NEW c \in Client, NEW s \in Stream
  PROVE  /\ Got[c][Readings(s)] = News(Select(gotData[c], About[Readings(s)]))
         /\ Got[c][Registrations(s)] = News(Select(gotStatus[c], About[Registrations(s)]))
         /\ Got[c][Terminations(s)] = News(Select(gotStatus[c], About[Terminations(s)]))
         /\ Got'[c][Readings(s)] = News(Select(gotData'[c], About[Readings(s)]))
         /\ Got'[c][Registrations(s)] = News(Select(gotStatus'[c], About[Registrations(s)]))
         /\ Got'[c][Terminations(s)] = News(Select(gotStatus'[c], About[Terminations(s)]))
  BY DEF Got, OnTopic, Topic, Readings, Registrations, Terminations

(***************************************************************************)
(* The four kinds of steps, in the terms of Subscription.                  *)
(***************************************************************************)

Still(o) == Pending'[o] = Pending[o]

LEMMA Unmoved ==
  ASSUME \A o \in Topic : Still(o), UNCHANGED <<gotData, gotStatus>>
  PROVE  Pending' = Pending /\ Got' = Got
  <1>1. Got' = Got
    BY DEF Got, OnTopic
  <1>2. Pending = [o \in Topic |-> Pending[o]] /\ Pending' = [o \in Topic |-> Pending'[o]]
    BY DEF Pending
  <1>3. QED
    BY <1>1, <1>2 DEF Still

LEMMA Published ==
  ASSUME NEW t \in Topic, NEW m \in 0 .. MaxReadings, Pending'[t] = Append(Pending[t], m),
         \A o \in Topic \ {t} : Still(o), UNCHANGED <<subs, gotData, gotStatus>>
  PROVE  Promise!SubscriptionNext
  <1>1. Got' = Got
    BY DEF Got, OnTopic
  <1>2. DOMAIN Pending' = Topic
    BY DEF Pending
  <1>3. Promise!Publish(t, m)
    BY <1>1, <1>2 DEF Still, Promise!Publish, Promise!OnlyOn
  <1>4. QED
    BY <1>3 DEF Promise!SubscriptionNext

LEMMA DeliveredTo ==
  ASSUME NEW t \in Topic, NEW m, Pending[t] # <<>>, Head(Pending[t]) = m,
         Pending'[t] = Tail(Pending[t]), \A o \in Topic \ {t} : Still(o), UNCHANGED subs,
         \A c \in Client, o \in Topic :
           Got'[c][o] = IF c \in subs /\ o = t THEN Append(Got[c][o], m) ELSE Got[c][o]
  PROVE  Promise!SubscriptionNext
  <1>1. DOMAIN Pending' = Topic
    BY DEF Pending
  <1>2. /\ Got = [c \in Client |-> [o \in Topic |-> Got[c][o]]]
        /\ Got' = [c \in Client |-> [o \in Topic |-> Got'[c][o]]]
    BY DEF Got
  <1>3. ASSUME NEW c \in Client
        PROVE  Got'[c] = IF c \in subs THEN [Got[c] EXCEPT ![t] = Append(@, m)] ELSE Got[c]
    <2>1. Got[c] = [o \in Topic |-> Got[c][o]] /\ Got'[c] = [o \in Topic |-> Got'[c][o]]
      BY <1>2
    <2>2. QED
      BY <2>1
  <1>4. Got' = [c \in Client |->
                  IF c \in subs THEN [Got[c] EXCEPT ![t] = Append(@, Head(Pending[t]))] ELSE Got[c]]
    BY <1>2, <1>3
  <1>5. Promise!Deliver(t)
    BY <1>1, <1>4 DEF Still, Promise!Deliver, Promise!OnlyOn
  <1>6. QED
    BY <1>5 DEF Promise!SubscriptionNext

LEMMA Frame ==
  ASSUME NEW s \in Stream
  PROVE  /\ dataQueue' = dataQueue /\ chan'[s] = chan[s] => Still(Readings(s))
         /\ events' = events /\ regRx' = regRx => Still(Registrations(s))
         /\ events' = events /\ chan'[s] = chan[s] => Still(Terminations(s))
  BY PendingParts DEF Still

(***************************************************************************)
(* A message that joins or leaves a queue, as its topic sees it.           *)
(***************************************************************************)

LEMMA SelectedNews ==
  ASSUME NEW q \in Seq(Anything), NEW S
  PROVE  Select(q, S) \in Seq(Anything) /\ News(Select(q, S)) \in Seq(Nat)
  <1>1. Select(q, S) \in Seq(Anything)
    <2>1. Select(q, S) \in Seq(Anything \cap S) /\ Anything \cap S \subseteq Anything
      BY SelectType
    <2>2. QED
      BY <2>1, MoreThere
  <1>2. News(Select(q, S)) \in Seq(0 .. MaxReadings) /\ 0 .. MaxReadings \subseteq Nat
    BY <1>1, NewsType, BrokerAssumption DEF Anything
  <1>3. QED
    BY <1>1, <1>2, MoreThere

LEMMA OneMore ==
  ASSUME NEW q \in Seq(Anything), NEW m \in Anything, NEW S
  PROVE  News(Select(Append(q, m), S)) =
           IF m \in S THEN Append(News(Select(q, S)), Said(m)) ELSE News(Select(q, S))
  <1>1. Select(Append(q, m), S) = IF m \in S THEN Append(Select(q, S), m) ELSE Select(q, S)
    BY SelectAppend
  <1>2. Select(q, S) \in Seq(Anything)
    BY SelectedNews
  <1>3. News(Append(Select(q, S), m)) = Append(News(Select(q, S)), Said(m))
    BY <1>2, NewsAppend
  <1>4. QED
    BY <1>1, <1>3

LEMMA OneLess ==
  ASSUME NEW q \in Seq(Anything), q # <<>>, NEW S
  PROVE  IF Head(q) \in S
         THEN /\ News(Select(q, S)) # <<>>
              /\ Head(News(Select(q, S))) = Said(Head(q))
              /\ Tail(News(Select(q, S))) = News(Select(Tail(q), S))
         ELSE News(Select(q, S)) = News(Select(Tail(q), S))
  <1>1. IF Head(q) \in S
        THEN /\ Select(q, S) # <<>>
             /\ Head(Select(q, S)) = Head(q)
             /\ Tail(Select(q, S)) = Select(Tail(q), S)
        ELSE Select(q, S) = Select(Tail(q), S)
    BY SelectTail
  <1>2. Select(q, S) \in Seq(Anything)
    BY SelectedNews
  <1>3. Select(q, S) # <<>> =>
          /\ News(Select(q, S)) # <<>>
          /\ Head(News(Select(q, S))) = Said(Head(Select(q, S)))
          /\ Tail(News(Select(q, S))) = News(Tail(Select(q, S)))
    BY <1>2, NewsTail
  <1>4. QED
    BY <1>1, <1>3

\* What the streams' and the merge task's queues have, one more and one less.
NoughtMore(q, A, w, m, S) ==
    Both(News(Select(q, A)), Select(Append(w, m), S)) =
      IF m \in S THEN Append(Both(News(Select(q, A)), Select(w, S)), 0)
      ELSE Both(News(Select(q, A)), Select(w, S))

LEMMA OneNoughtMore ==
  ASSUME NEW q \in Seq(Anything), NEW A, NEW T, NEW w \in Seq(T), NEW m \in T, NEW S
  PROVE  NoughtMore(q, A, w, m, S)
  <1>1. Select(Append(w, m), S) = IF m \in S THEN Append(Select(w, S), m) ELSE Select(w, S)
    BY SelectAppend
  <1>2. Select(w, S) \in Seq(T)
    <2>1. Select(w, S) \in Seq(T \cap S) /\ T \cap S \subseteq T
      BY SelectType
    <2>2. QED
      BY <2>1, MoreThere
  <1>3. News(Select(q, A)) \in Seq(Nat)
    BY SelectedNews
  <1>4. Both(News(Select(q, A)), Append(Select(w, S), m)) =
          Append(Both(News(Select(q, A)), Select(w, S)), 0)
    BY <1>2, <1>3, BothPublished
  <1>5. QED
    BY <1>1, <1>4 DEF NoughtMore

\* A message that goes from one of them to the event queue as news of its topic.
MovesOn(q, A, m, w, S) ==
    Both(News(Select(Append(q, m), A)), Select(Tail(w), S)) = Both(News(Select(q, A)), Select(w, S))

LEMMA MovedOn ==
  ASSUME NEW q \in Seq(Anything), NEW A, NEW m \in A, m \in Anything, Said(m) = 0,
         NEW T, NEW w \in Seq(T), w # <<>>, NEW S, Head(w) \in S
  PROVE  MovesOn(q, A, m, w, S)
  <1> DEFINE a == News(Select(q, A))
             u == Select(w, S)
  <1>1. News(Select(Append(q, m), A)) = Append(a, 0)
    BY OneMore
  <1>2. u # <<>> /\ Tail(u) = Select(Tail(w), S)
    BY SelectTail
  <1>3. u \in Seq(T)
    <2>1. u \in Seq(T \cap S) /\ T \cap S \subseteq T
      BY SelectType
    <2>2. QED
      BY <2>1, MoreThere
  <1>4. a \in Seq(Nat)
    BY SelectedNews
  <1> HIDE DEF a, u
  <1>5. Both(Append(a, 0), Tail(u)) = Both(a, u)
    BY <1>2, <1>3, <1>4, BothShifted
  <1>6. QED
    BY <1>1, <1>2, <1>5 DEF a, u, MovesOn

(***************************************************************************)
(* The steps.                                                              *)
(***************************************************************************)

Implemented == Promise!SubscriptionNext \/ UNCHANGED <<Pending, subs, Got>>

LEMMA RegisterPublishes ==
  ASSUME TypeOK, NEW s \in Stream, RegisterNode(s)
  PROVE  Implemented
  <1>1. /\ regRx \in Seq(Stream) /\ regRx' = Append(regRx, s) /\ events \in Seq(Anything)
        /\ UNCHANGED <<chan, events, dataQueue, subs, gotData, gotStatus>>
    BY QueueTypes DEF RegisterNode, clientVars
  <1>2. ASSUME NEW z \in Stream
        PROVE  Pending'[Registrations(z)] =
                 IF z = s THEN Append(Pending[Registrations(z)], 0) ELSE Pending[Registrations(z)]
    <2>1. NoughtMore(events, About[Registrations(z)], regRx, s, {z})
      BY <1>1, OneNoughtMore
    <2>2. QED
      BY <1>1, <2>1, PendingParts DEF NoughtMore
  <1>3. \A o \in Topic \ {Registrations(s)} : Still(o)
    BY <1>1, <1>2, Frame, TopicCases DEF Still
  <1>4. Registrations(s) \in Topic /\ 0 \in 0 .. MaxReadings
    BY TopicCases, BrokerAssumption
  <1>5. QED
    BY <1>1, <1>2, <1>3, <1>4, Published DEF Implemented

LEMMA ReadingPublishes ==
  ASSUME TypeOK, NEW s \in Stream, HandlerReading(s)
  PROVE  Implemented
  <1> DEFINE m == Reading(s, sent + 1)
  <1>1. /\ dataQueue \in Seq(Anything) /\ chan[s] \in Seq(NodeEvent) /\ chan[s] \in Seq(Anything)
        /\ dataQueue \o chan[s] \in Seq(Anything) /\ events \in Seq(Anything)
        /\ chan'[s] = Append(chan[s], m)
        /\ \A z \in Stream \ {s} : chan'[z] = chan[z]
        /\ UNCHANGED <<regRx, events, dataQueue, subs, gotData, gotStatus>>
    BY QueueTypes DEF HandlerReading, clientVars, TypeOK
  <1>2. sent + 1 \in 1 .. MaxReadings /\ sent + 1 \in 0 .. MaxReadings
    BY BrokerAssumption DEF HandlerReading, TypeOK
  <1>3. /\ m \in NodeEvent /\ m \in Anything /\ m.kind = "SensorReading" /\ m.of = s
        /\ m \notin Ends /\ Said(m) = sent + 1
    <2>1. m \in NodeEvent /\ m.kind = "SensorReading" /\ m.of = s /\ m.n = sent + 1
      BY <1>2, ReadingType DEF Reading
    <2>2. QED
      BY <2>1 DEF Anything, Ends, Said
  <1> HIDE DEF m
  <1>4. Pending'[Readings(s)] = Append(Pending[Readings(s)], sent + 1)
    <2>1. dataQueue \o Append(chan[s], m) = Append(dataQueue \o chan[s], m)
      BY <1>1, <1>3, AppendConcat DEF AppendsLast
    <2>2. m \in About[Readings(s)]
      BY <1>3, AboutParts
    <2>3. News(Select(Append(dataQueue \o chan[s], m), About[Readings(s)])) =
            Append(News(Select(dataQueue \o chan[s], About[Readings(s)])), Said(m))
      BY <1>1, <1>3, <2>2, OneMore
    <2>4. dataQueue' \o chan'[s] = Append(dataQueue \o chan[s], m)
      BY <1>1, <2>1
    <2>5. QED
      BY <1>3, <2>3, <2>4, PendingParts
  <1>5. Still(Terminations(s))
    <2>1. NoughtMore(events, About[Terminations(s)], chan[s], m, Ends)
      BY <1>1, <1>3, OneNoughtMore
    <2>2. Both(News(Select(events, About[Terminations(s)])), Select(chan'[s], Ends)) =
            Both(News(Select(events, About[Terminations(s)])), Select(chan[s], Ends))
      BY <1>1, <1>3, <2>1 DEF NoughtMore
    <2>3. QED
      BY <1>1, <2>2, PendingParts DEF Still
  <1>6. \A o \in Topic \ {Readings(s)} : Still(o)
    BY <1>1, <1>5, Frame, TopicCases
  <1>7. QED
    BY <1>1, <1>2, <1>4, <1>6, Published, TopicCases DEF Implemented

\* An end that is reported is published as soon as the handler sends it.
LEMMA EndPublishes ==
  ASSUME TypeOK, NEW s \in Stream, NEW why \in ErrorState, HandlerEnds(s, why)
  PROVE  Implemented
  <1> DEFINE m == [kind |-> "End", of |-> s, why |-> why]
  <1>1. /\ dataQueue \in Seq(Anything) /\ chan[s] \in Seq(NodeEvent) /\ chan[s] \in Seq(Anything)
        /\ dataQueue \o chan[s] \in Seq(Anything) /\ events \in Seq(Anything)
        /\ chan'[s] = Append(chan[s], m)
        /\ \A z \in Stream \ {s} : chan'[z] = chan[z]
        /\ UNCHANGED <<regRx, events, dataQueue, subs, gotData, gotStatus>>
    BY QueueTypes DEF HandlerEnds, clientVars, TypeOK
  <1>2. /\ m \in NodeEvent /\ m \in Anything /\ m.kind = "End"
        /\ m \in Ends <=> why # "SetupError"
    BY DEF NodeEvent, Anything, Ends
  <1> HIDE DEF m
  <1>3. Still(Readings(s))
    <2>1. dataQueue \o Append(chan[s], m) = Append(dataQueue \o chan[s], m)
      BY <1>1, <1>2, AppendConcat DEF AppendsLast
    <2>2. m \notin About[Readings(s)]
      BY <1>2, AboutParts
    <2>3. News(Select(Append(dataQueue \o chan[s], m), About[Readings(s)])) =
            News(Select(dataQueue \o chan[s], About[Readings(s)]))
      BY <1>1, <1>2, <2>2, OneMore
    <2>4. dataQueue' \o chan'[s] = Append(dataQueue \o chan[s], m)
      BY <1>1, <2>1
    <2>5. QED
      BY <2>3, <2>4, PendingParts DEF Still
  <1>4. Pending'[Terminations(s)] =
          IF m \in Ends THEN Append(Pending[Terminations(s)], 0) ELSE Pending[Terminations(s)]
    <2>1. NoughtMore(events, About[Terminations(s)], chan[s], m, Ends)
      BY <1>1, <1>2, OneNoughtMore
    <2>2. QED
      BY <1>1, <2>1, PendingParts DEF NoughtMore
  <1>5. \A o \in Topic \ {Terminations(s)} : Still(o)
    BY <1>1, <1>3, Frame, TopicCases
  <1>6. CASE m \in Ends
    <2>1. Terminations(s) \in Topic /\ 0 \in 0 .. MaxReadings
      BY TopicCases, BrokerAssumption
    <2>2. QED
      BY <1>1, <1>4, <1>5, <1>6, <2>1, Published DEF Implemented
  <1>7. CASE m \notin Ends
    <2>1. \A o \in Topic : Still(o)
      BY <1>4, <1>5, <1>7 DEF Still
    <2>2. QED
      BY <1>1, <2>1, Unmoved DEF Implemented
  <1>8. QED
    BY <1>6, <1>7

LEMMA MergeStreamHidden ==
  ASSUME TypeOK, MergeStream
  PROVE  Implemented
  <1> DEFINE m == [kind |-> "SensorReportHandleCreate", of |-> Head(streamRx)]
  <1>1. /\ events \in Seq(Anything) /\ events' = Append(events, m)
        /\ UNCHANGED <<chan, regRx, dataQueue, subs, gotData, gotStatus>>
    BY QueueTypes DEF MergeStream, clientVars
  <1>2. m \in Anything /\ m.kind = "SensorReportHandleCreate"
    <2>1. Head(streamRx) \in Stream
      BY DEF MergeStream, TypeOK
    <2>2. QED
      BY <2>1 DEF Anything, BrokerEvent
  <1> HIDE DEF m
  <1>3. ASSUME NEW z \in Stream
        PROVE  Still(Registrations(z)) /\ Still(Terminations(z))
    <2>1. m \notin About[Registrations(z)] /\ m \notin About[Terminations(z)]
      BY <1>2, AboutParts
    <2>2. /\ News(Select(events', About[Registrations(z)])) = News(Select(events, About[Registrations(z)]))
          /\ News(Select(events', About[Terminations(z)])) = News(Select(events, About[Terminations(z)]))
      BY <1>1, <1>2, <2>1, OneMore
    <2>3. QED
      BY <1>1, <2>2, PendingParts DEF Still
  <1>4. \A o \in Topic : Still(o)
    BY <1>1, <1>3, Frame, TopicCases
  <1>5. QED
    BY <1>1, <1>4, Unmoved DEF Implemented

LEMMA MergeRegistrationHidden ==
  ASSUME TypeOK, MergeRegistration
  PROVE  Implemented
  <1> DEFINE s == Head(regRx)
             m == [kind |-> "Registration", of |-> Head(regRx)]
  <1>1. /\ events \in Seq(Anything) /\ events' = Append(events, m)
        /\ regRx \in Seq(Stream) /\ regRx # <<>> /\ regRx' = Tail(regRx)
        /\ UNCHANGED <<chan, dataQueue, subs, gotData, gotStatus>>
    BY QueueTypes DEF MergeRegistration, clientVars
  <1>2. s \in Stream /\ m \in Anything /\ m.kind = "Registration" /\ m.of = s /\ Said(m) = 0
    <2>1. Head(regRx) \in Stream
      BY <1>1
    <2>2. QED
      BY <2>1 DEF Anything, BrokerEvent, Status, Said
  <1> HIDE DEF m
  <1>3. ASSUME NEW z \in Stream
        PROVE  Still(Terminations(z))
    <2>1. m \notin About[Terminations(z)]
      BY <1>2, AboutParts
    <2>2. News(Select(events', About[Terminations(z)])) = News(Select(events, About[Terminations(z)]))
      BY <1>1, <1>2, <2>1, OneMore
    <2>3. QED
      BY <1>1, <2>2, PendingParts DEF Still
  <1>4. ASSUME NEW z \in Stream
        PROVE  Still(Registrations(z))
    <2>1. CASE z = s
      <3>1. m \in About[Registrations(z)] /\ Head(regRx) \in {z}
        BY <1>2, <2>1, AboutParts
      <3>2. MovesOn(events, About[Registrations(z)], m, regRx, {z})
        BY <1>1, <1>2, <3>1, MovedOn
      <3>3. QED
        BY <1>1, <3>2, PendingParts DEF Still, MovesOn
    <2>2. CASE z # s
      <3>1. m \notin About[Registrations(z)] /\ Head(regRx) \notin {z}
        BY <1>2, <2>2, AboutParts
      <3>2. News(Select(events', About[Registrations(z)])) = News(Select(events, About[Registrations(z)]))
        BY <1>1, <1>2, <3>1, OneMore
      <3>3. Select(regRx', {z}) = Select(regRx, {z})
        BY <1>1, <3>1, SelectTail
      <3>4. QED
        BY <3>2, <3>3, PendingParts DEF Still
    <2>3. QED
      BY <2>1, <2>2
  <1>5. \A o \in Topic : Still(o)
    BY <1>1, <1>3, <1>4, Frame, TopicCases
  <1>6. QED
    BY <1>1, <1>5, Unmoved DEF Implemented

\* What each client has of each topic, when the event loop sends it a status ...
LEMMA StatusGot ==
  ASSUME TypeOK, NEW e \in Status, gotStatus' = ToSubscribers(gotStatus, e), UNCHANGED gotData,
         NEW c \in Client, NEW s \in Stream
  PROVE  /\ Got'[c][Readings(s)] = Got[c][Readings(s)]
         /\ Got'[c][Registrations(s)] =
              IF c \in subs /\ e \in About[Registrations(s)]
              THEN Append(Got[c][Registrations(s)], 0) ELSE Got[c][Registrations(s)]
         /\ Got'[c][Terminations(s)] =
              IF c \in subs /\ e \in About[Terminations(s)]
              THEN Append(Got[c][Terminations(s)], 0) ELSE Got[c][Terminations(s)]
  <1>1. gotStatus'[c] = IF c \in subs THEN Append(gotStatus[c], e) ELSE gotStatus[c]
    BY DEF ToSubscribers
  <1>2. e \in Anything /\ Said(e) = 0
    BY DEF Anything, BrokerEvent, Status, Said
  <1>3. gotStatus[c] \in Seq(Anything)
    BY QueueTypes
  <1>4. \A S : News(Select(Append(gotStatus[c], e), S)) =
                 IF e \in S THEN Append(News(Select(gotStatus[c], S)), 0) ELSE News(Select(gotStatus[c], S))
    BY <1>2, <1>3, OneMore
  <1>5. QED
    BY <1>1, <1>4, GotParts

\* ... and when it sends a reading.
LEMMA DataGot ==
  ASSUME TypeOK, NEW m \in Anything, gotData' = ToSubscribers(gotData, m), UNCHANGED gotStatus,
         NEW c \in Client, NEW s \in Stream
  PROVE  /\ Got'[c][Readings(s)] =
              IF c \in subs /\ m \in About[Readings(s)]
              THEN Append(Got[c][Readings(s)], Said(m)) ELSE Got[c][Readings(s)]
         /\ Got'[c][Registrations(s)] = Got[c][Registrations(s)]
         /\ Got'[c][Terminations(s)] = Got[c][Terminations(s)]
  <1>1. gotData'[c] = IF c \in subs THEN Append(gotData[c], m) ELSE gotData[c]
    BY DEF ToSubscribers
  <1>2. gotData[c] \in Seq(Anything)
    BY QueueTypes
  <1>3. \A S : News(Select(Append(gotData[c], m), S)) =
                 IF m \in S THEN Append(News(Select(gotData[c], S)), Said(m)) ELSE News(Select(gotData[c], S))
    BY <1>2, OneMore
  <1>4. QED
    BY <1>1, <1>3, GotParts

\* What the event loop takes from the event queue is the next news of its topic.
TakenFirst(A, w, e) ==
    IF e \in A
    THEN /\ Both(News(Select(events, A)), w) # <<>>
         /\ Head(Both(News(Select(events, A)), w)) = Said(e)
         /\ Both(News(Select(events', A)), w) = Tail(Both(News(Select(events, A)), w))
    ELSE Both(News(Select(events', A)), w) = Both(News(Select(events, A)), w)

LEMMA EventTaken ==
  ASSUME TypeOK, NEW e, events # <<>>, Head(events) = e, events' = Tail(events),
         UNCHANGED <<chan, regRx>>, NEW s \in Stream
  PROVE  /\ IF e \in About[Registrations(s)]
            THEN /\ Pending[Registrations(s)] # <<>> /\ Head(Pending[Registrations(s)]) = Said(e)
                 /\ Pending'[Registrations(s)] = Tail(Pending[Registrations(s)])
            ELSE Still(Registrations(s))
         /\ IF e \in About[Terminations(s)]
            THEN /\ Pending[Terminations(s)] # <<>> /\ Head(Pending[Terminations(s)]) = Said(e)
                 /\ Pending'[Terminations(s)] = Tail(Pending[Terminations(s)])
            ELSE Still(Terminations(s))
  <1>1. ASSUME NEW A, NEW T, NEW w \in Seq(T)
        PROVE  TakenFirst(A, w, e)
    <2> DEFINE a == News(Select(events, A))
    <2>1. a \in Seq(Nat)
      BY QueueTypes, SelectedNews
    <2>2. IF e \in A THEN a # <<>> /\ Head(a) = Said(e) /\ Tail(a) = News(Select(events', A))
          ELSE a = News(Select(events', A))
      BY QueueTypes, OneLess
    <2> HIDE DEF a
    <2>3. a # <<>> => Both(a, w) # <<>> /\ Head(Both(a, w)) = Head(a) /\ Tail(Both(a, w)) = Both(Tail(a), w)
      BY <2>1, BothDelivered
    <2>4. QED
      BY <2>2, <2>3 DEF a, TakenFirst
  <1>2. Select(regRx, {s}) \in Seq(Stream \cap {s}) /\ Select(chan[s], Ends) \in Seq(NodeEvent \cap Ends)
    BY QueueTypes, SelectType
  <1>3. /\ TakenFirst(About[Registrations(s)], Select(regRx, {s}), e)
        /\ TakenFirst(About[Terminations(s)], Select(chan[s], Ends), e)
    BY <1>1, <1>2
  <1>4. QED
    BY <1>3, PendingParts DEF Still, TakenFirst

LEMMA EventDelivers ==
  ASSUME TypeOK, HandleEvent
  PROVE  Implemented
  <1> DEFINE e == Head(events)
  <1>1. /\ events # <<>> /\ events' = Tail(events) /\ e \in BrokerEvent
        /\ UNCHANGED <<chan, regRx, dataQueue, subs, gotData>>
    BY TailParts DEF HandleEvent, sourceVars, TypeOK
  <1>2. e \in Anything /\ Said(e) = 0
    BY <1>1 DEF Anything, BrokerEvent, Status, Said
  <1>3. CASE e.kind = "SensorReportHandleCreate"
    <2>1. UNCHANGED gotStatus
      BY <1>3 DEF HandleEvent
    <2>2. ASSUME NEW z \in Stream
          PROVE  Still(Registrations(z)) /\ Still(Terminations(z))
      <3>1. e \notin About[Registrations(z)] /\ e \notin About[Terminations(z)]
        BY <1>2, <1>3, AboutParts
      <3>2. QED
        BY <1>1, <3>1, EventTaken
    <2>3. \A o \in Topic : Still(o)
      BY <1>1, <2>2, Frame, TopicCases
    <2>4. QED
      BY <1>1, <2>1, <2>3, Unmoved DEF Implemented
  <1>4. CASE e.kind # "SensorReportHandleCreate"
    <2>1. gotStatus' = ToSubscribers(gotStatus, e) /\ e \in Status
      BY <1>1, <1>4 DEF HandleEvent, BrokerEvent
    <2>2. PICK s \in Stream : s = e.of
      BY <2>1 DEF Status
    <2>3. e.kind \in {"Registration", "Termination"}
      BY <2>1 DEF Status
    <2> HIDE DEF e
    <2>4. \A z \in Stream : /\ e \in About[Registrations(z)] <=> z = s /\ e.kind = "Registration"
                            /\ e \in About[Terminations(z)] <=> z = s /\ e.kind = "Termination"
      BY <1>2, <2>2, AboutParts
    <2>5. Head(events) = e
      BY DEF e
    <2>6. CASE e.kind = "Registration"
      <3> DEFINE t == Registrations(s)
      <3>1. /\ Pending[t] # <<>> /\ Head(Pending[t]) = 0 /\ Pending'[t] = Tail(Pending[t])
        BY <1>1, <1>2, <2>4, <2>5, <2>6, EventTaken
      <3>2. \A z \in Stream : /\ z # s => Still(Registrations(z))
                              /\ Still(Terminations(z)) /\ Still(Readings(z))
        BY <1>1, <2>4, <2>5, <2>6, EventTaken, Frame
      <3>3. \A o \in Topic \ {t} : Still(o)
        BY <3>2, TopicCases
      <3>4. ASSUME NEW c \in Client, NEW o \in Topic
            PROVE  Got'[c][o] = IF c \in subs /\ o = t THEN Append(Got[c][o], 0) ELSE Got[c][o]
        <4>1. PICK z \in Stream : o \in {Readings(z), Registrations(z), Terminations(z)}
          BY TopicCases
        <4>2. /\ Got'[c][Readings(z)] = Got[c][Readings(z)]
              /\ Got'[c][Registrations(z)] =
                   IF c \in subs /\ z = s THEN Append(Got[c][Registrations(z)], 0)
                   ELSE Got[c][Registrations(z)]
              /\ Got'[c][Terminations(z)] = Got[c][Terminations(z)]
          BY <1>1, <2>1, <2>4, <2>6, StatusGot
        <4>3. QED
          BY <4>1, <4>2, TopicCases
      <3>5. t \in Topic
        BY TopicCases
      <3> HIDE DEF t
      <3>6. QED
        BY <1>1, <3>1, <3>3, <3>4, <3>5, DeliveredTo DEF Implemented
    <2>7. CASE e.kind = "Termination"
      <3> DEFINE t == Terminations(s)
      <3>1. /\ Pending[t] # <<>> /\ Head(Pending[t]) = 0 /\ Pending'[t] = Tail(Pending[t])
        BY <1>1, <1>2, <2>4, <2>5, <2>7, EventTaken
      <3>2. \A z \in Stream : /\ z # s => Still(Terminations(z))
                              /\ Still(Registrations(z)) /\ Still(Readings(z))
        BY <1>1, <2>4, <2>5, <2>7, EventTaken, Frame
      <3>3. \A o \in Topic \ {t} : Still(o)
        BY <3>2, TopicCases
      <3>4. ASSUME NEW c \in Client, NEW o \in Topic
            PROVE  Got'[c][o] = IF c \in subs /\ o = t THEN Append(Got[c][o], 0) ELSE Got[c][o]
        <4>1. PICK z \in Stream : o \in {Readings(z), Registrations(z), Terminations(z)}
          BY TopicCases
        <4>2. /\ Got'[c][Readings(z)] = Got[c][Readings(z)]
              /\ Got'[c][Registrations(z)] = Got[c][Registrations(z)]
              /\ Got'[c][Terminations(z)] =
                   IF c \in subs /\ z = s THEN Append(Got[c][Terminations(z)], 0)
                   ELSE Got[c][Terminations(z)]
          BY <1>1, <2>1, <2>4, <2>7, StatusGot
        <4>3. QED
          BY <4>1, <4>2, TopicCases
      <3>5. t \in Topic
        BY TopicCases
      <3> HIDE DEF t
      <3>6. QED
        BY <1>1, <3>1, <3>3, <3>4, <3>5, DeliveredTo DEF Implemented
    <2>8. QED
      BY <2>3, <2>6, <2>7
  <1>5. QED
    BY <1>3, <1>4

LEMMA DataDelivers ==
  ASSUME TypeOK, OrderInv, HandleData
  PROVE  Implemented
  <1> DEFINE m == Head(dataQueue)
  <1>1. /\ dataQueue # <<>> /\ dataQueue' = Tail(dataQueue) /\ m \in NodeEvent
        /\ dataQueue \in Seq(NodeEvent) /\ m = dataQueue[1] /\ 1 \in DOMAIN dataQueue
        /\ gotData' = ToSubscribers(gotData, m)
        /\ UNCHANGED <<chan, regRx, events, subs, gotStatus>>
    BY TailParts DEF HandleData, sourceVars, TypeOK
  <1>2. m \in Anything /\ m.kind = "SensorReading" /\ m.of \in Stream
    <2>1. m.kind = "SensorReading"
      BY <1>1 DEF OrderInv
    <2>2. QED
      BY <1>1, <2>1 DEF Anything, NodeEvent
  <1>3. PICK s \in Stream : s = m.of
    BY <1>2
  <1>4. \A z \in Stream : dataQueue \o chan[z] \in Seq(Anything)
    BY QueueTypes
  <1>5. ASSUME NEW z \in Stream
        PROVE  /\ dataQueue \o chan[z] # <<>> /\ Head(dataQueue \o chan[z]) = m
               /\ Tail(dataQueue \o chan[z]) = dataQueue' \o chan'[z]
    <2>1. chan[z] \in Seq(NodeEvent)
      BY DEF TypeOK
    <2>2. QED
      BY <1>1, <2>1
  <1> HIDE DEF m
  <1>6. \A z \in Stream : m \in About[Readings(z)] <=> z = s
    BY <1>2, <1>3, AboutParts
  <1>7. ASSUME NEW z \in Stream
        PROVE  IF z = s
               THEN /\ Pending[Readings(z)] # <<>> /\ Head(Pending[Readings(z)]) = Said(m)
                    /\ Pending'[Readings(z)] = Tail(Pending[Readings(z)])
               ELSE Still(Readings(z))
    <2> DEFINE q == dataQueue \o chan[z]
    <2>1. q \in Seq(Anything) /\ q # <<>> /\ Head(q) = m /\ Tail(q) = dataQueue' \o chan'[z]
      BY <1>4, <1>5
    <2>2. /\ Pending[Readings(z)] = News(Select(q, About[Readings(z)]))
          /\ Pending'[Readings(z)] = News(Select(Tail(q), About[Readings(z)]))
      BY <2>1, PendingParts
    <2> HIDE DEF q
    <2>3. IF m \in About[Readings(z)]
          THEN /\ News(Select(q, About[Readings(z)])) # <<>>
               /\ Head(News(Select(q, About[Readings(z)]))) = Said(m)
               /\ Tail(News(Select(q, About[Readings(z)]))) = News(Select(Tail(q), About[Readings(z)]))
          ELSE News(Select(q, About[Readings(z)])) = News(Select(Tail(q), About[Readings(z)]))
      BY <2>1, OneLess
    <2>4. QED
      BY <1>6, <2>2, <2>3 DEF Still
  <1> DEFINE t == Readings(s)
  <1>8. \A z \in Stream : Still(Registrations(z)) /\ Still(Terminations(z))
    BY <1>1, Frame
  <1>9. \A o \in Topic \ {t} : Still(o)
    BY <1>7, <1>8, TopicCases
  <1>10. ASSUME NEW c \in Client, NEW o \in Topic
         PROVE  Got'[c][o] = IF c \in subs /\ o = t THEN Append(Got[c][o], Said(m)) ELSE Got[c][o]
    <2>1. PICK z \in Stream : o \in {Readings(z), Registrations(z), Terminations(z)}
      BY TopicCases
    <2>2. /\ Got'[c][Readings(z)] =
               IF c \in subs /\ z = s THEN Append(Got[c][Readings(z)], Said(m))
               ELSE Got[c][Readings(z)]
          /\ Got'[c][Registrations(z)] = Got[c][Registrations(z)]
          /\ Got'[c][Terminations(z)] = Got[c][Terminations(z)]
      BY <1>1, <1>2, <1>6, DataGot
    <2>3. QED
      BY <2>1, <2>2, TopicCases
  <1>11. /\ t \in Topic /\ Pending[t] # <<>> /\ Head(Pending[t]) = Said(m)
         /\ Pending'[t] = Tail(Pending[t])
    BY <1>7, TopicCases
  <1> HIDE DEF t
  <1>12. QED
    BY <1>1, <1>9, <1>10, <1>11, DeliveredTo DEF Implemented

LEMMA ApiJoinsOrLeaves ==
  ASSUME TypeOK, HandleApi
  PROVE  Implemented
  <1>1. UNCHANGED <<chan, regRx, events, dataQueue, gotData, gotStatus>>
    BY DEF HandleApi, sourceVars, clientVars
  <1>2. \A o \in Topic : Still(o)
    BY <1>1, Frame, TopicCases
  <1>3. Pending' = Pending /\ Got' = Got
    BY <1>1, <1>2, Unmoved
  <1>4. \E c \in Client : subs' = subs \cup {c} \/ subs' = subs \ {c}
    <2>1. Head(api) \in ClientApi
      BY DEF HandleApi, TypeOK
    <2>2. Head(api).client \in Client
      BY <2>1 DEF ClientApi
    <2>3. QED
      BY <2>2 DEF HandleApi
  <1>5. \E c \in Client : Promise!Join(c) \/ Promise!Leave(c)
    BY <1>3, <1>4 DEF Promise!Join, Promise!Leave
  <1>6. QED
    BY <1>5 DEF Implemented, Promise!SubscriptionNext

\* From the stream's channel to the data queue a reading stays where it is among
\* those of its stream.
LEMMA ProcessReadingHidden ==
  ASSUME TypeOK, OrderInv, NEW s \in Stream, ProcessReading(s)
  PROVE  Implemented
  <1> DEFINE m == Head(chan[s])
  <1>1. /\ chan[s] # <<>> /\ m \in NodeEvent /\ m.kind = "SensorReading"
        /\ m = chan[s][1] /\ 1 \in DOMAIN chan[s]
        /\ chan'[s] = Tail(chan[s]) /\ dataQueue' = Append(dataQueue, m)
        /\ \A z \in Stream \ {s} : chan'[z] = chan[z]
        /\ UNCHANGED <<regRx, events, subs, gotData, gotStatus>>
    <2>1. chan[s] \in Seq(NodeEvent) /\ chan[s] # <<>>
      BY DEF ProcessReading, TypeOK
    <2>2. QED
      BY <2>1, TailParts DEF ProcessReading, sourceVars, clientVars, TypeOK
  <1>2. m.of = s /\ m \in Anything /\ m \notin Ends
    <2>1. m.of = s
      BY <1>1 DEF OrderInv
    <2>2. QED
      BY <1>1, <2>1 DEF Anything, Ends
  <1>3. /\ dataQueue \in Seq(NodeEvent) /\ dataQueue \in Seq(Anything)
        /\ \A z \in Stream : chan[z] \in Seq(NodeEvent) /\ chan[z] \in Seq(Anything)
    BY QueueTypes DEF TypeOK
  <1>4. Still(Readings(s))
    <2>1. Append(dataQueue, m) \o Tail(chan[s]) = dataQueue \o chan[s]
      <3>1. \A q, r \in Seq(NodeEvent) :
              r # <<>> => Append(q, Head(r)) \o Tail(r) = q \o r
        BY HandedOn
      <3>2. QED
        BY <1>1, <1>3, <3>1
    <2>2. dataQueue' \o chan'[s] = dataQueue \o chan[s]
      BY <1>1, <2>1
    <2>3. QED
      BY <2>2, PendingParts DEF Still
  <1> HIDE DEF m
  <1>5. ASSUME NEW z \in Stream \ {s}
        PROVE  Still(Readings(z))
    <2> DEFINE A == About[Readings(z)]
    <2>1. m \notin A
      BY <1>2, AboutParts
    <2> HIDE DEF A
    <2>2. Select(Append(dataQueue, m), A) = Select(dataQueue, A)
      BY <1>2, <1>3, <2>1, SelectAppend
    <2>3. Append(dataQueue, m) \in Seq(Anything)
      BY <1>2, <1>3
    <2>4. /\ Select(Append(dataQueue, m) \o chan[z], A) = Select(Append(dataQueue, m), A) \o Select(chan[z], A)
          /\ Select(dataQueue \o chan[z], A) = Select(dataQueue, A) \o Select(chan[z], A)
      <3>1. \A q, r \in Seq(Anything) : Select(q \o r, A) = Select(q, A) \o Select(r, A)
        BY SelectConcat
      <3>2. QED
        BY <1>3, <2>3, <3>1
    <2>5. Select(dataQueue' \o chan'[z], A) = Select(dataQueue \o chan[z], A)
      BY <1>1, <2>2, <2>4
    <2>6. QED
      BY <2>5, PendingParts DEF Still, A
  <1>6. Still(Terminations(s))
    <2>1. Select(chan'[s], Ends) = Select(chan[s], Ends)
      <3>1. Head(chan[s]) \notin Ends
        BY <1>2 DEF m
      <3>2. QED
        BY <1>1, <1>3, <3>1, SelectTail
    <2>2. QED
      BY <1>1, <2>1, PendingParts DEF Still
  <1>7. \A o \in Topic : Still(o)
    BY <1>1, <1>4, <1>5, <1>6, Frame, TopicCases
  <1>8. QED
    BY <1>1, <1>7, Unmoved DEF Implemented

LEMMA ProcessEndHidden ==
  ASSUME TypeOK, OrderInv, NEW s \in Stream, ProcessEnd(s)
  PROVE  Implemented
  <1> DEFINE h == Head(chan[s])
             m == [kind |-> "Termination", of |-> s, why |-> h.why]
  <1>1. /\ chan[s] \in Seq(NodeEvent) /\ chan[s] # <<>> /\ h \in NodeEvent /\ h.kind = "End"
        /\ chan'[s] = Tail(chan[s])
        /\ events' = IF h.why = "SetupError" THEN events ELSE Append(events, m)
        /\ \A z \in Stream \ {s} : chan'[z] = chan[z]
        /\ UNCHANGED <<regRx, dataQueue, subs, gotData, gotStatus>>
    <2>1. chan[s] \in Seq(NodeEvent) /\ chan[s] # <<>>
      BY DEF ProcessEnd, TypeOK
    <2>2. QED
      BY <2>1, TailParts DEF ProcessEnd, sourceVars, clientVars, TypeOK
  <1>2. h \in Anything /\ (h \in Ends <=> h.why # "SetupError")
    BY <1>1 DEF Anything, Ends
  <1>3. h.why # "SetupError" =>
          m \in Anything /\ m.kind = "Termination" /\ m.of = s /\ Said(m) = 0
    <2>1. h.why \in ErrorState
      BY <1>1 DEF NodeEvent
    <2>2. QED
      BY <2>1 DEF Anything, BrokerEvent, Status, Said
  <1>4. /\ dataQueue \in Seq(Anything) /\ events \in Seq(Anything)
        /\ \A z \in Stream : chan[z] \in Seq(Anything)
    BY QueueTypes
  <1> HIDE DEF m
  <1>5. Still(Readings(s))
    <2> DEFINE A == About[Readings(s)]
    <2>1. h \notin A
      BY <1>1, <1>2, AboutParts
    <2> HIDE DEF A
    <2>2. Select(Tail(chan[s]), A) = Select(chan[s], A)
      BY <1>1, <1>4, <2>1, SelectTail
    <2>3. Tail(chan[s]) \in Seq(Anything)
      BY <1>1, <1>4
    <2>4. /\ Select(dataQueue \o Tail(chan[s]), A) = Select(dataQueue, A) \o Select(Tail(chan[s]), A)
          /\ Select(dataQueue \o chan[s], A) = Select(dataQueue, A) \o Select(chan[s], A)
      <3>1. \A q, r \in Seq(Anything) : Select(q \o r, A) = Select(q, A) \o Select(r, A)
        BY SelectConcat
      <3>2. QED
        BY <1>4, <2>3, <3>1
    <2>5. Select(dataQueue' \o chan'[s], A) = Select(dataQueue \o chan[s], A)
      BY <1>1, <2>2, <2>4
    <2>6. QED
      BY <2>5, PendingParts DEF Still, A
  <1>6. CASE h.why = "SetupError"
    <2>1. Select(chan'[s], Ends) = Select(chan[s], Ends)
      BY <1>1, <1>2, <1>6, SelectTail
    <2>2. Still(Terminations(s))
      BY <1>1, <1>6, <2>1, PendingParts DEF Still
    <2>3. \A o \in Topic : Still(o)
      BY <1>1, <1>5, <1>6, <2>2, Frame, TopicCases
    <2>4. QED
      BY <1>1, <2>3, Unmoved DEF Implemented
  <1>7. CASE h.why # "SetupError"
    <2>1. events' = Append(events, m)
      BY <1>1, <1>7
    <2>2. Still(Terminations(s))
      <3>1. m \in About[Terminations(s)] /\ h \in Ends
        BY <1>2, <1>3, <1>7, AboutParts
      <3>2. MovesOn(events, About[Terminations(s)], m, chan[s], Ends)
        BY <1>1, <1>3, <1>4, <1>7, <3>1, MovedOn
      <3>3. QED
        BY <1>1, <2>1, <3>2, PendingParts DEF Still, MovesOn
    <2>3. ASSUME NEW z \in Stream
          PROVE  Still(Registrations(z)) /\ (z # s => Still(Terminations(z)))
      <3>1. m \notin About[Registrations(z)] /\ (z # s => m \notin About[Terminations(z)])
        BY <1>3, <1>7, AboutParts
      <3>2. /\ News(Select(events', About[Registrations(z)])) = News(Select(events, About[Registrations(z)]))
            /\ z # s => News(Select(events', About[Terminations(z)])) =
                          News(Select(events, About[Terminations(z)]))
        BY <1>3, <1>4, <1>7, <2>1, <3>1, OneMore
      <3>3. QED
        BY <1>1, <3>2, PendingParts DEF Still
    <2>4. \A o \in Topic : Still(o)
      BY <1>1, <1>5, <2>2, <2>3, Frame, TopicCases
    <2>5. QED
      BY <1>1, <2>4, Unmoved DEF Implemented
  <1>8. QED
    BY <1>6, <1>7

LEMMA NothingHappens ==
  ASSUME UNCHANGED <<chan, regRx, events, dataQueue, subs, gotData, gotStatus>>
  PROVE  Implemented
  <1>1. \A o \in Topic : Still(o)
    BY Frame, TopicCases
  <1>2. QED
    BY <1>1, Unmoved DEF Implemented

LEMMA StepImplemented ==
  ASSUME TypeOK, OrderInv, [Next]_vars
  PROVE  Implemented
  <1>1. ASSUME NEW c \in Client, NEW op \in {"Subscribe", "Unsubscribe"}, CallApi(c, op)
        PROVE  Implemented
    BY <1>1, NothingHappens DEF CallApi, sourceVars, clientVars
  <1>2. CASE UNCHANGED vars
    BY <1>2, NothingHappens DEF vars
  <1>3. QED
    BY <1>1, <1>2, MergeStreamHidden, MergeRegistrationHidden, EventDelivers, DataDelivers,
       ApiJoinsOrLeaves, ProcessReadingHidden, ProcessEndHidden, RegisterPublishes,
       ReadingPublishes, EndPublishes
    DEF Next, StreamTask

LEMMA InitImplemented == Init => Promise!SubscriptionInit
  <1> SUFFICES ASSUME Init
               PROVE  Promise!SubscriptionInit
    OBVIOUS
  <1>1. /\ dataQueue = <<>> /\ events = <<>> /\ regRx = <<>> /\ \A s \in Stream : chan[s] = <<>>
        /\ subs = {} /\ \A c \in Client : gotData[c] = <<>> /\ gotStatus[c] = <<>>
    BY DEF Init
  <1>2. /\ <<>> \o <<>> = <<>> /\ \A S : News(Select(<<>>, S)) = <<>>
        /\ \A S : Both(<<>>, Select(<<>>, S)) = <<>>
    <2>1. Noughts(<<>>) = <<>>
      BY DEF Noughts
    <2>2. QED
      BY <2>1, SelectEmpty, NewsEmpty DEF Both
  <1>3. \A s \in Stream : /\ Pending[Readings(s)] = <<>> /\ Pending[Registrations(s)] = <<>>
                          /\ Pending[Terminations(s)] = <<>>
    <2>1. ASSUME NEW s \in Stream
          PROVE  /\ dataQueue \o chan[s] = <<>>
                 /\ \A S : News(Select(dataQueue \o chan[s], S)) = <<>>
                 /\ \A S, Z : /\ Both(News(Select(events, S)), Select(regRx, Z)) = <<>>
                              /\ Both(News(Select(events, S)), Select(chan[s], Z)) = <<>>
      BY <1>1, <1>2
    <2>2. QED
      <3>1. TAKE s \in Stream
      <3>2. Pending[Readings(s)] = News(Select(dataQueue \o chan[s], About[Readings(s)]))
        BY PendingParts
      <3>3. /\ Pending[Registrations(s)] =
                  Both(News(Select(events, About[Registrations(s)])), Select(regRx, {s}))
            /\ Pending[Terminations(s)] =
                  Both(News(Select(events, About[Terminations(s)])), Select(chan[s], Ends))
        BY PendingParts
      <3>4. QED
        BY <2>1, <3>2, <3>3
  <1>4. \A c \in Client, s \in Stream : /\ Got[c][Readings(s)] = <<>>
                                        /\ Got[c][Registrations(s)] = <<>>
                                        /\ Got[c][Terminations(s)] = <<>>
    BY <1>1, <1>2, GotParts
  <1>5. Pending = [t \in Topic |-> <<>>]
    <2>1. \A t \in Topic : Pending[t] = <<>>
      BY <1>3, TopicCases
    <2>2. QED
      BY <2>1 DEF Pending
  <1>6. Got = [c \in Client |-> [t \in Topic |-> <<>>]]
    <2>1. ASSUME NEW c \in Client, NEW t \in Topic
          PROVE  Got[c][t] = <<>>
      BY <1>4, TopicCases
    <2>2. Got = [c \in Client |-> [t \in Topic |-> Got[c][t]]]
      BY DEF Got
    <2>3. QED
      BY <2>1, <2>2
  <1>7. QED
    BY <1>1, <1>5, <1>6 DEF Promise!SubscriptionInit

\* The Broker implements Subscription, for any number of streams, clients,
\* readings and calls: what its tasks pass on through six queues is, for each
\* topic, one queue from which everything reaches all who are subscribed then.
THEOREM DeliveryImplemented == Spec => SubscriptionImplemented
  <1>1. TypeOK /\ OrderInv /\ [Next]_vars => [Promise!SubscriptionNext]_(Promise!subscriptionVars)
    BY StepImplemented DEF Implemented, Promise!subscriptionVars
  <1>2. Spec => []OrderInv
    BY OrderInit, OrderStep, TypeCorrect, PTL DEF Spec
  <1>3. QED
    BY <1>1, <1>2, InitImplemented, TypeCorrect, PTL
    DEF Spec, SubscriptionImplemented, Promise!SubscriptionSpec

=============================================================================
