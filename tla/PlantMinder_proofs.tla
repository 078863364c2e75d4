------------------------- MODULE PlantMinder_proofs -------------------------
(***************************************************************************)
(* Proofs about the front end's two maps and the histories in them, for    *)
(* any number of nodes and addresses and any length of histories and       *)
(* queues.                                                                 *)
(***************************************************************************)
EXTENDS PlantMinder, Selection_proofs, FiniteSetTheorems

Event == Registration \cup Termination \cup Key \cup {Tick}

\* The entries are what node_registration makes, under addresses of their own
\* node, and so will be those of the registrations that still wait.
EntriesOwned ==
    /\ events \in Seq(Event)
    /\ \A i \in 1 .. Len(events) :
         events[i].type = "registration" => events[i].eui = OwnerOf[events[i].ip]
    /\ DOMAIN nodes \subseteq Ip
    /\ \A ip \in DOMAIN nodes :
         nodes[ip] = [eui |-> OwnerOf[ip], history |-> nodes[ip].history]

MapsInv == EntriesOwned /\ AddrsResolve

LEMMA MapsInit == Init => MapsInv
  BY DEF Init, MapsInv, EntriesOwned, AddrsResolve

\* An event of the queue, and what is left of it.
LEMMA Taken ==
  ASSUME EntriesOwned, NEW t, TakeEvent(t)
  PROVE  /\ Head(events) \in Event /\ Head(events).type = t
         /\ t = "registration" => Head(events).eui = OwnerOf[Head(events).ip]
         /\ events' \in Seq(Event)
         /\ \A i \in 1 .. Len(events') :
              events'[i].type = "registration" => events'[i].eui = OwnerOf[events'[i].ip]
  <1>1. events \in Seq(Event) /\ events # <<>> /\ events' = Tail(events) /\ Head(events).type = t
    BY DEF EntriesOwned, TakeEvent
  <1>2. /\ Head(events) = events[1] /\ 1 \in 1 .. Len(events)
        /\ Head(events) \in Event
        /\ events' \in Seq(Event)
        /\ \A i \in 1 .. Len(events') : events'[i] = events[i + 1] /\ i + 1 \in 1 .. Len(events)
    BY <1>1
  <1>3. QED
    BY <1>1, <1>2 DEF EntriesOwned

\* A queued event keeps the maps.
LEMMA ForwardStep ==
  ASSUME MapsInv, NEW e \in Event, Forward(e),
         e.type = "registration" => e.eui = OwnerOf[e.ip]
  PROVE  MapsInv'
  <1>1. events \in Seq(Event) /\ events' = Append(events, e) /\ UNCHANGED nodeVars
    BY DEF MapsInv, EntriesOwned, Forward
  <1>2. /\ events' \in Seq(Event)
        /\ \A i \in 1 .. Len(events') :
             events'[i] = e \/ (i \in 1 .. Len(events) /\ events'[i] = events[i])
    BY <1>1
  <1>3. QED
    BY <1>1, <1>2 DEF MapsInv, EntriesOwned, AddrsResolve, nodeVars

\* Of all entries, a registration touches those of its own node only: what it
\* evicts and what it overwrites are addresses of its node.
LEMMA RegistrationStep ==
  ASSUME MapsInv, HandleRegistration
  PROVE  /\ MapsInv'
         /\ \A e \in DOMAIN node_addrs :
              nodes'[node_addrs'[e]].history = nodes[node_addrs[e]].history
  <1> DEFINE reg == Head(events)
             kept == Kept(reg.eui)
  <1>1. reg \in Event /\ reg.type = "registration" /\ reg.eui = OwnerOf[reg.ip]
    BY Taken DEF MapsInv, HandleRegistration
  <1>2. reg.ip \in Ip
    BY <1>1 DEF Event, Registration, Termination, Key, Tick
  <1>3. /\ node_addrs' = [e \in DOMAIN node_addrs \cup {reg.eui} |->
                             IF e = reg.eui THEN reg.ip ELSE node_addrs[e]]
        /\ nodes' = [ip \in kept \cup {reg.ip} |->
              IF ip # reg.ip THEN nodes[ip]
              ELSE [eui |-> IF ip \in kept THEN nodes[ip].eui ELSE reg.eui,
                    history |-> History(reg.eui)]]
    BY DEF HandleRegistration
  <1> HIDE DEF reg
  <1>4. kept \subseteq DOMAIN nodes
    BY DEF Kept
  <1>5. \A e \in DOMAIN node_addrs :
          /\ node_addrs[e] \in DOMAIN nodes
          /\ nodes[node_addrs[e]].eui = e
          /\ OwnerOf[node_addrs[e]] = e
    BY DEF MapsInv, EntriesOwned, AddrsResolve
  <1>6. \A e \in DOMAIN node_addrs : e # reg.eui => node_addrs[e] \in kept
    <2>1. History(reg.eui) # <<>> => reg.eui \in DOMAIN node_addrs
      BY DEF History
    <2>2. QED
      BY <1>5, <2>1 DEF Kept
  <1>7. \A ip \in DOMAIN nodes' :
          nodes'[ip] = [eui |-> OwnerOf[ip], history |-> nodes'[ip].history]
    <2>1. \A ip \in kept :
            /\ nodes[ip] = [eui |-> OwnerOf[ip], history |-> nodes[ip].history]
            /\ nodes[ip].eui = OwnerOf[ip]
      BY <1>4 DEF MapsInv, EntriesOwned
    <2>2. nodes'[reg.ip] = [eui |-> OwnerOf[reg.ip], history |-> History(reg.eui)]
      BY <1>1, <1>3, <2>1
    <2>3. QED
      BY <1>3, <2>1, <2>2
  <1>8. EntriesOwned'
    <2>1. DOMAIN nodes' \subseteq Ip
      BY <1>2, <1>3, <1>4 DEF MapsInv, EntriesOwned
    <2>2. QED
      BY <1>7, <2>1, Taken DEF MapsInv, EntriesOwned, HandleRegistration
  <1>9. AddrsResolve'
    <2>1. ASSUME NEW e \in DOMAIN node_addrs'
          PROVE  node_addrs'[e] \in DOMAIN nodes' /\ OwnerOf[node_addrs'[e]] = e
      BY <1>1, <1>3, <1>5, <1>6
    <2>2. QED
      BY <1>7, <2>1 DEF AddrsResolve
  <1>10. ASSUME NEW e \in DOMAIN node_addrs
         PROVE  nodes'[node_addrs'[e]].history = nodes[node_addrs[e]].history
    <2>1. CASE e = reg.eui
      BY <1>3, <1>5, <2>1 DEF History
    <2>2. CASE e # reg.eui
      <3>1. node_addrs'[e] = node_addrs[e] /\ node_addrs[e] # reg.ip
        BY <1>1, <1>3, <1>5, <2>2
      <3>2. QED
        BY <1>3, <1>6, <2>2, <3>1
    <2>3. QED
      BY <2>1, <2>2
  <1>11. QED
    BY <1>8, <1>9, <1>10 DEF MapsInv

\* A tick changes histories only.
LEMMA TickStep == MapsInv /\ HandleTick => MapsInv'
  <1> SUFFICES ASSUME MapsInv, HandleTick
               PROVE  MapsInv'
    OBVIOUS
  <1>1. /\ DOMAIN nodes' = DOMAIN nodes
        /\ \A ip \in DOMAIN nodes :
             \/ nodes'[ip] = nodes[ip]
             \/ \E h : nodes'[ip] = [nodes[ip] EXCEPT !.history = h]
    BY DEF HandleTick
  <1>2. \A ip \in DOMAIN nodes :
          nodes'[ip] = [eui |-> OwnerOf[ip], history |-> nodes'[ip].history]
    BY <1>1 DEF MapsInv, EntriesOwned
  <1>3. EntriesOwned'
    BY <1>1, <1>2, Taken DEF MapsInv, EntriesOwned, HandleTick
  <1>4. \A ip \in DOMAIN nodes : nodes'[ip].eui = nodes[ip].eui
    <2>1. ASSUME NEW ip \in DOMAIN nodes
          PROVE  nodes'[ip].eui = OwnerOf[ip]
      <3>1. \E h : nodes'[ip] = [eui |-> OwnerOf[ip], history |-> h]
        BY <1>2
      <3>2. QED
        BY <3>1
    <2>2. \A ip \in DOMAIN nodes : nodes[ip].eui = OwnerOf[ip]
      BY DEF MapsInv, EntriesOwned
    <2>3. QED
      BY <2>1, <2>2
  <1>5. AddrsResolve'
    BY <1>1, <1>4 DEF MapsInv, AddrsResolve, HandleTick
  <1>6. QED
    BY <1>3, <1>5 DEF MapsInv

LEMMA MapsStep ==
  ASSUME AnswersRead, MapsInv, [Next]_vars
  PROVE  MapsInv'
  <1>1. CASE Forward(Tick)
    BY <1>1, ForwardStep DEF Tick, Event
  <1>2. ASSUME NEW k \in Key, ForwardKey(k)
        PROVE  MapsInv'
    <2>1. k \in Event /\ k.type = "key"
      BY DEF Event, Key
    <2>2. QED
      BY <1>2, <2>1, ForwardStep DEF ForwardKey
  <1>3. ASSUME NEW ip \in Ip, ForwardRegistration(ip)
        PROVE  MapsInv'
    <2>1. Forward([type |-> "registration", eui |-> OwnerOf[ip], ip |-> ip])
      BY <1>3 DEF ForwardRegistration
    <2>2. [type |-> "registration", eui |-> OwnerOf[ip], ip |-> ip] \in Event
      BY MinderAssumption DEF Event, Registration
    <2>3. QED
      BY <2>1, <2>2, ForwardStep
  <1>4. ASSUME NEW ip \in Ip, ForwardTermination(ip)
        PROVE  MapsInv'
    <2>1. /\ [type |-> "termination", ip |-> ip] \in Event
          /\ [type |-> "termination", ip |-> ip].type # "registration"
      BY DEF Event, Termination
    <2>2. QED
      BY <1>4, <2>1, ForwardStep DEF ForwardTermination
  <1>5. ASSUME NEW ip \in Ip, ForwardReading(ip)
        PROVE  MapsInv'
    BY <1>5 DEF ForwardReading, MapsInv, EntriesOwned, AddrsResolve, nodeVars
  <1>6. CASE HandleTermination
    BY <1>6, Taken DEF HandleTermination, MapsInv, EntriesOwned, AddrsResolve, nodeVars
  <1>7. CASE HandleKey
    BY <1>7, Taken DEF HandleKey, MapsInv, EntriesOwned, AddrsResolve, nodeVars
  <1>8. CASE UNCHANGED vars
    BY <1>8 DEF vars, MapsInv, EntriesOwned, AddrsResolve, nodeVars
  <1>9. QED
    BY <1>1, <1>2, <1>3, <1>4, <1>5, <1>6, <1>7, <1>8, TickStep, RegistrationStep DEF Next

LEMMA AlwaysMapped == AnswersRead /\ Spec => []MapsInv
  <1> SUFFICES ASSUME AnswersRead
               PROVE  Spec => []MapsInv
    OBVIOUS
  <1>1. MapsInv /\ [Next]_vars => MapsInv'
    BY MapsStep
  <1>2. QED
    BY <1>1, MapsInit, PTL DEF Spec

\* Every EUI leads to the entry of its node, for any number of nodes, as long as
\* their answers carry their EUI: no registration evicts or overwrites the
\* entry of another node.
THEOREM AddrsAlwaysResolve == AnswersRead /\ Spec => []AddrsResolve
  <1>1. MapsInv => AddrsResolve
    BY DEF MapsInv
  <1>2. QED
    BY <1>1, AlwaysMapped, PTL

\* No registration loses a history, its own node's or another's.
THEOREM HistoriesAreKept == AnswersRead /\ Spec => RegistrationsKeepHistories
  <1>1. MapsInv /\ [Next]_vars =>
          [HandleRegistration =>
             \A e \in DOMAIN node_addrs :
                nodes'[node_addrs'[e]].history = nodes[node_addrs[e]].history]_vars
    BY RegistrationStep
  <1>2. QED
    BY <1>1, AlwaysMapped, PTL DEF Spec, RegistrationsKeepHistories

(***************************************************************************)
(* Batches and histories.                                                  *)
(***************************************************************************)

Batch == SubSeq(readings, 1, BatchSize)

LEMMA SubSeqParts ==
  ASSUME NEW S, NEW q \in Seq(S), NEW m \in 1 .. Len(q) + 1, NEW n \in 0 .. Len(q), m <= n + 1
  PROVE  /\ SubSeq(q, m, n) \in Seq(S)
         /\ Len(SubSeq(q, m, n)) = n - m + 1
         /\ \A i \in 1 .. n - m + 1 : SubSeq(q, m, n)[i] = q[m + i - 1]
  OBVIOUS

\* The queue is the batch and what remains.
LEMMA BatchParts ==
  ASSUME readings \in Seq(Reading)
  PROVE  /\ Batch \in Seq(Reading) /\ Remaining \in Seq(Reading)
         /\ BatchSize \in 0 .. Len(readings) /\ BatchSize <= Limit
         /\ Len(Batch) = BatchSize /\ Len(Remaining) = Len(readings) - BatchSize
         /\ \A i \in 1 .. BatchSize : Batch[i] = readings[i]
         /\ \A i \in 1 .. Len(readings) - BatchSize : Remaining[i] = readings[BatchSize + i]
  <1> DEFINE b == BatchSize
             L == Len(readings)
  <1>1. b \in 0 .. L /\ b <= Limit /\ L \in Nat
    BY MinderAssumption DEF BatchSize
  <1> HIDE DEF b
  <1>2. 1 \in 1 .. L + 1 /\ 1 <= b + 1 /\ b + 1 \in 1 .. L + 1 /\ L \in 0 .. L /\ b + 1 <= L + 1
    BY <1>1
  <1>3. /\ SubSeq(readings, 1, b) \in Seq(Reading)
        /\ Len(SubSeq(readings, 1, b)) = b - 1 + 1
        /\ \A i \in 1 .. b - 1 + 1 : SubSeq(readings, 1, b)[i] = readings[1 + i - 1]
    BY <1>1, <1>2, SubSeqParts
  <1>4. /\ SubSeq(readings, b + 1, L) \in Seq(Reading)
        /\ Len(SubSeq(readings, b + 1, L)) = L - (b + 1) + 1
        /\ \A i \in 1 .. L - (b + 1) + 1 :
             SubSeq(readings, b + 1, L)[i] = readings[(b + 1) + i - 1]
    BY <1>1, <1>2, SubSeqParts
  <1>5. b - 1 + 1 = b /\ L - (b + 1) + 1 = L - b
    BY <1>1
  <1>6. /\ \A i \in 1 .. b : 1 + i - 1 = i
        /\ \A i \in 1 .. L - b : (b + 1) + i - 1 = b + i
    BY <1>1
  <1>7. Batch = SubSeq(readings, 1, b) /\ Remaining = SubSeq(readings, b + 1, L)
    BY DEF Batch, Remaining, b
  <1>8. QED
    BY <1>1, <1>3, <1>4, <1>5, <1>6, <1>7 DEF b

\* What a tick has for an address is no longer than the batch.
LEMMA OfIpType ==
  ASSUME NEW q \in Seq(Reading), NEW ip
  PROVE  /\ OfIp(q, ip) \in Seq(Reading)
         /\ Len(OfIp(q, ip)) <= Len(q)
         /\ \A i \in 1 .. Len(OfIp(q, ip)) : OfIp(q, ip)[i].ip = ip
  <1> DEFINE S == {r \in Reading : r.ip = ip}
             D == Reading \cap S
  <1>1. OfIp(q, ip) \in Seq(D) /\ Len(OfIp(q, ip)) <= Len(q)
    BY SelectType DEF OfIp
  <1>2. \A r \in D : r \in Reading /\ r.ip = ip
    OBVIOUS
  <1> HIDE DEF D
  <1>3. QED
    BY <1>1, <1>2

LEMMA ExtendedType ==
  ASSUME NEW old \in Seq(Reading), NEW new \in Seq(Reading),
         Overflows(old, new) => Len(old) >= Drain
  PROVE  Extended(old, new) \in Seq(Reading)
  <1>1. CASE Overflows(old, new)
    <2>1. /\ Drain + 1 \in 1 .. Len(old) + 1 /\ Len(old) \in 0 .. Len(old)
          /\ Drain + 1 <= Len(old) + 1
      BY <1>1, MinderAssumption
    <2>2. SubSeq(old, Drain + 1, Len(old)) \in Seq(Reading)
      BY <2>1, SubSeqParts
    <2>3. QED
      BY <1>1, <2>2 DEF Extended
  <1>2. CASE ~Overflows(old, new)
    BY <1>2 DEF Extended
  <1>3. QED
    BY <1>1, <1>2

(***************************************************************************)
(* Types.                                                                  *)
(***************************************************************************)

Entry == [eui : Eui \cup {NoEui}, history : Seq(Reading)]

\* The last row is one less than the number of nodes known: the types hold
\* only as long as there are finitely many.
TypeInv == TypeOK /\ IsFiniteSet(DOMAIN node_addrs)

LEMMA TypeInit == Init => TypeInv
  <1> SUFFICES ASSUME Init
               PROVE  TypeInv
    OBVIOUS
  <1>1. DOMAIN nodes = {} /\ nodes \in [DOMAIN nodes -> Entry]
    BY DEF Init
  <1>2. DOMAIN node_addrs = {} /\ node_addrs \in [DOMAIN node_addrs -> Ip]
    BY DEF Init
  <1>3. events \in Seq(Event) /\ readings \in Seq(Reading)
    BY DEF Init
  <1>4. arrived \in 0 .. MaxReadings /\ tab \in 0 .. NumTabs - 1 /\ row \in Nat
    BY MinderAssumption DEF Init
  <1>5. running \in BOOLEAN /\ panicked \in BOOLEAN
    BY DEF Init
  <1>6. IsFiniteSet(DOMAIN node_addrs)
    BY <1>2, FS_EmptySet
  <1>7. QED
    BY <1>1, <1>2, <1>3, <1>4, <1>5, <1>6 DEF TypeInv, TypeOK, Event, Entry

LEMMA TakenType ==
  ASSUME TypeOK, NEW t, TakeEvent(t)
  PROVE  Head(events) \in Event /\ Head(events).type = t /\ events' \in Seq(Event)
  BY DEF TypeOK, Event, TakeEvent

LEMMA ForwardType ==
  ASSUME TypeOK, NEW e \in Event, Forward(e)
  PROVE  TypeOK'
  <1>1. events' \in Seq(Event)
    BY DEF TypeOK, Event, Forward
  <1>2. QED
    BY <1>1 DEF TypeOK, Event, Forward, nodeVars, viewVars

LEMMA TickType ==
  ASSUME TypeOK, HandleTick
  PROVE  TypeOK'
  <1>1. /\ events' \in Seq(Event)
        /\ readings' \in Seq(Reading)
        /\ UNCHANGED <<arrived, node_addrs, tab, row>>
        /\ running' \in BOOLEAN /\ panicked' \in BOOLEAN
    BY TakenType, BatchParts DEF HandleTick, TypeOK, viewVars
  <1>2. DOMAIN nodes' = DOMAIN nodes /\ nodes' \in [DOMAIN nodes -> Entry]
    <2>1. CASE UNCHANGED nodes
      BY <2>1 DEF TypeOK, Entry
    <2>2. CASE /\ \A ip \in DOMAIN nodes :
                    Overflows(nodes[ip].history, OfIp(Batch, ip)) =>
                      ~(Len(nodes[ip].history) < Drain)
               /\ nodes' = [ip \in DOMAIN nodes |->
                     [nodes[ip] EXCEPT !.history = Extended(@, OfIp(Batch, ip))]]
      <3>1. ASSUME NEW ip \in DOMAIN nodes
            PROVE  [nodes[ip] EXCEPT !.history = Extended(@, OfIp(Batch, ip))] \in Entry
        <4>1. nodes[ip] \in Entry /\ nodes[ip].history \in Seq(Reading)
          BY DEF TypeOK, Entry
        <4>2. OfIp(Batch, ip) \in Seq(Reading)
          BY BatchParts, OfIpType DEF TypeOK
        <4>3. Overflows(nodes[ip].history, OfIp(Batch, ip)) => Len(nodes[ip].history) >= Drain
          BY <2>2, <4>1, MinderAssumption
        <4>4. Extended(nodes[ip].history, OfIp(Batch, ip)) \in Seq(Reading)
          BY <4>1, <4>2, <4>3, ExtendedType
        <4>5. QED
          BY <4>1, <4>4 DEF Entry
      <3>2. QED
        BY <2>2, <3>1
    <2>3. QED
      BY <2>1, <2>2 DEF HandleTick, Batch
  <1>3. QED
    BY <1>1, <1>2 DEF TypeOK, Event, Entry

LEMMA HistoryType ==
  ASSUME TypeOK, NEW eui
  PROVE  History(eui) \in Seq(Reading)
  <1>1. \A ip \in DOMAIN nodes : nodes[ip].history \in Seq(Reading)
    BY DEF TypeOK
  <1>2. <<>> \in Seq(Reading)
    OBVIOUS
  <1>3. QED
    BY <1>1, <1>2 DEF History

LEMMA RegistrationType ==
  ASSUME TypeOK, HandleRegistration
  PROVE  TypeOK'
  <1> DEFINE reg == Head(events)
             kept == Kept(reg.eui)
  <1>1. reg \in Event /\ reg.type = "registration" /\ events' \in Seq(Event)
    BY TakenType DEF HandleRegistration
  <1>2. reg.ip \in Ip /\ reg.eui \in Eui \cup {NoEui}
    BY <1>1 DEF Event, Registration, Termination, Key, Tick
  <1>3. /\ node_addrs' = [e \in DOMAIN node_addrs \cup {reg.eui} |->
                             IF e = reg.eui THEN reg.ip ELSE node_addrs[e]]
        /\ nodes' = [ip \in kept \cup {reg.ip} |->
              IF ip # reg.ip THEN nodes[ip]
              ELSE [eui |-> IF ip \in kept THEN nodes[ip].eui ELSE reg.eui,
                    history |-> History(reg.eui)]]
        /\ UNCHANGED <<readings, arrived, running, panicked, tab, row>>
    BY DEF HandleRegistration, viewVars
  <1> HIDE DEF reg
  <1>4. /\ kept \subseteq DOMAIN nodes /\ DOMAIN nodes \subseteq Ip
        /\ \A ip \in DOMAIN nodes : nodes[ip] \in Entry /\ nodes[ip].eui \in Eui \cup {NoEui}
    BY DEF Kept, TypeOK, Entry
  <1>5. History(reg.eui) \in Seq(Reading)
    BY HistoryType
  <1> HIDE DEF kept
  <1>6. /\ DOMAIN nodes' \subseteq Ip
        /\ nodes' \in [DOMAIN nodes' -> Entry]
    <2>1. ASSUME NEW ip \in kept \cup {reg.ip}
          PROVE  nodes'[ip] \in Entry
      <3>1. CASE ip # reg.ip
        BY <1>3, <1>4, <3>1
      <3>2. CASE ip = reg.ip
        <4>1. nodes'[ip] = [eui |-> IF ip \in kept THEN nodes[ip].eui ELSE reg.eui,
                            history |-> History(reg.eui)]
          BY <1>3, <3>2
        <4>2. (IF ip \in kept THEN nodes[ip].eui ELSE reg.eui) \in Eui \cup {NoEui}
          BY <1>2, <1>4
        <4>3. QED
          BY <1>5, <4>1, <4>2 DEF Entry
      <3>3. QED
        BY <3>1, <3>2
    <2>2. DOMAIN nodes' = kept \cup {reg.ip} /\ nodes' = [ip \in kept \cup {reg.ip} |-> nodes'[ip]]
      BY <1>3
    <2>3. QED
      BY <1>2, <1>4, <2>1, <2>2
  <1>7. /\ DOMAIN node_addrs' \subseteq Eui \cup {NoEui}
        /\ node_addrs' \in [DOMAIN node_addrs' -> Ip]
    BY <1>2, <1>3 DEF TypeOK
  <1>8. QED
    BY <1>1, <1>3, <1>6, <1>7 DEF TypeOK, Event, Entry

LEMMA RegistrationFinite ==
  ASSUME TypeInv, HandleRegistration
  PROVE  IsFiniteSet(DOMAIN node_addrs')
  <1>1. PICK e : DOMAIN node_addrs' = DOMAIN node_addrs \cup {e}
    BY DEF HandleRegistration
  <1>2. QED
    BY <1>1, FS_AddElement DEF TypeInv

LEMMA LastRowType ==
  ASSUME IsFiniteSet(DOMAIN node_addrs)
  PROVE  LastRow \in Nat
  <1>1. /\ Cardinality(DOMAIN node_addrs) \in Nat
        /\ Cardinality(DOMAIN node_addrs) = 0 <=> DOMAIN node_addrs = {}
    BY FS_CardinalityType, FS_EmptySet
  <1>2. QED
    BY <1>1 DEF LastRow

LEMMA KeyType ==
  ASSUME TypeInv, HandleKey
  PROVE  TypeOK'
  <1>1. /\ events' \in Seq(Event)
        /\ UNCHANGED <<readings, arrived, panicked, nodes, node_addrs>>
        /\ running' \in BOOLEAN
    BY TakenType DEF HandleKey, nodeVars, TypeInv
  <1>2. tab' \in 0 .. NumTabs - 1
    BY MinderAssumption DEF HandleKey, TypeOK, NextTab, TypeInv
  <1>3. row' \in Nat
    <2>1. LastRow \in Nat /\ row \in Nat
      BY LastRowType DEF TypeInv, TypeOK
    <2>2. row' = row + 1 \/ row' = row \/ row' = LastRow \/ (row # 0 /\ row' = row - 1)
      BY DEF HandleKey
    <2>3. QED
      BY <2>1, <2>2
  <1>4. QED
    BY <1>1, <1>2, <1>3 DEF TypeOK, Event, TypeInv

LEMMA ReadingType ==
  ASSUME TypeOK, NEW ip \in Ip, ForwardReading(ip)
  PROVE  TypeOK'
  <1>1. arrived + 1 \in 1 .. MaxReadings /\ arrived' = arrived + 1
    BY MinderAssumption DEF ForwardReading, TypeOK
  <1>2. [ip |-> ip, n |-> arrived + 1] \in Reading
    BY <1>1 DEF Reading
  <1>3. readings' \in Seq(Reading)
    BY <1>2 DEF ForwardReading, TypeOK
  <1>4. QED
    BY <1>1, <1>3 DEF ForwardReading, TypeOK, nodeVars, viewVars

LEMMA TypeStep == TypeInv /\ [Next]_vars => TypeInv'
  <1> SUFFICES ASSUME TypeInv, [Next]_vars
               PROVE  TypeInv'
    OBVIOUS
  <1>1. TypeOK'
    <2>1. CASE Forward(Tick)
      BY <2>1, ForwardType DEF TypeInv, Event
    <2>2. ASSUME NEW k \in Key, ForwardKey(k)
          PROVE  TypeOK'
      BY <2>2, ForwardType DEF TypeInv, Event, ForwardKey
    <2>3. ASSUME NEW ip \in Ip, ForwardRegistration(ip)
          PROVE  TypeOK'
      <3>1. PICK e \in {OwnerOf[ip]} \cup (IF AnswersRead THEN {} ELSE {NoEui}) :
                   Forward([type |-> "registration", eui |-> e, ip |-> ip])
        BY <2>3 DEF ForwardRegistration
      <3>2. e \in Eui \cup {NoEui}
        BY MinderAssumption
      <3>3. [type |-> "registration", eui |-> e, ip |-> ip] \in Event
        BY <3>2 DEF Event, Registration
      <3>4. QED
        BY <3>1, <3>3, ForwardType DEF TypeInv
    <2>4. ASSUME NEW ip \in Ip, ForwardTermination(ip)
          PROVE  TypeOK'
      <3>1. [type |-> "termination", ip |-> ip] \in Event
        BY DEF Event, Termination
      <3>2. QED
        BY <2>4, <3>1, ForwardType DEF TypeInv, ForwardTermination
    <2>5. ASSUME NEW ip \in Ip, ForwardReading(ip)
          PROVE  TypeOK'
      BY <2>5, ReadingType DEF TypeInv
    <2>6. CASE HandleTermination
      BY <2>6, TakenType DEF HandleTermination, TypeInv, TypeOK, Event, nodeVars, viewVars
    <2>7. CASE UNCHANGED vars
      BY <2>7 DEF vars, TypeInv, TypeOK, nodeVars, viewVars
    <2>8. QED
      BY <2>1, <2>2, <2>3, <2>4, <2>5, <2>6, <2>7, TickType, RegistrationType, KeyType
      DEF Next, TypeInv
  <1>2. IsFiniteSet(DOMAIN node_addrs')
    <2>1. HandleRegistration \/ UNCHANGED node_addrs
      BY DEF Next, vars, Forward, ForwardKey, ForwardRegistration, ForwardTermination,
             ForwardReading, HandleTick, HandleTermination, HandleKey, nodeVars
    <2>2. QED
      BY <2>1, RegistrationFinite DEF TypeInv
  <1>3. QED
    BY <1>1, <1>2 DEF TypeInv

\* The front end's state has its types for any number of nodes and any size of
\* window and batch; a drain of more than there is never runs (it panics).
THEOREM TypeCorrect == Spec => []TypeOK
  <1>1. TypeInv => TypeOK
    BY DEF TypeInv
  <1>2. QED
    BY <1>1, TypeInit, TypeStep, PTL DEF Spec

(***************************************************************************)
(* Making room.                                                            *)
(***************************************************************************)

\* A batch that overflows a window is short enough for the history before it to
\* have what is drained.
LEMMA RoomToDrain ==
  ASSUME Limit + Drain <= Window, TypeOK, NEW ip \in DOMAIN nodes,
         Overflows(nodes[ip].history, OfIp(Batch, ip))
  PROVE  ~(Len(nodes[ip].history) < Drain)
  <1> DEFINE k == Len(nodes[ip].history)
             l == Len(OfIp(Batch, ip))
  <1>1. nodes[ip].history \in Seq(Reading)
    BY DEF TypeOK
  <1>2. Batch \in Seq(Reading) /\ Len(Batch) <= Limit /\ Len(Batch) \in Nat
    BY BatchParts DEF TypeOK
  <1>3. OfIp(Batch, ip) \in Seq(Reading) /\ l <= Len(Batch)
    BY <1>2, OfIpType
  <1>4. k \in Nat /\ l \in Nat
    BY <1>1, <1>3
  <1>5. k + l >= Window
    BY DEF Overflows
  <1> HIDE DEF k, l
  <1>6. ~(k < Drain)
    BY <1>2, <1>3, <1>4, <1>5, MinderAssumption
  <1>7. QED
    BY <1>6 DEF k

LEMMA NoPanicStep ==
  ASSUME Limit + Drain <= Window, TypeOK, NoPanic, [Next]_vars
  PROVE  NoPanic'
  <1>1. CASE HandleTick
    BY <1>1, RoomToDrain DEF HandleTick, NoPanic, Batch
  <1>2. HandleTick \/ UNCHANGED panicked
    BY DEF Next, vars, Forward, ForwardKey, ForwardRegistration, ForwardTermination,
           ForwardReading, HandleRegistration, HandleTermination, HandleKey
  <1>3. QED
    BY <1>1, <1>2 DEF NoPanic

\* The program never ends with a drain of more than there is, for every window,
\* batch and drain that leave as much room as the code's constants do (50 for
\* 20 and 5), and whatever waits in the queues.
THEOREM NeverPanics == Limit + Drain <= Window /\ Spec => []NoPanic
  <1> SUFFICES ASSUME Limit + Drain <= Window
               PROVE  Spec => []NoPanic
    OBVIOUS
  <1>1. Init => NoPanic
    BY DEF Init, NoPanic
  <1>2. TypeOK /\ NoPanic /\ [Next]_vars => NoPanic'
    BY NoPanicStep
  <1>3. QED
    BY <1>1, <1>2, TypeCorrect, PTL DEF Spec

(***************************************************************************)
(* The order of readings.                                                  *)
(***************************************************************************)

Increasing(q) == \A i, j \in 1 .. Len(q) : i < j => q[i].n < q[j].n

Before(p, q) == \A i \in 1 .. Len(p), j \in 1 .. Len(q) : p[i].n < q[j].n

NoneAfter(q, k) == \A i \in 1 .. Len(q) : q[i].n <= k

\* What makes the order of a history right: k is the last that arrived, and rest
\* is what waits.
Orderly(h, k, rest) == Increasing(h) /\ NoneAfter(h, k) /\ Before(h, rest)

\* A history has nothing that is still to come: what waits in the queue arrived
\* after all that any entry shows, wherever the entry's history was before.
OrderInv ==
    /\ Increasing(readings) /\ NoneAfter(readings, arrived)
    /\ \A ip \in DOMAIN nodes : Orderly(nodes[ip].history, arrived, readings)

MinderInv == TypeOK /\ OrderInv

LEMMA OfIpOrder ==
  ASSUME NEW q \in Seq(Reading), NEW ip, Increasing(q)
  PROVE  /\ Increasing(OfIp(q, ip))
         /\ \A k : NoneAfter(q, k) => NoneAfter(OfIp(q, ip), k)
         /\ \A p : Before(p, q) => Before(p, OfIp(q, ip))
         /\ \A p : Before(q, p) => Before(OfIp(q, ip), p)
  <1> DEFINE s == OfIp(q, ip)
  <1>1. PICK e : Places(e, s, q, Len(q))
    BY SelectPlaces DEF OfIp
  <1> HIDE DEF s
  <1>2. /\ \A i \in 1 .. Len(s) : e[i] \in 1 .. Len(q) /\ s[i] = q[e[i]]
        /\ \A i, j \in 1 .. Len(s) : i < j => e[i] < e[j]
    BY <1>1 DEF Places
  <1>3. Increasing(s)
    BY <1>2 DEF Increasing
  <1>4. \A k : NoneAfter(q, k) => NoneAfter(s, k)
    BY <1>2 DEF NoneAfter
  <1>5. \A p : Before(p, q) => Before(p, s)
    BY <1>2 DEF Before
  <1>6. \A p : Before(q, p) => Before(s, p)
    BY <1>2 DEF Before
  <1>7. QED
    BY <1>3, <1>4, <1>5, <1>6 DEF s

\* A history is extended behind what is left of it.
LEMMA ExtendedParts ==
  ASSUME NEW old \in Seq(Reading), NEW new \in Seq(Reading),
         Overflows(old, new) => Len(old) >= Drain
  PROVE  \E d \in 0 .. Len(old) :
           /\ Len(Extended(old, new)) = Len(old) - d + Len(new)
           /\ \A i \in 1 .. Len(old) - d : Extended(old, new)[i] = old[i + d]
           /\ \A i \in 1 .. Len(new) : Extended(old, new)[Len(old) - d + i] = new[i]
  <1>1. PICK d \in 0 .. Len(old) :
          /\ d = 0 => Extended(old, new) = old \o new
          /\ d # 0 => Extended(old, new) = SubSeq(old, d + 1, Len(old)) \o new
    <2>1. CASE Overflows(old, new) /\ Drain # 0
      <3>1. Drain \in 0 .. Len(old)
        BY <2>1, MinderAssumption
      <3>2. QED
        BY <2>1, <3>1 DEF Extended
    <2>2. CASE Overflows(old, new) /\ Drain = 0
      <3>1. SubSeq(old, 1, Len(old)) = old
        OBVIOUS
      <3>2. Drain + 1 = 1 /\ 0 \in 0 .. Len(old)
        BY <2>2
      <3>3. QED
        BY <2>2, <3>1, <3>2 DEF Extended
    <2>3. CASE ~Overflows(old, new)
      <3>1. 0 \in 0 .. Len(old)
        OBVIOUS
      <3>2. QED
        BY <2>3, <3>1 DEF Extended
    <2>4. QED
      BY <2>1, <2>2, <2>3
  <1>2. PICK a \in Seq(Reading) :
          /\ Len(a) = Len(old) - d
          /\ \A i \in 1 .. Len(old) - d : a[i] = old[i + d]
          /\ Extended(old, new) = a \o new
    <2>1. CASE d = 0
      BY <1>1, <2>1
    <2>2. CASE d # 0
      <3>1. d + 1 \in 1 .. Len(old) + 1 /\ Len(old) \in 0 .. Len(old) /\ d + 1 <= Len(old) + 1
        BY <2>2
      <3>2. /\ SubSeq(old, d + 1, Len(old)) \in Seq(Reading)
            /\ Len(SubSeq(old, d + 1, Len(old))) = Len(old) - (d + 1) + 1
            /\ \A i \in 1 .. Len(old) - (d + 1) + 1 :
                 SubSeq(old, d + 1, Len(old))[i] = old[(d + 1) + i - 1]
        BY <3>1, SubSeqParts
      <3>3. /\ Len(old) - (d + 1) + 1 = Len(old) - d
            /\ \A i \in 1 .. Len(old) - d : (d + 1) + i - 1 = i + d
        BY <2>2
      <3>4. QED
        BY <1>1, <2>2, <3>2, <3>3
    <2>3. QED
      BY <2>1, <2>2
  <1>3. /\ Len(a \o new) = Len(a) + Len(new)
        /\ \A i \in 1 .. Len(a) : (a \o new)[i] = a[i]
        /\ \A i \in 1 .. Len(new) : (a \o new)[Len(a) + i] = new[i]
    OBVIOUS
  <1>4. QED
    BY <1>2, <1>3

LEMMA ExtendedFrom ==
  ASSUME NEW old \in Seq(Reading), NEW new \in Seq(Reading),
         Overflows(old, new) => Len(old) >= Drain,
         NEW i \in 1 .. Len(Extended(old, new))
  PROVE  \/ \E j \in 1 .. Len(old) : Extended(old, new)[i] = old[j]
         \/ \E j \in 1 .. Len(new) : Extended(old, new)[i] = new[j]
  <1> DEFINE x == Extended(old, new)
             L == Len(old)
             M == Len(new)
  <1>1. PICK d \in 0 .. L :
           /\ Len(x) = L - d + M
           /\ \A k \in 1 .. L - d : x[k] = old[k + d]
           /\ \A k \in 1 .. M : x[L - d + k] = new[k]
    BY ExtendedParts
  <1>2. L \in Nat /\ M \in Nat /\ i \in 1 .. Len(x)
    OBVIOUS
  <1> HIDE DEF x, L, M
  <1>3. CASE i <= L - d
    <2>1. i \in 1 .. L - d /\ i + d \in 1 .. L
      BY <1>2, <1>3
    <2>2. QED
      BY <1>1, <2>1 DEF x, L
  <1>4. CASE ~(i <= L - d)
    <2>1. i - (L - d) \in 1 .. M /\ L - d + (i - (L - d)) = i
      BY <1>1, <1>2, <1>4
    <2>2. QED
      BY <1>1, <2>1 DEF x, M
  <1>5. QED
    BY <1>3, <1>4

LEMMA ExtendedOrder ==
  ASSUME NEW old \in Seq(Reading), NEW new \in Seq(Reading),
         Overflows(old, new) => Len(old) >= Drain,
         NEW k, NEW rest, Orderly(old, k, rest), Orderly(new, k, rest),
         Before(old, new)
  PROVE  Orderly(Extended(old, new), k, rest)
  <1> DEFINE x == Extended(old, new)
             L == Len(old)
             M == Len(new)
  <1>1. PICK d \in 0 .. L :
           /\ Len(x) = L - d + M
           /\ \A i \in 1 .. L - d : x[i] = old[i + d]
           /\ \A i \in 1 .. M : x[L - d + i] = new[i]
    BY ExtendedParts
  <1>2. L \in Nat /\ M \in Nat
    OBVIOUS
  <1> HIDE DEF x, L, M
  <1> DEFINE O == L - d
  <1>3. O \in Nat /\ \A i \in 1 .. O : i + d \in 1 .. L
    BY <1>2
  <1>4. /\ \A i \in 1 .. O : x[i] = old[i + d]
        /\ \A i \in O + 1 .. O + M : i - O \in 1 .. M /\ x[i] = new[i - O]
    <2>1. \A i \in O + 1 .. O + M : i - O \in 1 .. M /\ O + (i - O) = i
      BY <1>2, <1>3
    <2>2. QED
      BY <1>1, <2>1
  <1>5. Len(x) = O + M
    BY <1>1
  <1> HIDE DEF O
  <1>6. \A i \in 1 .. Len(x) : i \in 1 .. O \/ i \in O + 1 .. O + M
    BY <1>2, <1>3, <1>5
  <1>7. ASSUME NEW i \in 1 .. Len(x), NEW j \in 1 .. Len(x), i < j
        PROVE  x[i].n < x[j].n
    <2>1. CASE j \in 1 .. O
      <3>1. i \in 1 .. O /\ i + d < j + d
        BY <1>2, <1>3, <1>5, <1>7, <2>1
      <3>2. QED
        BY <1>3, <1>4, <2>1, <3>1 DEF Orderly, Increasing, L
    <2>2. CASE i \in 1 .. O /\ j \in O + 1 .. O + M
      BY <1>3, <1>4, <2>2 DEF Before, L, M
    <2>3. CASE i \in O + 1 .. O + M
      <3>1. j \in O + 1 .. O + M /\ i - O < j - O
        BY <1>2, <1>3, <1>5, <1>7, <2>3
      <3>2. QED
        BY <1>4, <2>3, <3>1 DEF Orderly, Increasing, M
    <2>4. QED
      BY <1>6, <2>1, <2>2, <2>3
  <1>8. ASSUME NEW i \in 1 .. Len(x)
        PROVE  x[i].n <= k /\ \A j \in 1 .. Len(rest) : x[i].n < rest[j].n
    <2>1. CASE i \in 1 .. O
      BY <1>3, <1>4, <2>1 DEF Orderly, NoneAfter, Before, L
    <2>2. CASE i \in O + 1 .. O + M
      BY <1>4, <2>2 DEF Orderly, NoneAfter, Before, M
    <2>3. QED
      BY <1>6, <2>1, <2>2
  <1>9. QED
    BY <1>7, <1>8 DEF Orderly, Increasing, NoneAfter, Before, x

LEMMA OrderInit == Init => OrderInv
  <1> SUFFICES ASSUME Init
               PROVE  OrderInv
    OBVIOUS
  <1>1. DOMAIN nodes = {} /\ readings = <<>> /\ Len(<<>>) = 0
    BY DEF Init
  <1>2. QED
    BY <1>1 DEF OrderInv, Increasing, NoneAfter

LEMMA ReadingOrder ==
  ASSUME MinderInv, NEW ip \in Ip, ForwardReading(ip)
  PROVE  OrderInv'
  <1> DEFINE r == [ip |-> ip, n |-> arrived + 1]
             L == Len(readings)
  <1>1. /\ readings \in Seq(Reading) /\ arrived \in Nat
        /\ readings' = Append(readings, r) /\ arrived' = arrived + 1
        /\ UNCHANGED nodes
    BY MinderAssumption DEF MinderInv, TypeOK, ForwardReading, nodeVars
  <1>2. /\ L \in Nat /\ Len(readings') = L + 1
        /\ \A i \in 1 .. L : readings'[i] = readings[i] /\ readings[i].n \in Nat
        /\ readings'[L + 1].n = arrived + 1
    <2>1. \A i \in 1 .. L : readings[i] \in Reading
      BY <1>1
    <2>2. QED
      BY <1>1, <2>1 DEF Reading
  <1> HIDE DEF L, r
  <1>3. \A i \in 1 .. L + 1 : i = L + 1 \/ i \in 1 .. L
    BY <1>2
  <1>4. Increasing(readings) /\ NoneAfter(readings, arrived)
    BY DEF MinderInv, OrderInv
  <1>5. Increasing(readings')
    <2>1. ASSUME NEW i \in 1 .. L + 1, NEW j \in 1 .. L + 1, i < j
          PROVE  readings'[i].n < readings'[j].n
      <3>1. i \in 1 .. L
        BY <1>2, <2>1
      <3>2. CASE j = L + 1
        <4>1. readings[i].n <= arrived
          BY <1>4, <3>1 DEF NoneAfter, L
        <4>2. QED
          BY <1>1, <1>2, <3>1, <3>2, <4>1
      <3>3. CASE j \in 1 .. L
        BY <1>2, <1>4, <2>1, <3>1, <3>3 DEF Increasing, L
      <3>4. QED
        BY <1>3, <3>2, <3>3
    <2>2. QED
      BY <1>2, <2>1 DEF Increasing
  <1>6. NoneAfter(readings', arrived')
    <2>1. \A i \in 1 .. L : readings[i].n <= arrived
      BY <1>4 DEF NoneAfter, L
    <2>2. QED
      BY <1>1, <1>2, <1>3, <2>1 DEF NoneAfter
  <1>7. ASSUME NEW a \in DOMAIN nodes
        PROVE  Orderly(nodes[a].history, arrived', readings')
    <2> DEFINE h == nodes[a].history
    <2>1. h \in Seq(Reading)
      BY DEF MinderInv, TypeOK
    <2>2. \A i \in 1 .. Len(h) : h[i].n \in Nat
      <3>1. \A i \in 1 .. Len(h) : h[i] \in Reading
        BY <2>1
      <3>2. QED
        BY <3>1 DEF Reading
    <2>3. Increasing(h) /\ NoneAfter(h, arrived) /\ Before(h, readings)
      BY DEF MinderInv, OrderInv, Orderly
    <2> HIDE DEF h
    <2>4. \A i \in 1 .. Len(h) : h[i].n <= arrived
      BY <2>3 DEF NoneAfter
    <2>5. NoneAfter(h, arrived')
      BY <1>1, <2>2, <2>4 DEF NoneAfter
    <2>6. Before(h, readings')
      <3>1. ASSUME NEW i \in 1 .. Len(h), NEW j \in 1 .. L + 1
            PROVE  h[i].n < readings'[j].n
        <4>1. CASE j = L + 1
          BY <1>1, <1>2, <2>2, <2>4, <4>1
        <4>2. CASE j \in 1 .. L
          BY <1>2, <2>3, <4>2 DEF Before, L
        <4>3. QED
          BY <1>3, <4>1, <4>2
      <3>2. QED
        BY <1>2, <3>1 DEF Before
    <2>7. QED
      BY <2>3, <2>5, <2>6 DEF Orderly, h
  <1>8. QED
    BY <1>1, <1>5, <1>6, <1>7 DEF OrderInv

\* What remains in the queue, and what the batch has for an address.
LEMMA BatchOrder ==
  ASSUME MinderInv
  PROVE  /\ Increasing(Batch) /\ Increasing(Remaining) /\ Before(Batch, Remaining)
         /\ NoneAfter(Batch, arrived) /\ NoneAfter(Remaining, arrived)
         /\ \A h : Before(h, readings) => Before(h, Batch) /\ Before(h, Remaining)
  <1> DEFINE b == BatchSize
             L == Len(readings)
  <1>1. /\ b \in 0 .. L /\ L \in Nat
        /\ Len(Batch) = b /\ Len(Remaining) = L - b
        /\ \A i \in 1 .. b : Batch[i] = readings[i]
        /\ \A i \in 1 .. L - b : Remaining[i] = readings[b + i]
    BY BatchParts DEF MinderInv, TypeOK
  <1> HIDE DEF b, L
  <1>2. /\ \A i \in 1 .. b : i \in 1 .. L
        /\ \A i \in 1 .. L - b : b + i \in 1 .. L
        /\ \A i \in 1 .. b, j \in 1 .. L - b : i < b + j
        /\ \A i, j \in 1 .. L - b : i < j => b + i < b + j
    BY <1>1
  <1>3. /\ \A i, j \in 1 .. L : i < j => readings[i].n < readings[j].n
        /\ \A i \in 1 .. L : readings[i].n <= arrived
    BY DEF MinderInv, OrderInv, Increasing, NoneAfter, L
  <1>4. Increasing(Batch) /\ NoneAfter(Batch, arrived)
    BY <1>1, <1>2, <1>3 DEF Increasing, NoneAfter
  <1>5. Increasing(Remaining) /\ NoneAfter(Remaining, arrived)
    <2>1. ASSUME NEW i \in 1 .. L - b, NEW j \in 1 .. L - b, i < j
          PROVE  Remaining[i].n < Remaining[j].n
      BY <1>1, <1>2, <1>3, <2>1
    <2>2. ASSUME NEW i \in 1 .. L - b
          PROVE  Remaining[i].n <= arrived
      BY <1>1, <1>2, <1>3
    <2>3. QED
      BY <1>1, <2>1, <2>2 DEF Increasing, NoneAfter
  <1>6. Before(Batch, Remaining)
    BY <1>1, <1>2, <1>3 DEF Before
  <1>7. ASSUME NEW h, Before(h, readings)
        PROVE  Before(h, Batch) /\ Before(h, Remaining)
    BY <1>1, <1>2, <1>7 DEF Before, L
  <1>8. QED
    BY <1>4, <1>5, <1>6, <1>7

LEMMA TickOrder ==
  ASSUME MinderInv, HandleTick
  PROVE  OrderInv'
  <1>1. readings' = Remaining /\ arrived' = arrived /\ Increasing(Remaining) /\ NoneAfter(Remaining, arrived)
    BY BatchOrder DEF HandleTick
  <1>2. Batch \in Seq(Reading) /\ Increasing(Batch)
    BY BatchParts, BatchOrder DEF MinderInv, TypeOK
  <1>3. ASSUME NEW ip \in DOMAIN nodes
        PROVE  /\ nodes[ip].history \in Seq(Reading)
               /\ Orderly(nodes[ip].history, arrived, Remaining)
               /\ Before(nodes[ip].history, Batch)
    <2>1. Orderly(nodes[ip].history, arrived, readings)
      BY DEF MinderInv, OrderInv
    <2>2. QED
      BY <2>1, BatchOrder DEF Orderly, MinderInv, TypeOK
  <1>4. CASE UNCHANGED nodes
    BY <1>1, <1>3, <1>4 DEF OrderInv
  <1>5. CASE /\ \A ip \in DOMAIN nodes :
                  Overflows(nodes[ip].history, OfIp(Batch, ip)) =>
                    ~(Len(nodes[ip].history) < Drain)
             /\ nodes' = [ip \in DOMAIN nodes |->
                   [nodes[ip] EXCEPT !.history = Extended(@, OfIp(Batch, ip))]]
    <2>1. ASSUME NEW ip \in DOMAIN nodes
          PROVE  Orderly(nodes'[ip].history, arrived, Remaining)
      <3> DEFINE old == nodes[ip].history
                 new == OfIp(Batch, ip)
      <3>1. nodes'[ip].history = Extended(old, new)
        <4>1. nodes[ip] \in Entry
          BY DEF MinderInv, TypeOK, Entry
        <4>2. QED
          BY <1>5, <4>1 DEF Entry
      <3>2. new \in Seq(Reading)
        BY <1>2, OfIpType
      <3>3. Orderly(new, arrived, Remaining)
        BY <1>2, <3>2, OfIpOrder, BatchOrder DEF Orderly
      <3>4. Before(old, new)
        BY <1>2, <1>3, OfIpOrder
      <3>5. Overflows(old, new) => Len(old) >= Drain
        BY <1>3, <1>5, MinderAssumption
      <3>6. old \in Seq(Reading) /\ Orderly(old, arrived, Remaining)
        BY <1>3
      <3> HIDE DEF old, new
      <3>7. Orderly(Extended(old, new), arrived, Remaining)
        BY <3>2, <3>3, <3>4, <3>5, <3>6, ExtendedOrder
      <3>8. QED
        BY <3>1, <3>7
    <2>2. DOMAIN nodes' = DOMAIN nodes
      BY <1>5
    <2>3. QED
      BY <1>1, <2>1, <2>2 DEF OrderInv
  <1>6. QED
    BY <1>4, <1>5 DEF HandleTick, Batch

\* The history goes to another address.
LEMMA RegistrationOrder ==
  ASSUME MinderInv, HandleRegistration
  PROVE  OrderInv'
  <1> DEFINE reg == Head(events)
             kept == Kept(reg.eui)
  <1>1. /\ nodes' = [ip \in kept \cup {reg.ip} |->
              IF ip # reg.ip THEN nodes[ip]
              ELSE [eui |-> IF ip \in kept THEN nodes[ip].eui ELSE reg.eui,
                    history |-> History(reg.eui)]]
        /\ UNCHANGED <<readings, arrived>>
    BY DEF HandleRegistration
  <1> HIDE DEF reg
  <1>2. kept \subseteq DOMAIN nodes
    BY DEF Kept
  <1>3. \A ip \in DOMAIN nodes : Orderly(nodes[ip].history, arrived, readings)
    BY DEF MinderInv, OrderInv
  <1>4. Orderly(History(reg.eui), arrived, readings)
    <2>1. CASE reg.eui \in DOMAIN node_addrs /\ node_addrs[reg.eui] \in DOMAIN nodes
      BY <1>3, <2>1 DEF History
    <2>2. CASE ~(reg.eui \in DOMAIN node_addrs /\ node_addrs[reg.eui] \in DOMAIN nodes)
      <3>1. History(reg.eui) = <<>> /\ Len(<<>>) = 0
        BY <2>2 DEF History
      <3>2. QED
        BY <3>1 DEF Orderly, Increasing, NoneAfter, Before
    <2>3. QED
      BY <2>1, <2>2
  <1> HIDE DEF kept
  <1>5. ASSUME NEW ip \in kept \cup {reg.ip}
        PROVE  Orderly(nodes'[ip].history, arrived, readings)
    <2>1. CASE ip # reg.ip
      BY <1>1, <1>2, <1>3, <2>1
    <2>2. CASE ip = reg.ip
      <3>1. nodes'[ip].history = History(reg.eui)
        BY <1>1, <2>2
      <3>2. QED
        BY <1>4, <3>1
    <2>3. QED
      BY <2>1, <2>2
  <1>6. DOMAIN nodes' = kept \cup {reg.ip} /\ Increasing(readings) /\ NoneAfter(readings, arrived)
    BY <1>1 DEF MinderInv, OrderInv
  <1>7. QED
    BY <1>1, <1>5, <1>6 DEF OrderInv

LEMMA OrderStep ==
  ASSUME MinderInv, [Next]_vars
  PROVE  OrderInv'
  <1>1. ASSUME NEW ip \in Ip, ForwardReading(ip)
        PROVE  OrderInv'
    BY <1>1, ReadingOrder
  <1>2. CASE UNCHANGED <<readings, arrived, nodes>>
    BY <1>2 DEF MinderInv, OrderInv
  <1>3. \/ HandleTick \/ HandleRegistration
        \/ \E ip \in Ip : ForwardReading(ip)
        \/ UNCHANGED <<readings, arrived, nodes>>
    BY DEF Next, vars, Forward, ForwardKey, ForwardRegistration, ForwardTermination,
           HandleTermination, HandleKey, nodeVars
  <1>4. QED
    BY <1>1, <1>2, <1>3, TickOrder, RegistrationOrder

LEMMA AlwaysOrdered == Spec => []MinderInv
  <1>1. Init => OrderInv
    BY OrderInit
  <1>2. TypeOK /\ OrderInv /\ [Next]_vars => OrderInv'
    BY OrderStep DEF MinderInv
  <1>3. TypeOK /\ OrderInv <=> MinderInv
    BY DEF MinderInv
  <1>4. QED
    BY <1>1, <1>2, <1>3, TypeCorrect, PTL DEF Spec

(***************************************************************************)
(* What a step makes of the entries.                                       *)
(***************************************************************************)

\* A tick adds to an entry nothing but what the batch has of its address.
LEMMA TickEntries ==
  ASSUME MinderInv, HandleTick
  PROVE  /\ Batch \in Seq(Reading)
         /\ DOMAIN nodes' = DOMAIN nodes
         /\ \A ip \in DOMAIN nodes :
              /\ nodes[ip].history \in Seq(Reading)
              /\ Before(nodes[ip].history, Batch)
              /\ \A i \in 1 .. Len(nodes'[ip].history) :
                   \/ \E j \in 1 .. Len(nodes[ip].history) :
                        nodes'[ip].history[i] = nodes[ip].history[j]
                   \/ /\ nodes'[ip].history[i].ip = ip
                      /\ \E j \in 1 .. Len(Batch) : nodes'[ip].history[i] = Batch[j]
  <1>1. Batch \in Seq(Reading) /\ Increasing(Batch)
    BY BatchParts, BatchOrder DEF MinderInv, TypeOK
  <1>2. ASSUME NEW ip \in DOMAIN nodes
        PROVE  nodes[ip].history \in Seq(Reading) /\ Before(nodes[ip].history, Batch)
    <2>1. Before(nodes[ip].history, readings)
      BY DEF MinderInv, OrderInv, Orderly
    <2>2. QED
      BY <2>1, BatchOrder DEF MinderInv, TypeOK
  <1>3. CASE UNCHANGED nodes
    BY <1>1, <1>2, <1>3
  <1>4. CASE /\ \A ip \in DOMAIN nodes :
                  Overflows(nodes[ip].history, OfIp(Batch, ip)) =>
                    ~(Len(nodes[ip].history) < Drain)
             /\ nodes' = [ip \in DOMAIN nodes |->
                   [nodes[ip] EXCEPT !.history = Extended(@, OfIp(Batch, ip))]]
    <2>1. DOMAIN nodes' = DOMAIN nodes
      BY <1>4
    <2>2. ASSUME NEW ip \in DOMAIN nodes, NEW i \in 1 .. Len(nodes'[ip].history)
          PROVE  \/ \E j \in 1 .. Len(nodes[ip].history) :
                      nodes'[ip].history[i] = nodes[ip].history[j]
                 \/ /\ nodes'[ip].history[i].ip = ip
                    /\ \E j \in 1 .. Len(Batch) : nodes'[ip].history[i] = Batch[j]
      <3> DEFINE old == nodes[ip].history
                 new == OfIp(Batch, ip)
      <3>1. nodes'[ip].history = Extended(old, new)
        <4>1. nodes[ip] \in Entry
          BY DEF MinderInv, TypeOK, Entry
        <4>2. QED
          BY <1>4, <4>1 DEF Entry
      <3>2. new \in Seq(Reading) /\ \A j \in 1 .. Len(new) : new[j].ip = ip
        BY <1>1, OfIpType
      <3>3. \A j \in 1 .. Len(new) : \E k \in 1 .. Len(Batch) : new[j] = Batch[k]
        <4>1. PICK e : Places(e, new, Batch, Len(Batch))
          BY <1>1, SelectPlaces DEF OfIp
        <4>2. QED
          BY <4>1 DEF Places
      <3>4. Overflows(old, new) => Len(old) >= Drain
        BY <1>2, <1>4, MinderAssumption
      <3>5. old \in Seq(Reading)
        BY <1>2
      <3> HIDE DEF old, new
      <3>6. \/ \E j \in 1 .. Len(old) : Extended(old, new)[i] = old[j]
            \/ \E j \in 1 .. Len(new) : Extended(old, new)[i] = new[j]
        BY <3>1, <3>2, <3>4, <3>5, ExtendedFrom
      <3>7. QED
        BY <3>1, <3>2, <3>3, <3>6 DEF old
    <2>3. QED
      BY <1>1, <1>2, <2>1, <2>2
  <1>5. QED
    BY <1>3, <1>4 DEF HandleTick, Batch

\* A registration moves a history from an address it removes, or starts one.
LEMMA RegistrationEntries ==
  ASSUME TypeOK, HandleRegistration
  PROVE  LET reg == Head(events)
         IN  \A ip \in DOMAIN nodes' :
               \/ ip # reg.ip /\ ip \in DOMAIN nodes /\ nodes'[ip].history = nodes[ip].history
               \/ ip = reg.ip /\ nodes'[ip].history = <<>>
               \/ /\ ip = reg.ip /\ reg.eui \in DOMAIN node_addrs
                  /\ node_addrs[reg.eui] \in DOMAIN nodes
                  /\ node_addrs[reg.eui] \in DOMAIN nodes' => node_addrs[reg.eui] = ip
                  /\ nodes'[ip].history = nodes[node_addrs[reg.eui]].history
  <1> DEFINE reg == Head(events)
             kept == Kept(reg.eui)
  <1>1. nodes' = [ip \in kept \cup {reg.ip} |->
              IF ip # reg.ip THEN nodes[ip]
              ELSE [eui |-> IF ip \in kept THEN nodes[ip].eui ELSE reg.eui,
                    history |-> History(reg.eui)]]
    BY DEF HandleRegistration
  <1>2. kept \subseteq DOMAIN nodes /\ (History(reg.eui) # <<>> => node_addrs[reg.eui] \notin kept)
    BY DEF Kept
  <1>3. \/ History(reg.eui) = <<>>
        \/ /\ reg.eui \in DOMAIN node_addrs /\ node_addrs[reg.eui] \in DOMAIN nodes
           /\ History(reg.eui) = nodes[node_addrs[reg.eui]].history
    BY DEF History
  <1> HIDE DEF reg, kept
  <1>4. ASSUME NEW ip \in DOMAIN nodes'
        PROVE  \/ ip # reg.ip /\ ip \in DOMAIN nodes /\ nodes'[ip].history = nodes[ip].history
               \/ ip = reg.ip /\ nodes'[ip].history = <<>>
               \/ /\ ip = reg.ip /\ reg.eui \in DOMAIN node_addrs
                  /\ node_addrs[reg.eui] \in DOMAIN nodes
                  /\ node_addrs[reg.eui] \in DOMAIN nodes' => node_addrs[reg.eui] = ip
                  /\ nodes'[ip].history = nodes[node_addrs[reg.eui]].history
    <2>1. ip \in kept \cup {reg.ip} /\ DOMAIN nodes' = kept \cup {reg.ip}
      BY <1>1
    <2>2. CASE ip # reg.ip
      BY <1>1, <1>2, <2>1, <2>2
    <2>3. CASE ip = reg.ip
      <3>1. nodes'[ip].history = History(reg.eui)
        BY <1>1, <2>1, <2>3
      <3>2. CASE History(reg.eui) = <<>>
        BY <2>3, <3>1, <3>2
      <3>3. CASE History(reg.eui) # <<>>
        BY <1>2, <1>3, <2>1, <2>3, <3>1, <3>3
      <3>4. QED
        BY <3>2, <3>3
    <2>4. QED
      BY <2>2, <2>3
  <1>5. QED
    BY <1>4 DEF reg

LEMMA OtherEntries ==
  ASSUME [Next]_vars
  PROVE  HandleTick \/ HandleRegistration \/ UNCHANGED nodes
  BY DEF Next, vars, Forward, ForwardKey, ForwardRegistration, ForwardTermination,
         ForwardReading, HandleTermination, HandleKey, nodeVars

(***************************************************************************)
(* Whose readings they are, and where they are shown.                      *)
(***************************************************************************)

AllOf(q, e) == \A i \in 1 .. Len(q) : OwnerOf[q[i].ip] = e

HistoriesOwned == \A ip \in DOMAIN nodes : AllOf(nodes[ip].history, OwnerOf[ip])

LEMMA OwnedStep ==
  ASSUME MinderInv, MapsInv, HistoriesOwned, [Next]_vars
  PROVE  HistoriesOwned'
  <1>1. CASE HandleTick
    <2>1. SUFFICES ASSUME NEW ip \in DOMAIN nodes, NEW i \in 1 .. Len(nodes'[ip].history)
                   PROVE  OwnerOf[nodes'[ip].history[i].ip] = OwnerOf[ip]
      BY <1>1, TickEntries DEF HistoriesOwned, AllOf
    <2>2. CASE nodes'[ip].history[i].ip = ip
      BY <2>2
    <2>3. CASE \E j \in 1 .. Len(nodes[ip].history) :
                 nodes'[ip].history[i] = nodes[ip].history[j]
      BY <2>3 DEF HistoriesOwned, AllOf
    <2>4. QED
      BY <1>1, <2>2, <2>3, TickEntries
  <1>2. CASE HandleRegistration
    <2> DEFINE reg == Head(events)
    <2>1. reg.eui = OwnerOf[reg.ip]
      BY <1>2, Taken DEF MapsInv, HandleRegistration
    <2> HIDE DEF reg
    <2>2. ASSUME reg.eui \in DOMAIN node_addrs, node_addrs[reg.eui] \in DOMAIN nodes
          PROVE  OwnerOf[node_addrs[reg.eui]] = reg.eui
      <3>1. nodes[node_addrs[reg.eui]].eui = reg.eui
        BY <2>2 DEF MapsInv, AddrsResolve
      <3>2. nodes[node_addrs[reg.eui]].eui = OwnerOf[node_addrs[reg.eui]]
        BY <2>2 DEF MapsInv, EntriesOwned
      <3>3. QED
        BY <3>1, <3>2
    <2>3. ASSUME NEW ip \in DOMAIN nodes'
          PROVE  AllOf(nodes'[ip].history, OwnerOf[ip])
      <3>1. CASE ip \in DOMAIN nodes /\ nodes'[ip].history = nodes[ip].history
        BY <3>1 DEF HistoriesOwned
      <3>2. CASE nodes'[ip].history = <<>>
        <4>1. Len(<<>>) = 0
          OBVIOUS
        <4>2. QED
          BY <3>2, <4>1 DEF AllOf
      <3>3. CASE /\ ip = reg.ip /\ reg.eui \in DOMAIN node_addrs
                 /\ node_addrs[reg.eui] \in DOMAIN nodes
                 /\ nodes'[ip].history = nodes[node_addrs[reg.eui]].history
        BY <2>1, <2>2, <3>3 DEF HistoriesOwned
      <3>4. QED
        BY <1>2, <3>1, <3>2, <3>3, RegistrationEntries DEF MinderInv, reg
    <2>4. QED
      BY <2>3 DEF HistoriesOwned
  <1>3. CASE UNCHANGED nodes
    BY <1>3 DEF HistoriesOwned
  <1>4. QED
    BY <1>1, <1>2, <1>3, OtherEntries

LEMMA ShownOnceStep ==
  ASSUME MinderInv, MinderInv', ReadingsShownOnce, [Next]_vars
  PROVE  ReadingsShownOnce'
  <1>1. ASSUME NEW ip \in DOMAIN nodes
        PROVE  /\ nodes[ip].history \in Seq(Reading)
               /\ DOMAIN nodes[ip].history = 1 .. Len(nodes[ip].history)
               /\ \A i \in 1 .. Len(nodes[ip].history) : nodes[ip].history[i].n \in Nat
    <2>1. nodes[ip].history \in Seq(Reading)
      BY DEF MinderInv, TypeOK
    <2>2. \A i \in 1 .. Len(nodes[ip].history) : nodes[ip].history[i] \in Reading
      BY <2>1
    <2>3. QED
      BY <2>1, <2>2 DEF Reading
  <1>2. ASSUME NEW ip \in DOMAIN nodes'
        PROVE  /\ DOMAIN nodes'[ip].history = 1 .. Len(nodes'[ip].history)
               /\ \A i \in 1 .. Len(nodes'[ip].history) : nodes'[ip].history[i].n \in Nat
    <2>1. nodes'[ip].history \in Seq(Reading)
      BY DEF MinderInv, TypeOK
    <2>2. \A i \in 1 .. Len(nodes'[ip].history) : nodes'[ip].history[i] \in Reading
      BY <2>1
    <2>3. QED
      BY <2>1, <2>2 DEF Reading
  <1>3. ASSUME NEW ip \in DOMAIN nodes, NEW other \in DOMAIN nodes, ip # other,
               NEW i \in 1 .. Len(nodes[ip].history), NEW j \in 1 .. Len(nodes[other].history)
        PROVE  nodes[ip].history[i] # nodes[other].history[j]
    BY <1>1, <1>3 DEF ReadingsShownOnce
  <1>4. ASSUME NEW ip \in DOMAIN nodes', NEW other \in DOMAIN nodes', ip # other,
               NEW i \in 1 .. Len(nodes'[ip].history), NEW j \in 1 .. Len(nodes'[other].history)
        PROVE  nodes'[ip].history[i] # nodes'[other].history[j]
    <2> DEFINE x == nodes'[ip].history[i]
               y == nodes'[other].history[j]
    <2>1. CASE HandleTick
      <3>1. ip \in DOMAIN nodes /\ other \in DOMAIN nodes
        BY <2>1, TickEntries
      <3>2. /\ \/ \E k \in 1 .. Len(nodes[ip].history) : x = nodes[ip].history[k]
               \/ x.ip = ip /\ \E k \in 1 .. Len(Batch) : x = Batch[k]
            /\ \/ \E k \in 1 .. Len(nodes[other].history) : y = nodes[other].history[k]
               \/ y.ip = other /\ \E k \in 1 .. Len(Batch) : y = Batch[k]
        BY <2>1, <3>1, TickEntries
      <3>3. ASSUME NEW a \in DOMAIN nodes, NEW k \in 1 .. Len(nodes[a].history),
                   NEW l \in 1 .. Len(Batch)
            PROVE  nodes[a].history[k] # Batch[l]
        <4>1. nodes[a].history[k].n < Batch[l].n
          BY <2>1, TickEntries DEF Before
        <4>2. nodes[a].history[k].n \in Nat
          BY <1>1
        <4>3. QED
          BY <4>1, <4>2
      <3> HIDE DEF x, y
      <3>4. x # y
        BY <1>3, <1>4, <3>1, <3>2, <3>3
      <3>5. QED
        BY <3>4 DEF x, y
    <2>2. CASE HandleRegistration
      <3> DEFINE reg == Head(events)
                 a == node_addrs[reg.eui]
                 Stays(n) == n # reg.ip /\ n \in DOMAIN nodes /\ nodes'[n].history = nodes[n].history
                 Comes(n) == /\ n = reg.ip /\ a \in DOMAIN nodes
                             /\ a \in DOMAIN nodes' => a = n
                             /\ nodes'[n].history = nodes[a].history
      <3>1. \A n \in DOMAIN nodes' : Stays(n) \/ Comes(n) \/ nodes'[n].history = <<>>
        BY <2>2, RegistrationEntries DEF MinderInv
      <3>2. nodes'[ip].history # <<>> /\ nodes'[other].history # <<>>
        <4>1. Len(<<>>) = 0
          OBVIOUS
        <4>2. QED
          BY <4>1
      <3> HIDE DEF reg, a
      <3>3. CASE Stays(ip) /\ Stays(other)
        BY <1>3, <1>4, <3>3
      <3>4. CASE Stays(ip) /\ Comes(other)
        <4>1. a # ip
          BY <1>4, <3>4
        <4>2. QED
          BY <1>3, <3>4, <4>1
      <3>5. CASE Comes(ip) /\ Stays(other)
        <4>1. a # other
          BY <1>4, <3>5
        <4>2. QED
          BY <1>3, <3>5, <4>1
      <3>6. CASE Comes(ip) /\ Comes(other)
        BY <1>4, <3>6
      <3>7. QED
        BY <3>1, <3>2, <3>3, <3>4, <3>5, <3>6
    <2>3. CASE UNCHANGED nodes
      BY <1>3, <1>4, <2>3
    <2>4. QED
      BY <2>1, <2>2, <2>3, OtherEntries
  <1>5. ASSUME NEW ip \in DOMAIN nodes',
               NEW i \in 1 .. Len(nodes'[ip].history), NEW j \in 1 .. Len(nodes'[ip].history),
               nodes'[ip].history[i] = nodes'[ip].history[j]
        PROVE  i = j
    <2> DEFINE h == nodes'[ip].history
    <2>1. Increasing(h)
      BY DEF MinderInv, OrderInv, Orderly, Increasing
    <2>2. h[i].n = h[j].n /\ h[i].n \in Nat
      BY <1>2, <1>5
    <2> HIDE DEF h
    <2>3. ~(i < j) /\ ~(j < i)
      BY <2>1, <2>2 DEF Increasing, h
    <2>4. QED
      BY <2>3
  <1>6. QED
    BY <1>2, <1>4, <1>5 DEF ReadingsShownOnce

\* No reading is shown twice, at one address or at two, through any number of
\* changes of address and whatever EUIs the registrations carry.
THEOREM EachReadingShownOnce == Spec => []ReadingsShownOnce
  <1>1. Init => ReadingsShownOnce
    BY DEF Init, ReadingsShownOnce
  <1>2. MinderInv /\ MinderInv' /\ ReadingsShownOnce /\ [Next]_vars => ReadingsShownOnce'
    BY ShownOnceStep
  <1>3. QED
    BY <1>1, <1>2, AlwaysOrdered, PTL DEF Spec

\* An entry's readings are its node's, in the order they arrived and each once,
\* through any number of full windows and changes of address, as long as the
\* nodes' answers carry their EUI.
THEOREM HistoriesAlwaysInOrder == AnswersRead /\ Spec => []HistoriesInOrder
  <1> SUFFICES ASSUME AnswersRead
               PROVE  Spec => []HistoriesInOrder
    OBVIOUS
  <1>1. Init => HistoriesOwned
    BY DEF Init, HistoriesOwned
  <1>2. MinderInv /\ MapsInv /\ HistoriesOwned /\ [Next]_vars => HistoriesOwned'
    BY OwnedStep
  <1>3. MinderInv /\ MapsInv /\ HistoriesOwned => HistoriesInOrder
    <2> SUFFICES ASSUME MinderInv, MapsInv, HistoriesOwned, NEW ip \in DOMAIN nodes
                 PROVE  LET h == nodes[ip].history
                        IN  /\ \A i \in DOMAIN h : OwnerOf[h[i].ip] = nodes[ip].eui
                            /\ \A i, j \in DOMAIN h : i < j => h[i].n < h[j].n
      BY DEF HistoriesInOrder
    <2>1. nodes[ip].history \in Seq(Reading)
      BY DEF MinderInv, TypeOK
    <2>2. DOMAIN nodes[ip].history = 1 .. Len(nodes[ip].history)
      BY <2>1
    <2>3. nodes[ip].eui = OwnerOf[ip]
      BY DEF MapsInv, EntriesOwned
    <2>4. Increasing(nodes[ip].history) /\ AllOf(nodes[ip].history, OwnerOf[ip])
      BY DEF MinderInv, OrderInv, Orderly, HistoriesOwned
    <2>5. QED
      BY <2>2, <2>3, <2>4 DEF Increasing, AllOf
  <1>4. AnswersRead
    OBVIOUS
  <1>5. Spec => []MapsInv
    BY <1>4, AlwaysMapped
  <1>6. QED
    BY <1>1, <1>2, <1>3, <1>5, AlwaysOrdered, PTL DEF Spec

=============================================================================
