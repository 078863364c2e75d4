------------------------ MODULE PlantDatabase_proofs ------------------------
(***************************************************************************)
(* Proofs about the database client, for any number of nodes, addresses,   *)
(* readings, failing statements and restarts.                              *)
(***************************************************************************)
EXTENDS PlantDatabase, Selection_proofs

Message == [type : {"CreateOrModify"}, plant : Plant]
             \cup [type : {"NodeSensorData"}, reading : Reading]

(***************************************************************************)
(* The statements of one reading.                                          *)
(***************************************************************************)

\* Whatever sensors a reading has data of, its soil row comes last, and the other
\* tables get one row each before it.
LEMMA InsertsParts ==
  ASSUME NEW r \in Reading
  PROVE  /\ Inserts(r) \in Seq({"gas", "light", "soil"})
         /\ \A i \in 1 .. Len(Inserts(r)) : Inserts(r)[i] = "soil" <=> i = Len(Inserts(r))
         /\ \A i, j \in 1 .. Len(Inserts(r)) : Inserts(r)[i] = Inserts(r)[j] => i = j
         /\ \A t \in r.has : \E i \in 1 .. Len(Inserts(r)) : Inserts(r)[i] = t
  <1> DEFINE T == {"gas", "light", "soil"}
             H == r.has
             q1 == <<"gas">>
             q2 == <<"gas", "light">>
             q3 == <<"gas", "light", "soil">>
  <1>1. H \in {{"soil"}, {"soil", "light"}, {"soil", "light", "gas"}}
    BY DEF Reading, Sensors
  <1>2. /\ <<>> \in Seq(T) /\ q1 \in Seq(T) /\ q2 \in Seq(T)
        /\ "gas" \in T /\ "light" \in T /\ "soil" \in T
        /\ q1 = Append(<<>>, "gas") /\ q2 = Append(q1, "light") /\ q3 = Append(q2, "soil")
    OBVIOUS
  <1> HIDE DEF T, q1, q2, q3, H
  <1>3. \A q \in Seq(T), m \in T :
          Select(Append(q, m), H) = IF m \in H THEN Append(Select(q, H), m) ELSE Select(q, H)
    BY SelectAppend
  <1>4. Select(q1, H) = IF "gas" \in H THEN <<"gas">> ELSE <<>>
    <2>1. Select(q1, H) = IF "gas" \in H THEN Append(Select(<<>>, H), "gas") ELSE Select(<<>>, H)
      BY <1>2, <1>3
    <2>2. Append(<<>>, "gas") = <<"gas">>
      OBVIOUS
    <2>3. QED
      BY <2>1, <2>2, SelectEmpty
  <1>5. /\ Select(q2, H) = IF "light" \in H THEN Append(Select(q1, H), "light") ELSE Select(q1, H)
        /\ Select(q3, H) = IF "soil" \in H THEN Append(Select(q2, H), "soil") ELSE Select(q2, H)
    BY <1>2, <1>3
  <1>6. Inserts(r) = Select(q3, H)
    BY DEF Inserts, H, q3
  <1>7. CASE H = {"soil"}
    <2>1. Select(q1, H) = <<>>
      BY <1>4, <1>7
    <2>2. Select(q2, H) = <<>>
      BY <1>5, <1>7, <2>1
    <2>3. Inserts(r) = <<"soil">>
      BY <1>5, <1>6, <1>7, <2>2
    <2>4. QED
      BY <1>7, <2>3 DEF H
  <1>8. CASE H = {"soil", "light"}
    <2>1. Select(q1, H) = <<>>
      BY <1>4, <1>8
    <2>2. Select(q2, H) = <<"light">>
      BY <1>5, <1>8, <2>1
    <2>3. Inserts(r) = Append(<<"light">>, "soil")
      BY <1>5, <1>6, <1>8, <2>2
    <2>4. QED
      BY <1>8, <2>3 DEF H
  <1>9. CASE H = {"soil", "light", "gas"}
    <2>1. Select(q1, H) = <<"gas">>
      BY <1>4, <1>9
    <2>2. Select(q2, H) = Append(<<"gas">>, "light")
      BY <1>5, <1>9, <2>1
    <2>3. Inserts(r) = Append(Append(<<"gas">>, "light"), "soil")
      BY <1>5, <1>6, <1>9, <2>2
    <2>4. QED
      BY <1>9, <2>3 DEF H
  <1>10. QED
    BY <1>1, <1>7, <1>8, <1>9

\* The rows of the first statements of a reading.
Stored(r, eui, done) ==
    [i \in 1 .. done |-> [table |-> Inserts(r)[i], eui |-> eui, reading |-> r]]

\* What was in the tables is still there, and behind it the rows of one reading.
LEMMA StoredParts ==
  ASSUME rows \in Seq(Row), NEW r \in Reading, NEW eui \in Eui \cup {NoEui},
         NEW done \in 0 .. Len(Inserts(r)), rows' = rows \o Stored(r, eui, done)
  PROVE  /\ rows' \in Seq(Row)
         /\ Len(rows') = Len(rows) + done
         /\ \A i \in 1 .. Len(rows) : rows'[i] = rows[i]
         /\ \A i \in 1 .. done : rows'[Len(rows) + i] =
              [table |-> Inserts(r)[i], eui |-> eui, reading |-> r]
  <1> DEFINE s == Stored(r, eui, done)
  <1>1. Inserts(r) \in Seq({"gas", "light", "soil"})
    BY InsertsParts
  <1>2. done \in Nat /\ \A i \in 1 .. done : Inserts(r)[i] \in {"gas", "light", "soil"}
    BY <1>1
  <1>3. \A i \in 1 .. done : [table |-> Inserts(r)[i], eui |-> eui, reading |-> r] \in Row
    BY <1>2 DEF Row
  <1>4. /\ s \in Seq(Row) /\ Len(s) = done
        /\ \A i \in 1 .. done : s[i] = [table |-> Inserts(r)[i], eui |-> eui, reading |-> r]
    BY <1>2, <1>3 DEF Stored
  <1> HIDE DEF s
  <1>5. rows' = rows \o s
    BY DEF s
  <1>6. /\ rows \o s \in Seq(Row)
        /\ Len(rows \o s) = Len(rows) + Len(s)
        /\ \A i \in 1 .. Len(rows) : (rows \o s)[i] = rows[i]
        /\ \A i \in 1 .. Len(s) : (rows \o s)[Len(rows) + i] = s[i]
    <2>1. rows \in Seq(Row) /\ s \in Seq(Row)
      BY <1>4
    <2>2. QED
      BY <2>1, ConcatParts
  <1>7. QED
    BY <1>4, <1>5, <1>6

(***************************************************************************)
(* Types: each task has at most one message with the actor.                *)
(***************************************************************************)

OneEach ==
    \A i, j \in 1 .. Len(mailbox) : mailbox[i].type = mailbox[j].type => i = j

TypeInv == TypeOK /\ OneEach

LEMMA TypeInit == Init => TypeInv
  <1> SUFFICES ASSUME Init
               PROVE  TypeInv
    OBVIOUS
  <1>1. /\ statuses \in Seq(Plant) /\ readings \in Seq(Reading) /\ mailbox \in Seq(Message)
        /\ plants \in Seq(Plant) /\ rows \in Seq(Row) /\ Len(mailbox) = 0
    BY DEF Init
  <1>2. faults \in 0 .. MaxFaults /\ arrived \in 0 .. MaxReadings
    BY DatabaseAssumption DEF Init
  <1>3. QED
    BY <1>1, <1>2 DEF TypeInv, TypeOK, OneEach, Message

\* A message of a task that has none there.
LEMMA MailboxMore ==
  ASSUME TypeInv, NEW m \in Message, ~InMailbox(m.type), mailbox' = Append(mailbox, m)
  PROVE  /\ mailbox' \in Seq(Message) /\ OneEach' /\ Len(mailbox') <= 2
         /\ \A i \in 1 .. Len(mailbox') : mailbox'[i] = m \/ \E j \in 1 .. Len(mailbox) : mailbox'[i] = mailbox[j]
  <1> DEFINE L == Len(mailbox)
  <1>1. /\ mailbox \in Seq(Message) /\ L \in Nat /\ L <= 2
        /\ mailbox' \in Seq(Message) /\ Len(mailbox') = L + 1
        /\ \A i \in 1 .. L : mailbox'[i] = mailbox[i]
        /\ mailbox'[L + 1] = m
        /\ DOMAIN mailbox = 1 .. L
    BY DEF TypeInv, TypeOK, Message
  <1>2. \A i \in 1 .. L + 1 : i = L + 1 \/ i \in 1 .. L
    BY <1>1
  <1>3. \A i \in 1 .. L : mailbox[i].type # m.type
    BY <1>1 DEF InMailbox
  <1> HIDE DEF L
  <1>4. OneEach'
    BY <1>1, <1>2, <1>3 DEF TypeInv, OneEach, L
  <1>5. L <= 1
    <2> SUFFICES ASSUME L = 2
                 PROVE  FALSE
      BY <1>1
    <2>1. 1 \in 1 .. L /\ 2 \in 1 .. L /\ 1 # 2
      OBVIOUS
    <2>2. mailbox[1].type # mailbox[2].type
      BY <2>1 DEF TypeInv, OneEach, L
    <2>3. \A x \in Message : x.type \in {"CreateOrModify", "NodeSensorData"}
      BY DEF Message
    <2>4. /\ mailbox[1].type \in {"CreateOrModify", "NodeSensorData"}
          /\ mailbox[2].type \in {"CreateOrModify", "NodeSensorData"}
          /\ m.type \in {"CreateOrModify", "NodeSensorData"}
      BY <1>1, <2>1, <2>3 DEF L
    <2>5. QED
      BY <1>3, <2>1, <2>2, <2>4
  <1>6. QED
    BY <1>1, <1>2, <1>4, <1>5

LEMMA MailboxLess ==
  ASSUME TypeInv, NEW t, NextMessage(t)
  PROVE  /\ Head(mailbox) \in Message /\ Head(mailbox).type = t /\ Head(mailbox) = mailbox[1]
         /\ 1 \in 1 .. Len(mailbox)
         /\ mailbox' \in Seq(Message) /\ OneEach' /\ Len(mailbox') <= 2
         /\ \A i \in 1 .. Len(mailbox') : /\ mailbox'[i].type # t
                                          /\ \E j \in 1 .. Len(mailbox) : mailbox'[i] = mailbox[j]
  <1> DEFINE L == Len(mailbox)
  <1>1. /\ mailbox \in Seq(Message) /\ L \in Nat \ {0} /\ L <= 2
        /\ Head(mailbox) = mailbox[1] /\ Head(mailbox) \in Message /\ Head(mailbox).type = t
        /\ mailbox' \in Seq(Message) /\ Len(mailbox') = L - 1
        /\ \A i \in 1 .. L - 1 : mailbox'[i] = mailbox[i + 1]
    BY DEF TypeInv, TypeOK, Message, NextMessage
  <1>2. 1 \in 1 .. L /\ \A i \in 1 .. L - 1 : i + 1 \in 1 .. L /\ i + 1 # 1
    BY <1>1
  <1>3. \A i, j \in 1 .. L : mailbox[i].type = mailbox[j].type => i = j
    BY DEF TypeInv, OneEach
  <1> HIDE DEF L
  <1>4. OneEach'
    <2>1. ASSUME NEW i \in 1 .. L - 1, NEW j \in 1 .. L - 1, mailbox'[i].type = mailbox'[j].type
          PROVE  i = j
      <3>1. i + 1 = j + 1
        BY <1>1, <1>2, <1>3, <2>1
      <3>2. QED
        BY <1>1, <3>1
    <2>2. QED
      BY <1>1, <2>1 DEF OneEach
  <1>5. QED
    BY <1>1, <1>2, <1>3, <1>4 DEF L

LEMMA UpsertedParts ==
  ASSUME plants \in Seq(Plant), NEW p \in Plant
  PROVE  /\ Upserted(p) \in Seq(Plant)
         /\ \A i \in 1 .. Len(Upserted(p)) :
              Upserted(p)[i] = p \/ \E j \in 1 .. Len(plants) : Upserted(p)[i] = plants[j]
  <1> DEFINE N == Len(plants)
             u == [i \in 1 .. N |-> IF plants[i].eui = p.eui THEN p ELSE plants[i]]
  <1>1. N \in Nat /\ DOMAIN plants = 1 .. N /\ \A i \in 1 .. N : plants[i] \in Plant
    OBVIOUS
  <1>2. u \in Seq(Plant) /\ Len(u) = N /\ \A i \in 1 .. N : u[i] = p \/ u[i] = plants[i]
    BY <1>1
  <1>3. /\ Append(plants, p) \in Seq(Plant)
        /\ Len(Append(plants, p)) = N + 1
        /\ \A i \in 1 .. N + 1 :
             Append(plants, p)[i] = p \/ (i \in 1 .. N /\ Append(plants, p)[i] = plants[i])
    OBVIOUS
  <1>4. CASE \E i \in DOMAIN plants : plants[i].eui = p.eui
    <2>1. Upserted(p) = u
      BY <1>1, <1>4 DEF Upserted
    <2> HIDE DEF u
    <2>2. QED
      BY <1>2, <2>1
  <1>5. CASE ~\E i \in DOMAIN plants : plants[i].eui = p.eui
    <2>1. Upserted(p) = Append(plants, p)
      BY <1>5 DEF Upserted
    <2>2. QED
      BY <1>3, <2>1
  <1>6. QED
    BY <1>4, <1>5

\* The first plant of an address is one of those there.
LEMMA FirstPlant ==
  ASSUME plants \in Seq(Plant), NEW a, PlantsAt(a) # {}
  PROVE  (CHOOSE i \in PlantsAt(a) : \A j \in PlantsAt(a) : i <= j) \in PlantsAt(a)
  <1>1. PlantsAt(a) \subseteq Nat
    <2>1. DOMAIN plants \subseteq Nat
      OBVIOUS
    <2>2. QED
      BY <2>1 DEF PlantsAt
  <1>2. \E i \in PlantsAt(a) : \A j \in PlantsAt(a) : i <= j
    BY <1>1, MinimumExists
  <1>3. QED
    BY <1>2

\* A reading is handled by storing the first of its rows with a plant at its
\* address, or none at all.
LEMMA HandlingParts ==
  ASSUME TypeInv, HandleNodeSensorData
  PROVE  /\ NextMessage("NodeSensorData") /\ Head(mailbox).reading \in Reading
         /\ UNCHANGED <<inputVars, plants>>
         /\ faults' \in 0 .. MaxFaults
         /\ \/ UNCHANGED rows
            \/ \E i \in DOMAIN plants, done \in 0 .. Len(Inserts(Head(mailbox).reading)) :
                 /\ plants[i].addr = Head(mailbox).reading.addr
                 /\ rows' = rows \o Stored(Head(mailbox).reading, plants[i].eui, done)
  <1> DEFINE r == Head(mailbox).reading
             first == CHOOSE i \in PlantsAt(r.addr) : \A j \in PlantsAt(r.addr) : i <= j
  <1>1. NextMessage("NodeSensorData") /\ UNCHANGED <<inputVars, plants>>
    BY DEF HandleNodeSensorData
  <1>2. r \in Reading
    <2>1. Head(mailbox) \in Message /\ Head(mailbox).type = "NodeSensorData"
      BY <1>1, MailboxLess
    <2>2. QED
      BY <2>1 DEF Message
  <1>3. faults \in 0 .. MaxFaults
    BY DEF TypeInv, TypeOK
  <1>4. CASE PlantsAt(r.addr) = {}
    BY <1>1, <1>2, <1>3, <1>4 DEF HandleNodeSensorData
  <1>5. CASE PlantsAt(r.addr) # {}
    <2>1. first \in PlantsAt(r.addr)
      BY <1>5, FirstPlant DEF TypeInv, TypeOK
    <2>2. PICK done \in 0 .. Len(Inserts(r)) :
            /\ IF done < Len(Inserts(r)) THEN Fault ELSE UNCHANGED faults
            /\ rows' = rows \o Stored(r, plants[first].eui, done)
      BY <1>5 DEF HandleNodeSensorData, Stored
    <2> HIDE DEF first
    <2>3. first \in DOMAIN plants /\ plants[first].addr = r.addr
      BY <2>1 DEF PlantsAt
    <2>4. faults' \in 0 .. MaxFaults
      BY <1>3, <2>2, DatabaseAssumption DEF Fault
    <2>5. QED
      BY <1>1, <1>2, <2>2, <2>3, <2>4
  <1>6. QED
    BY <1>4, <1>5

LEMMA HandlingType ==
  ASSUME TypeInv, HandleNodeSensorData
  PROVE  TypeInv'
  <1>1. rows' \in Seq(Row)
    <2>1. CASE UNCHANGED rows
      BY <2>1 DEF TypeInv, TypeOK
    <2>2. ASSUME NEW i \in DOMAIN plants,
                 NEW done \in 0 .. Len(Inserts(Head(mailbox).reading)),
                 rows' = rows \o Stored(Head(mailbox).reading, plants[i].eui, done)
          PROVE  rows' \in Seq(Row)
      <3>1. plants[i].eui \in Eui \cup {NoEui} /\ rows \in Seq(Row)
        <4>1. plants[i] \in Plant /\ rows \in Seq(Row)
          BY DEF TypeInv, TypeOK
        <4>2. QED
          BY <4>1 DEF Plant
      <3>2. Head(mailbox).reading \in Reading
        BY HandlingParts
      <3>3. QED
        BY <2>2, <3>1, <3>2, StoredParts
    <2>3. QED
      BY <2>1, <2>2, HandlingParts
  <1>2. mailbox' \in Seq(Message) /\ OneEach' /\ Len(mailbox') <= 2
    BY HandlingParts, MailboxLess
  <1>3. QED
    BY <1>1, <1>2, HandlingParts DEF TypeInv, TypeOK, Message, inputVars

LEMMA UpsertType ==
  ASSUME TypeInv, HandleCreateOrModify
  PROVE  TypeInv'
  <1>1. NextMessage("CreateOrModify") /\ UNCHANGED <<statuses, readings, arrived, rows>>
    BY DEF HandleCreateOrModify, inputVars
  <1>2. mailbox' \in Seq(Message) /\ OneEach' /\ Len(mailbox') <= 2
    BY <1>1, MailboxLess
  <1>3. Head(mailbox).plant \in Plant
    <2>1. Head(mailbox) \in Message /\ Head(mailbox).type = "CreateOrModify"
      BY <1>1, MailboxLess
    <2>2. QED
      BY <2>1 DEF Message
  <1>4. plants' \in Seq(Plant)
    BY <1>3, UpsertedParts DEF HandleCreateOrModify, TypeInv, TypeOK
  <1>5. faults' \in 0 .. MaxFaults
    BY DatabaseAssumption DEF HandleCreateOrModify, Fault, TypeInv, TypeOK
  <1>6. QED
    BY <1>1, <1>2, <1>4, <1>5 DEF TypeInv, TypeOK, Message

LEMMA RegistryTaskType ==
  ASSUME TypeInv, RegistryTask
  PROVE  TypeInv'
  <1> DEFINE m == CreateOrModify(Head(statuses))
  <1>1. Head(statuses) \in Plant /\ statuses' \in Seq(Plant)
    BY DEF RegistryTask, TypeInv, TypeOK
  <1>2. m \in Message /\ m.type = "CreateOrModify"
    BY <1>1 DEF CreateOrModify, Message
  <1>3. mailbox' = Append(mailbox, m) /\ ~InMailbox("CreateOrModify")
    BY DEF RegistryTask
  <1> HIDE DEF m
  <1>4. mailbox' \in Seq(Message) /\ OneEach' /\ Len(mailbox') <= 2
    BY <1>2, <1>3, MailboxMore
  <1>5. QED
    BY <1>1, <1>4 DEF TypeInv, TypeOK, Message, RegistryTask

LEMMA StreamTaskType ==
  ASSUME TypeInv, StreamTask
  PROVE  TypeInv'
  <1> DEFINE m == NodeSensorData(Head(readings))
  <1>1. Head(readings) \in Reading /\ readings' \in Seq(Reading)
    BY DEF StreamTask, TypeInv, TypeOK
  <1>2. m \in Message /\ m.type = "NodeSensorData"
    BY <1>1 DEF NodeSensorData, Message
  <1>3. mailbox' = Append(mailbox, m) /\ ~InMailbox("NodeSensorData")
    BY DEF StreamTask
  <1> HIDE DEF m
  <1>4. mailbox' \in Seq(Message) /\ OneEach' /\ Len(mailbox') <= 2
    BY <1>2, <1>3, MailboxMore
  <1>5. QED
    BY <1>1, <1>4 DEF TypeInv, TypeOK, Message, StreamTask

LEMMA TypeStep == TypeInv /\ [Next]_vars => TypeInv'
  <1> SUFFICES ASSUME TypeInv, [Next]_vars
               PROVE  TypeInv'
    OBVIOUS
  <1>1. ASSUME NEW a \in Addr, Registered(a)
        PROVE  TypeInv'
    <2>1. PICK e \in {OwnerOf[a]} \cup (IF AnswersRead THEN {} ELSE {NoEui}) :
                 statuses' = Append(statuses, [eui |-> e, addr |-> a])
      BY <1>1 DEF Registered
    <2>2. [eui |-> e, addr |-> a] \in Plant
      BY DatabaseAssumption DEF Plant
    <2>3. statuses' \in Seq(Plant)
      BY <2>1, <2>2 DEF TypeInv, TypeOK
    <2>4. QED
      BY <1>1, <2>3 DEF Registered, TypeInv, TypeOK, OneEach
  <1>2. ASSUME NEW a \in Addr, NEW has \in Sensors, ReadingArrives(a, has)
        PROVE  TypeInv'
    <2>1. arrived + 1 \in 1 .. MaxReadings
      BY <1>2, DatabaseAssumption DEF ReadingArrives, TypeInv, TypeOK
    <2>2. [addr |-> a, n |-> arrived + 1, has |-> has] \in Reading
      BY <2>1 DEF Reading
    <2>3. readings' \in Seq(Reading) /\ arrived' \in 0 .. MaxReadings
      BY <1>2, <2>1, <2>2 DEF ReadingArrives, TypeInv, TypeOK
    <2>4. QED
      BY <1>2, <2>3 DEF ReadingArrives, TypeInv, TypeOK, OneEach
  <1>3. CASE Restart
    <2>1. faults' \in 0 .. MaxFaults
      BY <1>3, DatabaseAssumption DEF Restart, Fault, TypeInv, TypeOK
    <2>2. /\ statuses' \in Seq(Plant) /\ readings' \in Seq(Reading)
          /\ mailbox' \in Seq(Message) /\ Len(mailbox') = 0
      BY <1>3 DEF Restart
    <2>3. QED
      BY <1>3, <2>1, <2>2 DEF Restart, TypeInv, TypeOK, OneEach, Message
  <1>4. CASE UNCHANGED vars
    BY <1>4 DEF vars, inputVars, TypeInv, TypeOK, OneEach
  <1>5. QED
    BY <1>1, <1>2, <1>3, <1>4, RegistryTaskType, StreamTaskType, UpsertType, HandlingType DEF Next

LEMMA AlwaysTyped == Spec => []TypeInv
  BY TypeInit, TypeStep, PTL DEF Spec

\* The client's state has its types, and the actor never more than one message
\* of each task, for any number of nodes, readings and failures.
THEOREM TypeCorrect == Spec => []TypeOK
  <1>1. TypeInv => TypeOK
    BY DEF TypeInv
  <1>2. QED
    BY <1>1, AlwaysTyped, PTL

\* So handling adds, behind the rows there are, some of the reading's rows in
\* their order, with a plant at the reading's address.
LEMMA HandledRows ==
  ASSUME TypeInv, HandleNodeSensorData
  PROVE  LET r == Head(mailbox).reading
             L == Len(rows)
         IN  \E done \in 0 .. Len(Inserts(r)), eui \in Eui \cup {NoEui} :
               /\ DOMAIN rows = 1 .. L /\ DOMAIN rows' = 1 .. L + done
               /\ \A i \in 1 .. L : rows'[i] = rows[i]
               /\ \A i \in L + 1 .. L + done :
                    /\ i - L \in 1 .. done
                    /\ rows'[i].table = Inserts(r)[i - L] /\ rows'[i].eui = eui /\ rows'[i].reading = r
               /\ done # 0 => \E k \in DOMAIN plants : plants[k].addr = r.addr /\ plants[k].eui = eui
  <1> DEFINE r == Head(mailbox).reading
             L == Len(rows)
  <1>1. r \in Reading /\ rows \in Seq(Row)
    BY HandlingParts DEF TypeInv, TypeOK
  <1>2. L \in Nat /\ DOMAIN rows = 1 .. L /\ Len(Inserts(r)) \in Nat
    <2>1. Inserts(r) \in Seq({"gas", "light", "soil"})
      BY <1>1, InsertsParts
    <2>2. QED
      BY <1>1, <2>1
  <1>3. CASE UNCHANGED rows
    <2>1. 0 \in 0 .. Len(Inserts(r)) /\ L + 0 = L /\ \A i \in L + 1 .. L + 0 : FALSE
      BY <1>2
    <2>2. NoEui \in Eui \cup {NoEui}
      OBVIOUS
    <2>3. QED
      BY <1>2, <1>3, <2>1, <2>2
  <1>4. ASSUME NEW k \in DOMAIN plants, NEW done \in 0 .. Len(Inserts(r)),
               plants[k].addr = r.addr, rows' = rows \o Stored(r, plants[k].eui, done)
        PROVE  \E eui \in Eui \cup {NoEui} :
               /\ DOMAIN rows = 1 .. L /\ DOMAIN rows' = 1 .. L + done
               /\ \A i \in 1 .. L : rows'[i] = rows[i]
               /\ \A i \in L + 1 .. L + done :
                    /\ i - L \in 1 .. done
                    /\ rows'[i].table = Inserts(r)[i - L] /\ rows'[i].eui = eui /\ rows'[i].reading = r
               /\ done # 0 => \E l \in DOMAIN plants : plants[l].addr = r.addr /\ plants[l].eui = eui
    <2>1. plants[k].eui \in Eui \cup {NoEui}
      <3>1. plants[k] \in Plant
        BY DEF TypeInv, TypeOK
      <3>2. QED
        BY <3>1 DEF Plant
    <2> DEFINE e == plants[k].eui
    <2>2. /\ rows' \in Seq(Row)
          /\ Len(rows') = L + done
          /\ \A i \in 1 .. L : rows'[i] = rows[i]
          /\ \A i \in 1 .. done : rows'[L + i] = [table |-> Inserts(r)[i], eui |-> e, reading |-> r]
      BY <1>1, <1>4, <2>1, StoredParts
    <2>3. DOMAIN rows' = 1 .. L + done
      BY <2>2
    <2> HIDE DEF L, r
    <2>4. \A i \in L + 1 .. L + done : i - L \in 1 .. done /\ L + (i - L) = i
      BY <1>2
    <2>5. ASSUME NEW i \in L + 1 .. L + done
          PROVE  rows'[i].table = Inserts(r)[i - L] /\ rows'[i].eui = e /\ rows'[i].reading = r
      <3>1. rows'[i] = [table |-> Inserts(r)[i - L], eui |-> e, reading |-> r]
        BY <2>2, <2>4
      <3> HIDE DEF e
      <3>2. QED
        BY <3>1
    <2>6. QED
      BY <1>2, <1>4, <2>1, <2>2, <2>3, <2>4, <2>5
  <1>5. QED
    BY <1>3, <1>4, HandlingParts

(***************************************************************************)
(* Whose readings they are.                                                *)
(***************************************************************************)

\* What an address's plant is, in every place the registration goes through.
PlantsOwned ==
    /\ \A i \in 1 .. Len(statuses) : statuses[i].eui = OwnerOf[statuses[i].addr]
    /\ \A i \in 1 .. Len(mailbox) : mailbox[i].type = "CreateOrModify" =>
         mailbox[i].plant.eui = OwnerOf[mailbox[i].plant.addr]
    /\ \A i \in 1 .. Len(plants) : plants[i].eui = OwnerOf[plants[i].addr]

OwnerInv == PlantsOwned /\ StoredWithItsPlant

LEMMA OwnerInit == Init => OwnerInv
  <1> SUFFICES ASSUME Init
               PROVE  OwnerInv
    OBVIOUS
  <1>1. /\ statuses = <<>> /\ mailbox = <<>> /\ plants = <<>> /\ rows = <<>>
        /\ Len(<<>>) = 0 /\ DOMAIN <<>> = {}
    BY DEF Init
  <1>2. QED
    BY <1>1 DEF OwnerInv, PlantsOwned, StoredWithItsPlant

LEMMA OwnerStep ==
  ASSUME AnswersRead, TypeInv, OwnerInv, [Next]_vars
  PROVE  OwnerInv'
  <1>1. /\ \A i \in 1 .. Len(statuses) : statuses[i].eui = OwnerOf[statuses[i].addr]
        /\ \A i \in 1 .. Len(mailbox) : mailbox[i].type = "CreateOrModify" =>
             mailbox[i].plant.eui = OwnerOf[mailbox[i].plant.addr]
        /\ \A i \in 1 .. Len(plants) : plants[i].eui = OwnerOf[plants[i].addr]
    BY DEF OwnerInv, PlantsOwned
  <1>2. ASSUME NEW a \in Addr, Registered(a)
        PROVE  OwnerInv'
    <2> DEFINE p == [eui |-> OwnerOf[a], addr |-> a]
    <2>1. statuses' = Append(statuses, p) /\ UNCHANGED <<mailbox, plants, rows>>
      BY <1>2 DEF Registered
    <2>2. \A i \in 1 .. Len(statuses') :
            statuses'[i] = p \/ (i \in 1 .. Len(statuses) /\ statuses'[i] = statuses[i])
      BY <2>1 DEF TypeInv, TypeOK
    <2>3. QED
      BY <1>1, <2>1, <2>2 DEF OwnerInv, PlantsOwned, StoredWithItsPlant
  <1>3. CASE RegistryTask
    <2> DEFINE m == CreateOrModify(Head(statuses))
    <2>1. /\ statuses \in Seq(Plant) /\ statuses # <<>> /\ statuses' = Tail(statuses)
          /\ ~InMailbox(m.type) /\ mailbox' = Append(mailbox, m) /\ UNCHANGED <<plants, rows>>
      BY <1>3 DEF RegistryTask, TypeInv, TypeOK, CreateOrModify
    <2>2. /\ Head(statuses) \in Plant /\ Head(statuses) = statuses[1] /\ 1 \in 1 .. Len(statuses)
          /\ \A i \in 1 .. Len(statuses') :
               i + 1 \in 1 .. Len(statuses) /\ statuses'[i] = statuses[i + 1]
      BY <2>1
    <2>3. m \in Message /\ m.plant.eui = OwnerOf[m.plant.addr]
      BY <1>1, <2>2 DEF CreateOrModify, Message
    <2> HIDE DEF m
    <2>4. \A i \in 1 .. Len(mailbox') :
            mailbox'[i] = m \/ \E j \in 1 .. Len(mailbox) : mailbox'[i] = mailbox[j]
      BY <2>1, <2>3, MailboxMore
    <2>5. QED
      BY <1>1, <2>1, <2>2, <2>3, <2>4 DEF OwnerInv, PlantsOwned, StoredWithItsPlant
  <1>4. CASE StreamTask
    <2> DEFINE m == NodeSensorData(Head(readings))
    <2>1. /\ readings \in Seq(Reading) /\ readings # <<>>
          /\ ~InMailbox(m.type) /\ mailbox' = Append(mailbox, m)
          /\ UNCHANGED <<statuses, plants, rows>>
      BY <1>4 DEF StreamTask, TypeInv, TypeOK, NodeSensorData
    <2>2. Head(readings) \in Reading
      BY <2>1
    <2>3. m \in Message /\ m.type = "NodeSensorData"
      BY <2>2 DEF NodeSensorData, Message
    <2> HIDE DEF m
    <2>4. \A i \in 1 .. Len(mailbox') :
            mailbox'[i] = m \/ \E j \in 1 .. Len(mailbox) : mailbox'[i] = mailbox[j]
      BY <2>1, <2>3, MailboxMore
    <2>5. QED
      BY <1>1, <2>1, <2>3, <2>4 DEF OwnerInv, PlantsOwned, StoredWithItsPlant
  <1>5. CASE HandleCreateOrModify
    <2> DEFINE p == Head(mailbox).plant
    <2>1. /\ NextMessage("CreateOrModify") /\ UNCHANGED <<statuses, rows>>
          /\ plants' = Upserted(p) \/ UNCHANGED plants
      BY <1>5 DEF HandleCreateOrModify, inputVars
    <2>2. /\ Head(mailbox) \in Message /\ Head(mailbox).type = "CreateOrModify"
          /\ Head(mailbox) = mailbox[1] /\ 1 \in 1 .. Len(mailbox)
          /\ \A i \in 1 .. Len(mailbox') : \E j \in 1 .. Len(mailbox) : mailbox'[i] = mailbox[j]
      BY <2>1, MailboxLess
    <2>3. p \in Plant /\ p.eui = OwnerOf[p.addr]
      BY <1>1, <2>2 DEF Message
    <2> HIDE DEF p
    <2>4. plants \in Seq(Plant)
      BY DEF TypeInv, TypeOK
    <2>5. \A i \in 1 .. Len(plants') :
            plants'[i] = p \/ \E j \in 1 .. Len(plants) : plants'[i] = plants[j]
      BY <2>1, <2>3, <2>4, UpsertedParts
    <2>6. QED
      BY <1>1, <2>1, <2>2, <2>3, <2>5 DEF OwnerInv, PlantsOwned, StoredWithItsPlant
  <1>6. CASE HandleNodeSensorData
    <2>1. PlantsOwned'
      <3>1. /\ NextMessage("NodeSensorData") /\ UNCHANGED <<statuses, plants>>
        BY <1>6 DEF HandleNodeSensorData, inputVars
      <3>2. \A i \in 1 .. Len(mailbox') : \E j \in 1 .. Len(mailbox) : mailbox'[i] = mailbox[j]
        BY <3>1, MailboxLess
      <3>3. QED
        BY <1>1, <3>1, <3>2 DEF PlantsOwned
    <2>2. StoredWithItsPlant'
      <3> DEFINE r == Head(mailbox).reading
                 L == Len(rows)
      <3>1. PICK done \in 0 .. Len(Inserts(r)), e \in Eui \cup {NoEui} :
              /\ DOMAIN rows = 1 .. L /\ DOMAIN rows' = 1 .. L + done
              /\ \A i \in 1 .. L : rows'[i] = rows[i]
              /\ \A i \in L + 1 .. L + done :
                   /\ i - L \in 1 .. done
                   /\ rows'[i].table = Inserts(r)[i - L] /\ rows'[i].eui = e /\ rows'[i].reading = r
              /\ done # 0 => \E k \in DOMAIN plants : plants[k].addr = r.addr /\ plants[k].eui = e
        BY <1>6, HandledRows
      <3> HIDE DEF r
      <3>2. done # 0 => e = OwnerOf[r.addr]
        <4>1. \A k \in DOMAIN plants : plants[k].eui = OwnerOf[plants[k].addr]
          <5>1. DOMAIN plants = 1 .. Len(plants)
            BY DEF TypeInv, TypeOK
          <5>2. QED
            BY <1>1, <5>1
        <4>2. QED
          BY <3>1, <4>1
      <3>3. L \in Nat /\ done \in Nat
        BY DEF TypeInv, TypeOK
      <3> HIDE DEF L
      <3>4. ASSUME NEW i \in DOMAIN rows'
            PROVE  rows'[i].eui = OwnerOf[rows'[i].reading.addr]
        <4>1. CASE i \in 1 .. L
          BY <3>1, <4>1 DEF OwnerInv, StoredWithItsPlant
        <4>2. CASE i \in L + 1 .. L + done
          <5>1. done # 0
            BY <3>3, <4>2
          <5>2. QED
            BY <3>1, <3>2, <4>2, <5>1
        <4>3. i \in 1 .. L \/ i \in L + 1 .. L + done
          BY <3>1, <3>3
        <4>4. QED
          BY <4>1, <4>2, <4>3
      <3>5. QED
        BY <3>4 DEF StoredWithItsPlant
    <2>3. QED
      BY <2>1, <2>2 DEF OwnerInv
  <1>7. CASE Restart
    <2>1. statuses' = <<>> /\ mailbox' = <<>> /\ Len(<<>>) = 0 /\ UNCHANGED <<plants, rows>>
      BY <1>7 DEF Restart
    <2>2. QED
      BY <1>1, <2>1 DEF OwnerInv, PlantsOwned, StoredWithItsPlant
  <1>8. CASE UNCHANGED <<statuses, mailbox, plants, rows>>
    BY <1>1, <1>8 DEF OwnerInv, PlantsOwned, StoredWithItsPlant
  <1>9. QED
    BY <1>2, <1>3, <1>4, <1>5, <1>6, <1>7, <1>8 DEF Next, vars, inputVars, ReadingArrives

\* Whatever is stored is stored with the node it is from, however often nodes
\* change their address and statements fail, as long as answers carry the EUI.
THEOREM StoredWithTheOwner == AnswersRead /\ Spec => []StoredWithItsPlant
  <1> SUFFICES ASSUME AnswersRead
               PROVE  Spec => []StoredWithItsPlant
    OBVIOUS
  <1>1. TypeInv /\ OwnerInv /\ [Next]_vars => OwnerInv'
    BY OwnerStep
  <1>2. OwnerInv => StoredWithItsPlant
    BY DEF OwnerInv
  <1>3. QED
    BY <1>1, <1>2, OwnerInit, AlwaysTyped, PTL DEF Spec

(***************************************************************************)
(* What a soil row says.                                                   *)
(***************************************************************************)

LEMMA SoilStep ==
  ASSUME TypeInv, SoilRowCompletes, [Next]_vars
  PROVE  SoilRowCompletes'
  <1>1. CASE HandleNodeSensorData
    <2> DEFINE r == Head(mailbox).reading
               T == Inserts(r)
               L == Len(rows)
    <2>1. PICK done \in 0 .. Len(T), e \in Eui \cup {NoEui} :
            /\ DOMAIN rows = 1 .. L /\ DOMAIN rows' = 1 .. L + done
            /\ \A i \in 1 .. L : rows'[i] = rows[i]
            /\ \A i \in L + 1 .. L + done :
                 /\ i - L \in 1 .. done
                 /\ rows'[i].table = T[i - L] /\ rows'[i].eui = e /\ rows'[i].reading = r
      BY <1>1, HandledRows
    <2>2. r \in Reading
      BY <1>1, HandlingParts
    <2>3. /\ T \in Seq({"gas", "light", "soil"})
          /\ \A i \in 1 .. Len(T) : T[i] = "soil" <=> i = Len(T)
          /\ \A t \in r.has : \E i \in 1 .. Len(T) : T[i] = t
      BY <2>2, InsertsParts
    <2>4. L \in Nat /\ Len(T) \in Nat /\ done \in Nat /\ done <= Len(T)
      BY <2>3 DEF TypeInv, TypeOK
    <2> HIDE DEF r, T, L
    <2>5. \A i \in 1 .. L + done : i \in 1 .. L \/ i \in L + 1 .. L + done
      BY <2>4
    <2>6. ASSUME NEW i \in 1 .. L, rows'[i].table = "soil", NEW t \in rows'[i].reading.has
          PROVE  \E j \in 1 .. i : rows'[j].table = t /\ rows'[j].reading = rows'[i].reading
      <3>1. PICK j \in 1 .. i : rows[j].table = t /\ rows[j].reading = rows[i].reading
        BY <2>1, <2>6 DEF SoilRowCompletes
      <3>2. j \in 1 .. L
        BY <2>4
      <3>3. QED
        BY <2>1, <3>1, <3>2
    <2>7. ASSUME NEW i \in L + 1 .. L + done, rows'[i].table = "soil", NEW t \in rows'[i].reading.has
          PROVE  \E j \in 1 .. i : rows'[j].table = t /\ rows'[j].reading = rows'[i].reading
      <3>1. T[i - L] = "soil" /\ i - L \in 1 .. Len(T) /\ rows'[i].reading = r
        BY <2>1, <2>4, <2>7
      <3>2. i - L = Len(T)
        BY <2>3, <3>1
      <3>3. PICK k \in 1 .. Len(T) : T[k] = t
        BY <2>3, <2>7, <3>1
      <3>4. L + k \in L + 1 .. L + done /\ L + k \in 1 .. i /\ (L + k) - L = k
        BY <2>4, <3>2
      <3>5. rows'[L + k].table = T[(L + k) - L] /\ rows'[L + k].reading = r
        BY <2>1, <3>4
      <3>6. rows'[L + k].table = t /\ rows'[L + k].reading = rows'[i].reading
        BY <3>1, <3>3, <3>4, <3>5
      <3>7. QED
        BY <3>4, <3>6
    <2>8. QED
      BY <2>1, <2>5, <2>6, <2>7 DEF SoilRowCompletes
  <1>2. CASE UNCHANGED rows
    BY <1>2 DEF SoilRowCompletes
  <1>3. QED
    BY <1>1, <1>2 DEF Next, vars, Registered, ReadingArrives, RegistryTask, StreamTask,
                      HandleCreateOrModify, Restart

\* A soil row always completes its reading, however many of the statements fail
\* and wherever: the inserts are in no transaction.
THEOREM SoilRowsComplete == Spec => []SoilRowCompletes
  <1>1. Init => SoilRowCompletes
    BY DEF Init, SoilRowCompletes
  <1>2. TypeInv /\ SoilRowCompletes /\ [Next]_vars => SoilRowCompletes'
    BY SoilStep
  <1>3. QED
    BY <1>1, <1>2, AlwaysTyped, PTL DEF Spec

(***************************************************************************)
(* The order of the tables.                                                *)
(***************************************************************************)

\* The numbers of readings increase from the tables by the mailbox to the queue.
OrderInv ==
    /\ \A i \in 1 .. Len(readings) : readings[i].n <= arrived
    /\ \A i, j \in 1 .. Len(readings) : i < j => readings[i].n < readings[j].n
    /\ \A i \in 1 .. Len(mailbox) : mailbox[i].type = "NodeSensorData" =>
         /\ mailbox[i].reading.n <= arrived
         /\ \A j \in 1 .. Len(readings) : mailbox[i].reading.n < readings[j].n
         /\ \A j \in 1 .. Len(rows) : rows[j].reading.n < mailbox[i].reading.n
    /\ \A i \in 1 .. Len(rows) :
         /\ rows[i].reading.n <= arrived
         /\ \A j \in 1 .. Len(readings) : rows[i].reading.n < readings[j].n
    /\ TablesInOrder

LEMMA OrderInit == Init => OrderInv
  <1> SUFFICES ASSUME Init
               PROVE  OrderInv
    OBVIOUS
  <1>1. /\ readings = <<>> /\ mailbox = <<>> /\ rows = <<>>
        /\ Len(<<>>) = 0 /\ DOMAIN <<>> = {}
    BY DEF Init
  <1>2. QED
    BY <1>1 DEF OrderInv, TablesInOrder

\* Every number is one of a reading that arrived.
LEMMA Numbers ==
  ASSUME TypeInv
  PROVE  /\ arrived \in Nat
         /\ \A i \in 1 .. Len(readings) : readings[i].n \in Nat
         /\ \A i \in 1 .. Len(mailbox) : mailbox[i].type = "NodeSensorData" => mailbox[i].reading.n \in Nat
         /\ \A i \in 1 .. Len(rows) : rows[i].reading.n \in Nat
  <1>1. arrived \in Nat
    BY DatabaseAssumption DEF TypeInv, TypeOK
  <1>2. \A x \in Reading : x.n \in Nat
    BY DEF Reading
  <1>3. \A i \in 1 .. Len(readings) : readings[i] \in Reading
    BY DEF TypeInv, TypeOK
  <1>4. \A i \in 1 .. Len(mailbox) : mailbox[i] \in Message
    BY DEF TypeInv, TypeOK, Message
  <1>5. \A m \in Message : m.type = "NodeSensorData" => m.reading \in Reading
    BY DEF Message
  <1>6. \A i \in 1 .. Len(rows) : rows[i].reading \in Reading
    <2>1. \A i \in 1 .. Len(rows) : rows[i] \in Row
      BY DEF TypeInv, TypeOK
    <2>2. QED
      BY <2>1 DEF Row
  <1>7. QED
    BY <1>1, <1>2, <1>3, <1>4, <1>5, <1>6

LEMMA ArrivalOrder ==
  ASSUME TypeInv, OrderInv, NEW a \in Addr, NEW has \in Sensors, ReadingArrives(a, has)
  PROVE  OrderInv'
  <1> DEFINE r == [addr |-> a, n |-> arrived + 1, has |-> has]
             L == Len(readings)
  <1>1. /\ readings \in Seq(Reading) /\ readings' = Append(readings, r)
        /\ arrived' = arrived + 1 /\ UNCHANGED <<mailbox, rows>>
    BY DEF ReadingArrives, TypeInv, TypeOK
  <1>2. /\ L \in Nat /\ Len(readings') = L + 1
        /\ \A i \in 1 .. L : readings'[i] = readings[i]
        /\ readings'[L + 1].n = arrived + 1
    BY <1>1
  <1>3. \A i \in 1 .. L + 1 : i = L + 1 \/ i \in 1 .. L
    BY <1>2
  <1> HIDE DEF r, L
  <1>4. \A i \in 1 .. L + 1 : readings'[i].n <= arrived'
    BY <1>1, <1>2, <1>3, Numbers DEF OrderInv, L
  <1>5. ASSUME NEW i \in 1 .. L + 1, NEW j \in 1 .. L + 1, i < j
        PROVE  readings'[i].n < readings'[j].n
    <2>1. i \in 1 .. L
      BY <1>2, <1>5
    <2>2. CASE j \in 1 .. L
      BY <1>2, <1>5, <2>1, <2>2 DEF OrderInv, L
    <2>3. CASE j = L + 1
      BY <1>2, <2>1, <2>3, Numbers DEF OrderInv, L
    <2>4. QED
      BY <1>3, <2>2, <2>3
  <1>6. ASSUME NEW i \in 1 .. Len(mailbox), mailbox[i].type = "NodeSensorData"
        PROVE  /\ mailbox[i].reading.n <= arrived + 1
               /\ \A j \in 1 .. L + 1 : mailbox[i].reading.n < readings'[j].n
    <2>1. /\ mailbox[i].reading.n <= arrived
          /\ \A j \in 1 .. L : mailbox[i].reading.n < readings[j].n
      BY <1>6 DEF OrderInv, L
    <2>2. mailbox[i].reading.n \in Nat /\ arrived \in Nat
      BY <1>6, Numbers
    <2>3. QED
      BY <1>2, <1>3, <2>1, <2>2
  <1>7. ASSUME NEW i \in 1 .. Len(rows)
        PROVE  /\ rows[i].reading.n <= arrived + 1
               /\ \A j \in 1 .. L + 1 : rows[i].reading.n < readings'[j].n
    <2>1. /\ rows[i].reading.n <= arrived
          /\ \A j \in 1 .. L : rows[i].reading.n < readings[j].n
      BY DEF OrderInv, L
    <2>2. rows[i].reading.n \in Nat /\ arrived \in Nat
      BY Numbers
    <2>3. QED
      BY <1>2, <1>3, <2>1, <2>2
  <1>8. /\ TablesInOrder'
        /\ \A i \in 1 .. Len(mailbox) : mailbox[i].type = "NodeSensorData" =>
             \A j \in 1 .. Len(rows) : rows[j].reading.n < mailbox[i].reading.n
    BY <1>1 DEF OrderInv, TablesInOrder
  <1>9. QED
    BY <1>1, <1>2, <1>4, <1>5, <1>6, <1>7, <1>8 DEF OrderInv

LEMMA StreamOrder ==
  ASSUME TypeInv, OrderInv, StreamTask
  PROVE  OrderInv'
  <1> DEFINE m == NodeSensorData(Head(readings))
             L == Len(readings)
  <1>1. /\ readings \in Seq(Reading) /\ readings # <<>> /\ readings' = Tail(readings)
        /\ mailbox' = Append(mailbox, m) /\ ~InMailbox("NodeSensorData")
        /\ UNCHANGED <<arrived, rows>>
    BY DEF StreamTask, TypeInv, TypeOK
  <1>2. /\ L \in Nat \ {0} /\ Head(readings) \in Reading /\ Head(readings) = readings[1]
        /\ Len(readings') = L - 1 /\ \A i \in 1 .. L - 1 : readings'[i] = readings[i + 1]
    BY <1>1
  <1>3. /\ m \in Message /\ m.type = "NodeSensorData" /\ m.reading = readings[1]
    BY <1>2 DEF NodeSensorData, Message
  <1> HIDE DEF m, L
  <1>4. /\ 1 \in 1 .. L
        /\ \A i \in 1 .. L - 1 : i + 1 \in 1 .. L /\ 1 < i + 1
        /\ \A i, j \in 1 .. L - 1 : i < j => i + 1 < j + 1
    BY <1>2
  <1>5. \A i \in 1 .. Len(mailbox') :
          mailbox'[i] = m \/ \E j \in 1 .. Len(mailbox) : mailbox'[i] = mailbox[j]
    BY <1>1, <1>3, MailboxMore
  <1>6. \A i \in 1 .. Len(mailbox') : mailbox'[i].type = "NodeSensorData" => mailbox'[i] = m
    <2>1. \A i \in 1 .. Len(mailbox) : mailbox[i].type # "NodeSensorData"
      BY <1>1 DEF InMailbox, TypeInv, TypeOK
    <2>2. QED
      BY <1>5, <2>1
  <1>7. /\ \A i \in 1 .. L : readings[i].n <= arrived
        /\ \A i, j \in 1 .. L : i < j => readings[i].n < readings[j].n
        /\ \A i \in 1 .. Len(rows) : /\ rows[i].reading.n <= arrived
                                     /\ \A j \in 1 .. L : rows[i].reading.n < readings[j].n
        /\ TablesInOrder
    BY DEF OrderInv, L
  <1>8. /\ \A i \in 1 .. L - 1 : readings'[i].n <= arrived
        /\ \A i, j \in 1 .. L - 1 : i < j => readings'[i].n < readings'[j].n
    BY <1>2, <1>4, <1>7
  <1>9. \A i \in 1 .. Len(mailbox') : mailbox'[i].type = "NodeSensorData" =>
          /\ mailbox'[i].reading.n <= arrived
          /\ \A j \in 1 .. L - 1 : mailbox'[i].reading.n < readings'[j].n
          /\ \A j \in 1 .. Len(rows) : rows[j].reading.n < mailbox'[i].reading.n
    <2>1. /\ m.reading.n <= arrived
          /\ \A j \in 1 .. L - 1 : m.reading.n < readings'[j].n
          /\ \A j \in 1 .. Len(rows) : rows[j].reading.n < m.reading.n
      BY <1>2, <1>3, <1>4, <1>7
    <2>2. QED
      BY <1>6, <2>1
  <1>10. /\ \A i \in 1 .. Len(rows) : \A j \in 1 .. L - 1 : rows[i].reading.n < readings'[j].n
    BY <1>2, <1>4, <1>7
  <1>11. TablesInOrder'
    BY <1>1, <1>7 DEF TablesInOrder
  <1>12. QED
    BY <1>1, <1>2, <1>7, <1>8, <1>9, <1>10, <1>11 DEF OrderInv

LEMMA HandlingOrder ==
  ASSUME TypeInv, OrderInv, HandleNodeSensorData
  PROVE  OrderInv'
  <1> DEFINE r == Head(mailbox).reading
             T == Inserts(r)
             L == Len(rows)
  <1>1. PICK done \in 0 .. Len(T), e \in Eui \cup {NoEui} :
          /\ DOMAIN rows = 1 .. L /\ DOMAIN rows' = 1 .. L + done
          /\ \A i \in 1 .. L : rows'[i] = rows[i]
          /\ \A i \in L + 1 .. L + done :
               /\ i - L \in 1 .. done
               /\ rows'[i].table = T[i - L] /\ rows'[i].eui = e /\ rows'[i].reading = r
    BY HandledRows
  <1>2. r \in Reading /\ NextMessage("NodeSensorData") /\ UNCHANGED <<readings, arrived>>
    BY HandlingParts DEF inputVars
  <1>3. T \in Seq({"gas", "light", "soil"}) /\ \A i, j \in 1 .. Len(T) : T[i] = T[j] => i = j
    BY <1>2, InsertsParts
  <1>4. L \in Nat /\ Len(T) \in Nat /\ done \in Nat /\ done <= Len(T)
    BY <1>3 DEF TypeInv, TypeOK
  <1>5. Len(rows') = L + done
    <2>1. rows' \in Seq(Row)
      BY HandlingType DEF TypeInv, TypeOK
    <2>2. Len(rows') \in Nat /\ DOMAIN rows' = 1 .. Len(rows')
      BY <2>1
    <2>3. QED
      BY <1>1, <1>4, <2>2
  <1>6. \A i \in 1 .. Len(mailbox') : mailbox'[i].type # "NodeSensorData"
    BY <1>2, MailboxLess
  <1>7. /\ r.n <= arrived
        /\ \A j \in 1 .. Len(readings) : r.n < readings[j].n
        /\ \A j \in 1 .. L : rows[j].reading.n < r.n
    <2>1. Head(mailbox) = mailbox[1] /\ 1 \in 1 .. Len(mailbox) /\ mailbox[1].type = "NodeSensorData"
      BY <1>2, MailboxLess
    <2>2. QED
      BY <2>1 DEF OrderInv
  <1> HIDE DEF r, T, L
  <1>8. \A i \in 1 .. L + done : i \in 1 .. L \/ i \in L + 1 .. L + done
    BY <1>4
  <1>9. ASSUME NEW i \in 1 .. L + done
        PROVE  /\ rows'[i].reading.n <= arrived
               /\ \A j \in 1 .. Len(readings) : rows'[i].reading.n < readings[j].n
    <2>1. CASE i \in 1 .. L
      BY <1>1, <2>1 DEF OrderInv, L
    <2>2. CASE i \in L + 1 .. L + done
      BY <1>1, <1>7, <2>2
    <2>3. QED
      BY <1>8, <2>1, <2>2
  <1>10. ASSUME NEW i \in 1 .. L + done, NEW j \in 1 .. L + done, i < j,
                rows'[i].table = rows'[j].table
         PROVE  rows'[i].reading.n < rows'[j].reading.n
    <2>1. CASE i \in 1 .. L /\ j \in 1 .. L
      BY <1>1, <1>10, <2>1 DEF OrderInv, TablesInOrder
    <2>2. CASE i \in 1 .. L /\ j \in L + 1 .. L + done
      BY <1>1, <1>7, <2>2
    <2>3. CASE i \in L + 1 .. L + done
      <3>1. j \in L + 1 .. L + done
        BY <1>4, <1>10, <2>3
      <3>2. T[i - L] = T[j - L] /\ i - L \in 1 .. Len(T) /\ j - L \in 1 .. Len(T)
        BY <1>1, <1>4, <1>10, <2>3, <3>1
      <3>3. i - L = j - L
        BY <1>3, <3>2
      <3>4. QED
        BY <1>4, <1>10, <2>3, <3>3
    <2>4. QED
      BY <1>8, <2>1, <2>2, <2>3
  <1>11. TablesInOrder'
    BY <1>1, <1>10 DEF TablesInOrder
  <1>12. /\ \A i \in 1 .. Len(readings) : readings[i].n <= arrived
         /\ \A i, j \in 1 .. Len(readings) : i < j => readings[i].n < readings[j].n
    BY DEF OrderInv
  <1>13. QED
    BY <1>2, <1>5, <1>6, <1>9, <1>11, <1>12 DEF OrderInv

LEMMA OrderStep ==
  ASSUME TypeInv, OrderInv, [Next]_vars
  PROVE  OrderInv'
  <1>1. CASE RegistryTask
    <2> DEFINE m == CreateOrModify(Head(statuses))
    <2>1. /\ mailbox' = Append(mailbox, m) /\ mailbox \in Seq(Message)
          /\ m.type # "NodeSensorData" /\ m \in Message
          /\ UNCHANGED <<readings, arrived, rows>>
      <3>1. Head(statuses) \in Plant
        BY <1>1 DEF RegistryTask, TypeInv, TypeOK
      <3>2. QED
        BY <1>1, <3>1 DEF RegistryTask, CreateOrModify, TypeInv, TypeOK, Message
    <2> HIDE DEF m
    <2>2. \A i \in 1 .. Len(mailbox') :
            mailbox'[i] = m \/ (i \in 1 .. Len(mailbox) /\ mailbox'[i] = mailbox[i])
      BY <2>1
    <2>3. \A i \in 1 .. Len(mailbox') : mailbox'[i].type = "NodeSensorData" =>
            i \in 1 .. Len(mailbox) /\ mailbox'[i] = mailbox[i]
      BY <2>1, <2>2
    <2>4. QED
      BY <2>1, <2>3 DEF OrderInv, TablesInOrder
  <1>2. CASE HandleCreateOrModify
    <2>1. NextMessage("CreateOrModify") /\ UNCHANGED <<readings, arrived, rows>>
      BY <1>2 DEF HandleCreateOrModify, inputVars
    <2>2. \A i \in 1 .. Len(mailbox') : \E j \in 1 .. Len(mailbox) : mailbox'[i] = mailbox[j]
      BY <2>1, MailboxLess
    <2>3. QED
      BY <2>1, <2>2 DEF OrderInv, TablesInOrder
  <1>3. CASE Restart
    <2>1. readings' = <<>> /\ mailbox' = <<>> /\ Len(<<>>) = 0 /\ UNCHANGED <<arrived, rows>>
      BY <1>3 DEF Restart
    <2>2. QED
      BY <2>1 DEF OrderInv, TablesInOrder
  <1>4. CASE UNCHANGED <<readings, arrived, mailbox, rows>>
    BY <1>4 DEF OrderInv, TablesInOrder
  <1>5. QED
    BY <1>1, <1>2, <1>3, <1>4, ArrivalOrder, StreamOrder, HandlingOrder
    DEF Next, vars, inputVars, Registered

\* Each table has the readings in the order they arrived and each of them once,
\* across failing statements and restarts.
THEOREM TablesAlwaysInOrder == Spec => []TablesInOrder
  <1>1. TypeInv /\ OrderInv /\ [Next]_vars => OrderInv'
    BY OrderStep
  <1>2. OrderInv => TablesInOrder
    BY DEF OrderInv
  <1>3. QED
    BY <1>1, <1>2, OrderInit, AlwaysTyped, PTL DEF Spec

=============================================================================
