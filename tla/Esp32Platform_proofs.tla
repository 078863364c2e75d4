------------------------ MODULE Esp32Platform_proofs ------------------------
(***************************************************************************)
(* Proofs about the firmware, for every set of endpoints and addresses,    *)
(* every fault threshold, every light and every length of reading.         *)
(***************************************************************************)
EXTENDS Esp32Platform, FiniteSetTheorems, TLAPS

(***************************************************************************)
(* Types.                                                                  *)
(***************************************************************************)

\* TypeOK needs to know whose requests are on their way.
RequestsOfObservers == \A m \in net : m.type = "get" => m.from \in Observers

TypeInv == TypeOK /\ RequestsOfObservers

LEMMA TypeInit == Init => TypeInv
  <1>1. IsFiniteSet({}) /\ Cardinality({}) = 0
    BY FS_EmptySet
  <1>2. MeshInit => MeshTypeOK /\ RequestsOfObservers
    BY <1>1, MeshAssumption, SMT DEF MeshInit, MeshTypeOK, RequestsOfObservers
  <1>3. LightInit => LightTypeOK
    BY ThresholdAssumption DEF LightInit, LightTypeOK, Gain, IntegrationTime, PowerOn
  <1>4. QED
    BY <1>2, <1>3 DEF Init, TypeInv, TypeOK

\* The setting that is tried next is one of the four, and another one.
LEMMA NextIsPreset ==
  ASSUME gain \in Gain
  PROVE  /\ NextSetting \in Preset
         /\ NextSetting = <<NextSetting[1], NextSetting[2]>>
         /\ NextSetting[1] \in Gain
         /\ NextSetting[2] \in IntegrationTime
         /\ NextSetting[1] # gain
  BY DEF NextSetting, Preset, Gain, IntegrationTime

LEMMA PresetIsSetting == Preset \subseteq Gain \X IntegrationTime
  BY DEF Preset, Gain, IntegrationTime

\* A read keeps the driver's types; it counts a fault only below the threshold.
LEMMA LightReadType == LightTypeOK /\ Read => LightTypeOK'
  <1> SUFFICES ASSUME LightTypeOK, Read
               PROVE  LightTypeOK'
    OBVIOUS
  <1>1. Threshold \in Nat /\ Threshold > 0
    BY ThresholdAssumption
  <1>2. CASE ReadAsConfigured
    BY <1>1, <1>2 DEF ReadAsConfigured, Measure, LightTypeOK
  <1>3. gain \in Gain /\ time \in IntegrationTime
    BY DEF LightTypeOK
  <1>4. CASE ReadAdjusted
    <2>1. gain' \in Gain /\ time' \in IntegrationTime
      BY <1>3, <1>4, NextIsPreset DEF ReadAdjusted
    <2>2. control' \in Gain \X IntegrationTime /\ sample' \in Gain \X IntegrationTime
      BY <1>3, <1>4, NextIsPreset, PresetIsSetting DEF ReadAdjusted, Measure, LightTypeOK
    <2>3. faults' \in 0 .. Threshold /\ outcome' \in {"none", "ok", "overflow", "bus"}
      BY <1>1, <1>4 DEF ReadAdjusted, Measure
    <2>4. QED
      BY <1>4, <2>1, <2>2, <2>3 DEF ReadAdjusted, LightTypeOK
  <1>5. <<NextSetting[1], time>> \in Gain \X IntegrationTime
    BY <1>3, NextIsPreset
  <1>6. CASE GainWriteFails
    BY <1>5, <1>6 DEF GainWriteFails, LightTypeOK
  <1>7. CASE TimingWriteFails
    <2>1. NextSetting \in Gain \X IntegrationTime /\ NextSetting[1] \in Gain
      BY <1>3, NextIsPreset, PresetIsSetting
    <2>2. QED
      BY <1>5, <1>7, <2>1 DEF TimingWriteFails, LightTypeOK
  <1>8. QED
    BY <1>2, <1>4, <1>6, <1>7 DEF Read

\* What may be in the network after a datagram was sent.
LEMMA SendType ==
  ASSUME MeshTypeOK, RequestsOfObservers, NEW used, NEW m \in Message,
         m.type = "get" => m.from \in Observers,
         SendAfter(used, m), UNCHANGED <<children, omr>>
  PROVE  MeshTypeOK' /\ RequestsOfObservers'
  BY DEF SendAfter, MeshTypeOK, RequestsOfObservers

LEMMA SourceIsIp ==
  ASSUME TypeOK, NEW ep \in Endpoint
  PROVE  Source(ep) \in Ip
  BY DEF Source, Endpoint, Ip, TypeOK

LEMMA TypeStep == TypeInv /\ [Next]_vars => TypeInv'
  <1> SUFFICES ASSUME TypeInv, [Next]_vars
               PROVE  TypeInv'
    OBVIOUS
  <1> USE DEF TypeInv, TypeOK
  \* The steps that leave the network alone.
  <1>a. UNCHANGED meshVars => MeshTypeOK' /\ RequestsOfObservers'
    BY DEF meshVars, MeshTypeOK, RequestsOfObservers
  <1>b. UNCHANGED lightVars => LightTypeOK'
    BY DEF lightVars, LightTypeOK
  <1>1. CASE Boot
    <2>1. LightTypeOK'
      BY <1>1, ThresholdAssumption
      DEF Boot, LightNew, LightTypeOK, Gain, IntegrationTime
    <2>2. QED
      BY <1>1, <1>a, <2>1 DEF Boot, SetupSensorTimer
  <1>2. CASE BootPanics
    <2>1. LightTypeOK'
      BY <1>2 DEF BootPanics, LightNewFails, LightTypeOK, Gain, IntegrationTime
    <2>2. QED
      BY <1>2, <1>a, <2>1 DEF BootPanics
  <1>3. CASE ReadSensors
    BY <1>3, <1>a, LightReadType DEF ReadSensors, SensorRead
  <1>4. CASE NoReadingDue
    BY <1>4, <1>a, <1>b DEF NoReadingDue
  <1>5. CASE SendSensorData
    <2>1. observer_addr \in Endpoint
      BY <1>5, PlatformAssumption DEF SendSensorData
    <2>2. /\ Reading(Source(observer_addr), observer_addr) \in Message
          /\ Reading(Source(observer_addr), observer_addr).type # "get"
      BY <2>1, SourceIsIp DEF Reading, Message
    <2>3. MeshTypeOK' /\ RequestsOfObservers'
      BY <1>5, <2>2, SendType DEF SendSensorData, Send
    <2>4. QED
      BY <1>5, <1>b, <2>3 DEF SendSensorData
  <1>6. CASE SendFails
    BY <1>6, <1>a, <1>b DEF SendFails
  <1>7. CASE ReceiveNothing \/ ReceivePanics
    BY <1>7, <1>a, <1>b DEF ReceiveNothing, ReceivePanics
  <1>8. CASE ReceiveRequest
    <2>1. PICK m \in net : /\ m.type = "get"
                           /\ SendAfter({m}, Reply(Source(m.from), m.from))
                           /\ observer_addr' = m.from
      BY <1>8 DEF ReceiveRequest
    <2>2. m.from \in Observers /\ m.from \in Endpoint
      BY <2>1, PlatformAssumption DEF RequestsOfObservers
    <2>3. /\ Reply(Source(m.from), m.from) \in Message
          /\ Reply(Source(m.from), m.from).type # "get"
      BY <2>2, SourceIsIp DEF Reply, Message
    <2>4. MeshTypeOK' /\ RequestsOfObservers'
      BY <1>8, <2>1, <2>3, SendType DEF ReceiveRequest
    <2>5. QED
      BY <1>8, <1>b, <2>1, <2>2, <2>4 DEF ReceiveRequest
  <1>9. CASE CpuReset
    BY <1>9, <1>a, <1>b DEF CpuReset, Restart
  <1>10. CASE TimerInterrupt
    BY <1>10, <1>a, <1>b DEF TimerInterrupt
  <1>11. CASE PowerEvent
    <2>1. LightTypeOK'
      BY <1>11 DEF PowerEvent, PowerOn, LightTypeOK, Gain, IntegrationTime
    <2>2. QED
      BY <1>11, <1>a, <2>1 DEF PowerEvent, Restart
  <1>12. CASE RequestSent
    <2>1. PICK ep \in Observers, h \in Host :
            Send(Get(ep, [prefix |-> ep.prefix, host |-> h]))
      BY <1>12 DEF RequestSent
    <2>2. /\ Get(ep, [prefix |-> ep.prefix, host |-> h]) \in Message
          /\ Get(ep, [prefix |-> ep.prefix, host |-> h]).from \in Observers
      BY PlatformAssumption DEF Get, Message, Endpoint, Ip
    <2>3. MeshTypeOK' /\ RequestsOfObservers'
      BY <1>12, <2>1, <2>2, SendType DEF RequestSent, Send
    <2>4. QED
      BY <1>12, <1>b, <2>3 DEF RequestSent, platformVars
  <1>13. CASE DatagramGone
    <2>1. MeshTypeOK' /\ RequestsOfObservers'
      BY <1>13 DEF DatagramGone, Lose, MeshTypeOK, RequestsOfObservers
    <2>2. QED
      BY <1>13, <1>b, <2>1 DEF DatagramGone, platformVars
  <1>14. CASE LightMoves
    BY <1>14, <1>a DEF LightMoves, LightChanges, LightTypeOK, platformVars
  <1>15. CASE UNCHANGED vars
    BY <1>15, <1>a, <1>b DEF vars, platformVars
  <1>16. QED
    BY <1>1, <1>2, <1>3, <1>4, <1>5, <1>6, <1>7, <1>8, <1>9, <1>10, <1>11,
       <1>12, <1>13, <1>14, <1>15 DEF Next, Loop

LEMMA AlwaysTyped == Spec => []TypeInv
  BY TypeInit, TypeStep, PTL DEF Spec

\* Types, for every set of endpoints, threshold and lengths of readings.
THEOREM TypeCorrect == Spec => []TypeOK
  <1>1. TypeInv => TypeOK
    BY DEF TypeInv
  <1>2. QED
    BY <1>1, AlwaysTyped, PTL

(***************************************************************************)
(* The light sensor.                                                       *)
(***************************************************************************)

\* Driver and device agree on one of the four settings whenever the fault count
\* does not call for another one.  Above the threshold they may differ, but then
\* the next read sets both or does not measure.
Agreement ==
    pc \in {"top", "send", "receive", "reset"} /\ faults < Threshold =>
        /\ control = <<gain, time>>
        /\ control \in Preset

LEMMA AgreementStep == TypeOK /\ Agreement /\ [Next]_vars => Agreement'
  <1> SUFFICES ASSUME TypeOK, Agreement, [Next]_vars
               PROVE  Agreement'
    OBVIOUS
  <1> USE DEF Agreement
  <1>1. gain \in Gain /\ faults \in Nat /\ Threshold \in Nat
    BY ThresholdAssumption DEF TypeOK, LightTypeOK
  <1>2. CASE Boot
    BY <1>2 DEF Boot, LightNew, Preset
  <1>3. CASE ReadSensors
    <2>1. pc = "top" /\ Read
      BY <1>3 DEF ReadSensors, SensorRead
    <2>2. CASE ReadAsConfigured
      BY <1>1, <2>1, <2>2 DEF ReadAsConfigured
    <2>3. CASE ReadAdjusted
      BY <1>1, <2>3, NextIsPreset DEF ReadAdjusted
    <2>4. CASE GainWriteFails \/ TimingWriteFails
      BY <1>1, <2>4 DEF GainWriteFails, TimingWriteFails
    <2>5. QED
      BY <2>1, <2>2, <2>3, <2>4 DEF Read
  <1>4. CASE BootPanics \/ CpuReset \/ PowerEvent
    BY <1>4 DEF BootPanics, CpuReset, PowerEvent, Restart
  <1>5. CASE \/ NoReadingDue \/ SendSensorData \/ SendFails
             \/ ReceiveNothing \/ ReceivePanics \/ ReceiveRequest
    BY <1>5 DEF NoReadingDue, SendSensorData, SendFails, ReceiveNothing,
                ReceivePanics, ReceiveRequest, lightVars
  <1>6. CASE TimerInterrupt \/ RequestSent \/ DatagramGone \/ LightMoves \/ UNCHANGED vars
    BY <1>6 DEF TimerInterrupt, RequestSent, DatagramGone, LightMoves, LightChanges,
                platformVars, lightVars, vars
  <1>7. QED
    BY <1>2, <1>3, <1>4, <1>5, <1>6 DEF Next, Loop

\* A successful read scales its sample by the setting it was taken with, or is
\* the one that changed the setting.
LEMMA LuxStep ==
  ASSUME TypeOK, Agreement, ReadSensors, outcome' = "ok"
  PROVE  \/ sample' = <<gain', time'>> /\ sample' \in Preset
         \/ <<gain', time'>> # <<gain, time>>
  <1>1. gain \in Gain /\ pc = "top" /\ Read
    BY DEF TypeOK, LightTypeOK, ReadSensors, SensorRead
  <1>2. CASE ReadAsConfigured
    BY <1>1, <1>2 DEF ReadAsConfigured, Measure, Agreement
  <1>3. CASE ReadAdjusted
    BY <1>1, <1>3, NextIsPreset DEF ReadAdjusted
  <1>4. CASE GainWriteFails \/ TimingWriteFails
    BY <1>4 DEF GainWriteFails, TimingWriteFails
  <1>5. QED
    BY <1>1, <1>2, <1>3, <1>4 DEF Read

\* Lux is computed with the setting of its sample, whichever writes fail and
\* whenever the node restarts, for every fault threshold.
THEOREM LuxIsScaled == Spec => LuxScaledAsMeasured
  <1>1. Init => Agreement
    BY DEF Init, Agreement
  <1>2. TypeInv => TypeOK
    BY DEF TypeInv
  <1>3. TypeOK /\ Agreement /\ [Next]_vars =>
          [ReadSensors /\ outcome' = "ok" =>
             \/ sample' = <<gain', time'>> /\ sample' \in Preset
             \/ <<gain', time'>> # <<gain, time>>]_vars
    BY LuxStep
  <1>4. QED
    BY <1>1, <1>2, <1>3, AgreementStep, AlwaysTyped, PTL DEF Spec, LuxScaledAsMeasured

(***************************************************************************)
(* The firmware is a SensorNode.                                           *)
(***************************************************************************)

LEMMA SameCardinality == \A S : Node!Cardinality(S) = Cardinality(S)
  BY Zenon DEF Cardinality, Node!Cardinality

LEMMA SameSend ==
  ASSUME NEW used, NEW m
  PROVE  SendAfter(used, m) <=> Node!SendAfter(used, m)
  BY SameCardinality DEF SendAfter, Node!SendAfter

LEMMA NodeInit == Init => Node!SensorInit
  BY MeshAssumption, PlatformAssumption DEF Init, Node!SensorInit, Node!HostsOf

\* Every step is one of the node's, or leaves it alone.
LEMMA NodeStep ==
  TypeInv /\ [Next]_vars =>
    [\/ \E d \in Device : \/ \E m \in net : Node!HandleRequest(d, m)
                          \/ Node!SendReading(d)
                          \/ Node!Reset(d)
     \/ Node!Elsewhere]_<<meshVars, Node!sensorVars>>
  <1> SUFFICES ASSUME TypeInv, [Next]_vars
               PROVE  [\/ \E d \in Device : \/ \E m \in net : Node!HandleRequest(d, m)
                                            \/ Node!SendReading(d)
                                            \/ Node!Reset(d)
                       \/ Node!Elsewhere]_<<meshVars, Node!sensorVars>>
    OBVIOUS
  <1>1. PICK d \in Device : Device = {d}
    BY PlatformAssumption
  <1>2. \A h \in Host : DeviceOf[h] = d
    BY <1>1, MeshAssumption
  <1>b. \A ep : Node!SourceFor(d, ep) = Source(ep)
    BY DEF Node!SourceFor, Source
  <1>3. CASE SendSensorData
    <2>1. Node!SendReading(d)
      <3>1. observer_addr # NoObserver /\ UNCHANGED <<children, omr, Node!sensorVars>>
        BY <1>3 DEF SendSensorData, Node!sensorVars, TypeInv, TypeOK
      <3>2. Send(Reading(Source(observer_addr), observer_addr))
        BY <1>3 DEF SendSensorData
      <3>3. Node!Send(Node!Reading(Node!SourceFor(d, observer_addr), observer_addr))
        BY <1>b, <3>2, SameSend DEF Send, Node!Send, Reading, Node!Reading
      <3>4. QED
        BY <3>1, <3>3 DEF Node!SendReading
    <2>2. QED
      BY <2>1
  <1>4. CASE ReceiveRequest
    <2>1. PICK m \in net : /\ m.type = "get"
                           /\ m.to.host = host
                           /\ SendAfter({m}, Reply(Source(m.from), m.from))
                           /\ observer_addr' = m.from
      BY <1>4 DEF ReceiveRequest
    <2>2. Node!HandleRequest(d, m)
      <3>1. Node!SendAfter({m}, Node!Reply(Node!SourceFor(d, m.from), m.from))
        BY <1>b, <2>1, SameSend DEF Reply, Node!Reply
      <3>2. [e \in Device |-> observer_addr'] = [[e \in Device |-> observer_addr] EXCEPT ![d] = m.from]
        BY <1>1, <2>1
      <3>3. UNCHANGED <<children, omr, [e \in Device |-> host]>>
        BY <1>4 DEF ReceiveRequest
      <3>4. QED
        BY <2>1, <3>1, <3>2, <3>3 DEF Node!HandleRequest
    <2>3. QED
      BY <2>2
  <1>5. CASE CpuReset \/ PowerEvent
    <2>1. Restart
      BY <1>5 DEF CpuReset, PowerEvent
    <2>2. host' \in Node!HostsOf(d)
      BY <1>2, <2>1 DEF Restart, Node!HostsOf
    <2>3. Node!Reset(d)
      BY <1>1, <2>1, <2>2 DEF Restart, Node!Reset, meshVars, Node!meshVars
    <2>4. QED
      BY <2>3
  <1>6. CASE RequestSent
    <2>1. Node!Elsewhere
      BY <1>6 DEF RequestSent, Send, SendAfter, Get, Node!Elsewhere, Node!sensorVars, platformVars
    <2>2. QED
      BY <2>1
  <1>7. CASE DatagramGone
    <2>1. Node!Elsewhere
      BY <1>7 DEF DatagramGone, Lose, Node!Elsewhere, Node!sensorVars, platformVars
    <2>2. QED
      BY <2>1
  <1>8. CASE Boot \/ BootPanics \/ ReadSensors \/ NoReadingDue
    BY <1>8 DEF Boot, BootPanics, ReadSensors, NoReadingDue, Node!sensorVars
  <1>9. CASE \/ SendFails \/ ReceiveNothing \/ ReceivePanics
             \/ TimerInterrupt \/ LightMoves \/ UNCHANGED vars
    BY <1>9 DEF SendFails, ReceiveNothing, ReceivePanics, TimerInterrupt,
                LightMoves, platformVars, vars, Node!sensorVars
  <1>10. QED
    BY <1>3, <1>4, <1>5, <1>6, <1>7, <1>8, <1>9 DEF Next, Loop

\* The firmware implements SensorNode, the node the broker is checked with: it
\* sends readings to nobody but the last endpoint that asked for them.
THEOREM NodeIsImplemented == Spec => NodeImplemented
  <1>1. QED
    BY NodeInit, NodeStep, AlwaysTyped, PTL
    DEF Spec, NodeImplemented, Node!NodeSpec, meshVars, Node!meshVars

=============================================================================
