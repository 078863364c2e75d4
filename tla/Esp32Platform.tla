---------------------------- MODULE Esp32Platform ----------------------------
(***************************************************************************)
(* The firmware of a sensor node (pmindp-esp32-thread/src): main makes the *)
(* sensor drivers and starts the sensor timer, and the event loop of       *)
(* platform.rs reads the sensors when the timer fired, sends what they     *)
(* gave to the observer, and answers CoAP requests.  The timer interrupt   *)
(* runs between any two steps of the loop.  The light sensor is module     *)
(* Tsl2591; of the soil and gas sensors, which keep no state, there is     *)
(* only whether a read succeeds and how much it writes.                    *)
(*                                                                         *)
(* SensorNode is what the rest of the system is checked with; this module  *)
(* implements it (NodeImplemented).                                        *)
(***************************************************************************)
EXTENDS Mesh, Tsl2591

CONSTANTS
    NoObserver,   \* observer_addr is None
    Observers,    \* the border router's endpoints that may register
    BufferSize,   \* bytes of send_data_buf
    MaxLength     \* sensor -> bytes of the longest reading its driver writes

Sensors == {"soil", "light", "gas"}

ASSUME PlatformAssumption ==
    /\ \E d \in Device : Device = {d}
    /\ Observers \subseteq Endpoint
    /\ NoObserver \notin Endpoint
    /\ BufferSize \in Nat
    /\ MaxLength \in [Sensors -> Nat]

VARIABLES
    pc,             \* where the program is
    fired,          \* SENSOR_TIMER_FIRED
    timer,          \* whether the sensor timer counts down to an interrupt
    observer_addr,  \* who gets the readings
    host            \* the interface identifier the node has now

platformVars == <<pc, fired, timer, observer_addr, host>>
vars == <<platformVars, meshVars, lightVars>>

TypeOK ==
    /\ MeshTypeOK
    /\ LightTypeOK
    /\ pc \in {"boot", "top", "send", "receive", "reset", "panic"}
    /\ fired \in BOOLEAN
    /\ timer \in BOOLEAN
    /\ observer_addr \in Observers \cup {NoObserver}
    /\ host \in Host
    /\ pc = "send" => observer_addr # NoObserver

Init ==
    /\ MeshInit
    /\ LightInit
    /\ pc = "boot"
    /\ fired = FALSE
    /\ timer = FALSE
    /\ observer_addr = NoObserver
    /\ host \in Host

-----------------------------------------------------------------------------

\* The timer runs from here on, with the handler for its interrupt.
SetupSensorTimer == timer' = TRUE

\* main: the drivers are made, then init starts the sensor timer.
Boot ==
    /\ pc = "boot"
    /\ LightNew
    /\ SetupSensorTimer
    /\ pc' = "top"
    /\ UNCHANGED <<fired, observer_addr, host, meshVars>>

\* main unwraps what TSL2591::new and BME680::new return.
BootPanics ==
    /\ pc = "boot"
    /\ LightNewFails
    /\ pc' = "panic"
    /\ UNCHANGED <<fired, timer, observer_addr, host, meshVars>>

\* Mutant: the handler does not start the timer again.
TimerInterruptOnce ==
    /\ timer
    /\ fired' = TRUE
    /\ timer' = FALSE
    /\ UNCHANGED <<pc, observer_addr, host, meshVars, lightVars>>

\* SENSOR_TIMER_TG0_T0_LEVEL: the flag is set and the timer loaded again.
TimerInterrupt ==
    /\ timer
    /\ fired' = TRUE
    /\ UNCHANGED <<pc, timer, observer_addr, host, meshVars, lightVars>>

\* How much sensor s writes at the longest when those in ok can be read: one that
\* fails takes no room.
Size(ok, s) == IF s \in ok THEN MaxLength[s] ELSE 0

\* The sensors write one behind the other.  Whether they stay within the buffer
\* depends on the digits of what they measured, once it does not hold the longest.
MayOverrun(ok) == Size(ok, "soil") + Size(ok, "light") + Size(ok, "gas") > BufferSize

\* ATSAMD10::read writes temperature and moisture, or fails at either.
SoilRead == {{}, {"soil"}}

\* BME680::read writes what was measured since it was last read, and starts the
\* next measurement, or fails at either.
GasRead == {{}, {"gas"}}

\* sensor_read: each sensor succeeds or fails by itself, and none of them makes
\* it fail; a driver that slices the buffer beyond its end panics.
SensorRead ==
    /\ Read
    /\ \E soil \in SoilRead, gas \in GasRead :
          LET ok == soil \cup gas \cup IF outcome' = "ok" THEN {"light"} ELSE {}
          IN  pc' \in {"send"} \cup IF MayOverrun(ok) THEN {"panic"} ELSE {}

\* Mutant: the sensors are read whether there is an observer or not.
ReadSensorsAlways ==
    /\ pc = "top"
    /\ fired
    /\ fired' = FALSE
    /\ SensorRead
    /\ UNCHANGED <<timer, observer_addr, host, meshVars>>

\* The timer fired since the last reading, and there is an observer.
ReadSensors ==
    /\ pc = "top"
    /\ observer_addr # NoObserver
    /\ fired
    /\ fired' = FALSE
    /\ SensorRead
    /\ UNCHANGED <<timer, observer_addr, host, meshVars>>

\* Without an observer the flag is left alone.
NoReadingDue ==
    /\ pc = "top"
    /\ observer_addr = NoObserver \/ ~fired
    /\ pc' = "receive"
    /\ UNCHANGED <<fired, timer, observer_addr, host, meshVars, lightVars>>

\* The source address the node uses towards ep.
Source(ep) == [prefix |-> ep.prefix, host |-> host]

SendSensorData ==
    /\ pc = "send"
    /\ Send(Reading(Source(observer_addr), observer_addr))
    /\ pc' = "receive"
    /\ UNCHANGED <<children, omr, fired, timer, observer_addr, host, lightVars>>

\* socket.send fails: the loop is left, and with it the Thread network.
SendFails ==
    /\ pc = "send"
    /\ pc' = "reset"
    /\ UNCHANGED <<fired, timer, observer_addr, host, meshVars, lightVars>>

\* Nothing was received, or what is no CoAP packet: its sender is sent a text at
\* BOUND_PORT, where the border router has no socket.
ReceiveNothing ==
    /\ pc = "receive"
    /\ pc' = "top"
    /\ UNCHANGED <<fired, timer, observer_addr, host, meshVars, lightVars>>

\* receive fails, the text cannot be sent, or the packet asks for no response: each
\* is unwrapped.
ReceivePanics ==
    /\ pc = "receive"
    /\ pc' = "panic"
    /\ UNCHANGED <<fired, timer, observer_addr, host, meshVars, lightVars>>

\* A CoAP request: its sender is the observer from now on, whether the answer
\* can be sent or not.
ReceiveRequest ==
    /\ pc = "receive"
    /\ \E m \in net :
          /\ m.type = "get"
          /\ m.to.host = host
          /\ SendAfter({m}, Reply(Source(m.from), m.from))
          /\ observer_addr' = m.from
    /\ pc' = "top"
    /\ UNCHANGED <<children, omr, fired, timer, host, lightVars>>

\* Mutant: the observer is kept over a restart.
RestartRemembers ==
    /\ pc' = "boot"
    /\ fired' = FALSE
    /\ timer' = FALSE
    /\ host' \in Host
    /\ UNCHANGED <<observer_addr, meshVars>>

\* The program starts again; its address may be a new one.
Restart ==
    /\ pc' = "boot"
    /\ fired' = FALSE
    /\ timer' = FALSE
    /\ observer_addr' = NoObserver
    /\ host' \in Host
    /\ UNCHANGED meshVars

\* reset(): software_reset_cpu leaves the light sensor as it is.
CpuReset ==
    /\ pc = "reset"
    /\ Restart
    /\ UNCHANGED lightVars

\* Power is lost or the button pressed, at any time; what has power goes on.
PowerEvent ==
    /\ Restart
    /\ control' \in {control, PowerOn}
    /\ UNCHANGED <<gain, time, faults, light, sample, outcome>>

-----------------------------------------------------------------------------

\* A border router's request reaches the network.
RequestSent ==
    /\ \E ep \in Observers, h \in Host :
          Send(Get(ep, [prefix |-> ep.prefix, host |-> h]))
    /\ UNCHANGED <<children, omr, platformVars, lightVars>>

DatagramGone ==
    /\ \E m \in net : Lose(m)
    /\ UNCHANGED <<platformVars, lightVars>>

LightMoves == LightChanges /\ UNCHANGED <<platformVars, meshVars>>

\* main and the event loop.
Loop ==
    \/ Boot
    \/ BootPanics
    \/ ReadSensors
    \/ NoReadingDue
    \/ SendSensorData
    \/ SendFails
    \/ ReceiveNothing
    \/ ReceivePanics
    \/ ReceiveRequest
    \/ CpuReset

Next ==
    \/ Loop
    \/ TimerInterrupt
    \/ PowerEvent
    \/ RequestSent
    \/ DatagramGone
    \/ LightMoves

Spec == Init /\ [][Next]_vars

\* The loop does not wait for anything, and a running timer expires.  A program
\* that panicked stays so until power is lost or the button pressed.
FairSpec ==
    /\ Spec
    /\ WF_vars(Loop)
    /\ WF_vars(TimerInterrupt)

-----------------------------------------------------------------------------

\* A reading's lux is computed with the gain and integration time its sample was
\* taken with, although either write of a reconfiguration may fail and be left at
\* that, and a restart finds the device as it was left (get_lux, configure,
\* TSL2591::new).  The one exception is the read that changes the setting: its
\* sample may be older than that.
LuxScaledAsMeasured ==
    [][ReadSensors /\ outcome' = "ok" =>
         \/ sample' = <<gain', time'>> /\ sample' \in Preset
         \/ <<gain', time'>> # <<gain, time>>]_vars

Node == INSTANCE SensorNode WITH
            hostOf <- [d \in Device |-> host],
            observer <- [d \in Device |-> observer_addr]

\* Seen from outside the firmware is a SensorNode: only to the last one that
\* asked are readings sent, and none after a restart until someone asks again.
NodeImplemented == Node!NodeSpec

\* The node is up and keeps its observer: it does not panic (nor restart).
Serving == observer_addr # NoObserver /\ pc # "panic"

\* A node that stays up and keeps its observer keeps sending it readings: the
\* timer's flag is not lost between interrupt and loop for good.
ReadingsGoOn == <>[]Serving => []<>(pc = "send")

\* As long as the light is such that some setting can measure it, and the bus
\* works again, the driver finds such a setting and the readings hold a lux.
KeepsMeasuring ==
    \A L \in Lights \ {{}} :
        <>[](light = L /\ Serving /\ outcome # "bus")
            => []<>(pc = "send" /\ outcome = "ok")

=============================================================================
