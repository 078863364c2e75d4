------------------------------- MODULE Tsl2591 -------------------------------
(***************************************************************************)
(* The driver of the light sensor                                          *)
(* (pmindp-esp32-thread/src/sensor/tsl2591.rs): it scales what it measures *)
(* by the gain and integration time it believes the device to have, counts *)
(* the measurements that were out of range, and moves on to the next of    *)
(* four settings when there were too many.  `read` runs in a critical      *)
(* section, so a call is one step; any bus transaction of it may fail, and *)
(* a write that fails may have reached the device all the same.  The       *)
(* firmware that makes and reads the driver is module Esp32Platform.       *)
(***************************************************************************)
EXTENDS Naturals

CONSTANTS
    Threshold,   \* FAULT_THRESHOLD
    Lights       \* bound: the lights there are, each the settings it is in range of

\* The settings adjust_for_bright_light ... adjust_for_ultra_low_light make.
Preset == {<<"Low", 100>>, <<"Medium", 300>>, <<"High", 500>>, <<"Max", 600>>}

ASSUME ThresholdAssumption ==
    /\ Threshold \in Nat \ {0}
    /\ Lights \subseteq SUBSET Preset

VARIABLES
    gain,     \* the driver's gain
    time,     \* the driver's integration time, in ms
    control,  \* the device's control register: gain and integration time
    faults,   \* fault_count
    light,    \* the settings in which the present light is in range
    sample,   \* the setting the device had when it took what was read last
    outcome   \* of the last read

lightVars == <<gain, time, control, faults, light, sample, outcome>>

Gain == {"Low", "Medium", "High", "Max"}
IntegrationTime == {100, 300, 500, 600}

\* The device's setting after a power cycle.
PowerOn == <<"Low", 100>>

LightTypeOK ==
    /\ gain \in Gain
    /\ time \in IntegrationTime
    /\ control \in Gain \X IntegrationTime
    /\ faults \in 0 .. Threshold
    /\ light \in Lights
    /\ sample \in Gain \X IntegrationTime
    /\ outcome \in {"none", "ok", "overflow", "bus"}

\* Before the driver is made: the device has its power-on setting.
LightInit ==
    /\ gain = "Medium"
    /\ time = 300
    /\ control = PowerOn
    /\ faults = 0
    /\ light \in Lights
    /\ sample = PowerOn
    /\ outcome = "none"

\* TSL2591::new: enabled, with the default timing and gain.
LightNew ==
    /\ gain' = "Medium"
    /\ time' = 300
    /\ control' = <<"Medium", 300>>
    /\ faults' = 0
    /\ outcome' = "none"
    /\ UNCHANGED <<light, sample>>

\* TSL2591::new fails at one of its three writes, and there is no driver.
LightNewFails ==
    /\ control' \in {control, <<"Medium", 300>>}
    /\ UNCHANGED <<gain, time, faults, light, sample, outcome>>

\* Mutant: the last setting is kept.
LastSettingSticks ==
    CASE gain = "Low"    -> <<"Medium", 300>>
      [] gain = "Medium" -> <<"High", 500>>
      [] OTHER           -> <<"Max", 600>>

\* adjust_for_current_light: the setting that follows the present gain.
NextSetting ==
    CASE gain = "Low"    -> <<"Medium", 300>>
      [] gain = "Medium" -> <<"High", 500>>
      [] gain = "High"   -> <<"Max", 600>>
      [] gain = "Max"    -> <<"Low", 100>>

\* get_luminosity and get_lux, with f faults so far, of a sample that the device
\* took at setting s.
Measure(s, f) ==
    /\ sample' = s
    /\ \/ outcome' = "bus" /\ faults' = f
       \/ s \notin light /\ outcome' = "overflow" /\ faults' = f + 1
       \/ s \in light /\ outcome' = "ok" /\ faults' = f

\* Below the threshold the settings are left alone.  Since they were last
\* changed the device has taken a sample: readings are seconds apart.
ReadAsConfigured ==
    /\ faults < Threshold
    /\ UNCHANGED <<gain, time, control, light>>
    /\ Measure(control, faults)

\* Both writes of `configure` succeed; the fault count starts again.  The fixed
\* 120 ms before each measurement are less than the new integration time may be,
\* so the device may still have a sample of the old setting.
ReadAdjusted ==
    /\ faults >= Threshold
    /\ control' = NextSetting
    /\ gain' = NextSetting[1]
    /\ time' = NextSetting[2]
    /\ \E s \in {control, NextSetting} : Measure(s, 0)
    /\ UNCHANGED light

\* set_gain fails: nothing of the driver's state changes.
GainWriteFails ==
    /\ faults >= Threshold
    /\ control' \in {control, <<NextSetting[1], time>>}
    /\ outcome' = "bus"
    /\ UNCHANGED <<gain, time, faults, light, sample>>

\* Mutant: gain is only recorded when both writes succeeded, and the faults are
\* reset.
TimingWriteFailsReset ==
    /\ faults >= Threshold
    /\ control' \in {<<NextSetting[1], time>>, NextSetting}
    /\ outcome' = "bus"
    /\ faults' = 0
    /\ UNCHANGED <<gain, time, light, sample>>

\* set_gain succeeds and set_timing fails: the driver has the new gain only.
TimingWriteFails ==
    /\ faults >= Threshold
    /\ gain' = NextSetting[1]
    /\ control' \in {<<NextSetting[1], time>>, NextSetting}
    /\ outcome' = "bus"
    /\ UNCHANGED <<time, faults, light, sample>>

Read ==
    \/ ReadAsConfigured
    \/ ReadAdjusted
    \/ GainWriteFails
    \/ TimingWriteFails

LightChanges ==
    /\ light' \in Lights
    /\ UNCHANGED <<gain, time, control, faults, sample, outcome>>

=============================================================================
