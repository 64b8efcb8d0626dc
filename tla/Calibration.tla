----------------------------- MODULE Calibration -----------------------------
(***************************************************************************)
(* How voltages become percentages (main/mesh_sensor.c and                 *)
(* main/mesh_battery_state.c), with the calibration voltages low and high  *)
(* that the hub may set to anything, one at a time.  Reading the ADC is    *)
(* external.                                                               *)
(***************************************************************************)
EXTENDS Integers

CONSTANTS
  UInt32,     \* how many values a uint32_t has (2^32 in the build)
  MaxVoltage  \* the highest voltage the ADC reports, in mV

ASSUME VoltageAssumption ==
  UInt32 \in Nat /\ MaxVoltage \in Nat /\ 100 * MaxVoltage < UInt32

Voltage == 0..MaxVoltage

\* Where voltage lies between low and high, as unsigned arithmetic has it.
Share(voltage, low, high) ==
  (((voltage - low) * 100) % UInt32) \div (high - low)

\* The only calibration for which the code divides by zero.
DividesByZero(voltage, low, high) ==
  ~(voltage < low) /\ ~(voltage > high) /\ high = low

\* (mutant) the upper bound is not looked at
moisture_pct_unbounded(voltage, low, high) ==
  IF voltage < low THEN 100 ELSE 100 - Share(voltage, low, high)

\* convert_moisture_voltage_to_pct: the higher the voltage, the drier the soil.
moisture_pct(voltage, low, high) ==
  CASE voltage < low -> 100
    [] voltage >= low /\ voltage > high -> 0
    [] OTHER -> 100 - Share(voltage, low, high)

\* read_battery_remaining_percent
battery_pct(voltage, low, high) ==
  CASE voltage < low -> 0
    [] voltage >= low /\ voltage > high -> 100
    [] OTHER -> Share(voltage, low, high)
=============================================================================
