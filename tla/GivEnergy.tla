------------------------------ MODULE GivEnergy ------------------------------
(***************************************************************************)
(* The inverter as the integration drives it over MQTT: the state of       *)
(* charge it reports and the two forced modes it can be put in for 30      *)
(* minutes at a time.  Commands are published with QoS 0, so one may never *)
(* arrive.  The inverter keeps its timers over a restart of Home Assistant.*)
(***************************************************************************)
EXTENDS HalfHour

CONSTANTS ForceLen,         \* ticks a forced mode lasts ("30" minutes)
          Lossy             \* whether a published command may be lost

ASSUME InverterAssumption == ForceLen \in Nat \ {0} /\ Lossy \in BOOLEAN

VARIABLES soc,              \* whether _soc_kwh holds a number (not None)
          mode              \* per forced mode, the ticks left and, as history,
                            \* the plan slot that asked for it

inverterVars == <<soc, mode>>

Modes == {"charge", "export"}
Off == [left |-> 0, slot |-> 0]
ForcedTwice(s) == [left |-> 2 * ForceLen, slot |-> s]    \* asks for "60"
Forced(s) == [left |-> ForceLen, slot |-> s]

InverterTypeOK ==
  /\ soc \in BOOLEAN
  /\ mode \in [Modes -> [left : 0 .. ForceLen, slot : Nat]]

InverterInit == soc = FALSE /\ mode = [m \in Modes |-> Off]

(***************************************************************************)
(* The subscription callback: a payload that parses sets the cache, any    *)
(* other one invalidates it.                                               *)
(***************************************************************************)
OnSoc(valid) == soc # valid /\ soc' = valid /\ UNCHANGED mode

(***************************************************************************)
(* enableCharge / enableExport and disableCharge / disableExport, with     *)
(* what the inverter does on receipt.  Neither touches the other mode.     *)
(***************************************************************************)
Enable(m, s) ==
  \/ mode' = [mode EXCEPT ![m] = Forced(s)]
  \/ Lossy /\ UNCHANGED mode

Disable(m) ==
  \/ mode' = [mode EXCEPT ![m] = Off]
  \/ Lossy /\ UNCHANGED mode

(***************************************************************************)
(* One tick on the inverter: a forced mode that runs out ends by itself.   *)
(***************************************************************************)
Elapse ==
  mode' = [m \in Modes |-> IF mode[m].left > 1
                             THEN [mode[m] EXCEPT !.left = @ - 1]
                             ELSE Off]
=============================================================================
