---------------------------- MODULE BatteryLevel ----------------------------
(***************************************************************************)
(* GeneticEvaluator.evaluate_schedule: the battery through the slots of a  *)
(* schedule.  Any action may be scheduled in any slot and any demand and   *)
(* solar be forecast, so every schedule and every forecast is walked.      *)
(* Energy is counted in units; prices are left out: bought is what a slot  *)
(* bills at the import price, sold what it credits at the export price.    *)
(***************************************************************************)
EXTENDS Integers

CONSTANTS Capacity,      \* max_battery_capacity
          MaxPerSlot,    \* max_charge_per_slot, and max_discharge
          MaxDemand,     \* bound on demand - solar
          MaxSurplus,    \* bound on solar - demand
          MaxStart       \* bound on the state of charge the inverter reports

ASSUME BatteryAssumption ==
  /\ Capacity \in Nat /\ MaxPerSlot \in Nat /\ MaxDemand \in Nat /\ MaxSurplus \in Nat
  /\ MaxStart \in Nat

VARIABLES battery,       \* the battery after the last slot, or before the first
          slot           \* the last slot: battery before it, net demand, and
                         \* what it bought and sold

levelVars == <<battery, slot>>

NoSlot == [before |-> 0, net |-> 0, bought |-> 0, sold |-> 0]
Nets == -MaxSurplus .. MaxDemand

LevelTypeOK ==
  /\ battery \in Int
  /\ slot \in [before : Int, net : Nets, bought : Int, sold : Int]

LevelInit == battery = 0 /\ slot = NoSlot

AtLeast0(x) == IF x > 0 THEN x ELSE 0
Lesser(x, y) == IF x < y THEN x ELSE y

(***************************************************************************)
(* evaluate_schedule starts from battery_start, as the inverter reports    *)
(* it: more than the capacity that is configured, if it says so.           *)
(***************************************************************************)
EvaluationStarts ==
  /\ battery' \in 0 .. MaxStart
  /\ slot' = [before |-> battery', net |-> 0, bought |-> 0, sold |-> 0]

(***************************************************************************)
(* _evaluate_single_slot, "charge".  The room for a charge counts the net  *)
(* demand.  What is above the capacity after a full charge is billed too.  *)
(* A surplus of the sun fills what room there still is.                    *)
(***************************************************************************)
ChargeAmount(net) == AtLeast0(Lesser(MaxPerSlot, Capacity - battery + net))

Charge(net) ==
  LET charged == battery + ChargeAmount(net)
      toBattery == Lesser(-net, AtLeast0(Capacity - charged))
  IN /\ battery' = IF net < 0 THEN Lesser(charged + toBattery, Capacity) ELSE charged
     /\ slot' = [before |-> battery, net |-> net,
                 bought |-> ChargeAmount(net)
                              + AtLeast0(battery + MaxPerSlot - Capacity + net),
                 sold |-> IF net < 0 THEN -net - toBattery ELSE 0]

(***************************************************************************)
(* "export".  The first form credits a full discharge, whatever there is.  *)
(***************************************************************************)
ExportFull(net) ==
  LET out == AtLeast0(Lesser(MaxPerSlot - net, battery))
  IN /\ battery' = battery - out
     /\ slot' = [before |-> battery, net |-> net,
                 bought |-> AtLeast0(MaxPerSlot - out), sold |-> MaxPerSlot - net]

Export(net) ==
  LET out == AtLeast0(Lesser(MaxPerSlot - net, battery))
  IN /\ battery' = battery - out
     /\ slot' = [before |-> battery, net |-> net,
                 bought |-> AtLeast0(MaxPerSlot - out), sold |-> out - net]

(***************************************************************************)
(* "discharge": the battery meets the net demand, or takes the surplus; at *)
(* the end of the slot what is above the capacity is sold (the first form  *)
(* keeps it too).                                                          *)
(***************************************************************************)
DischargeUncapped(net) ==
  LET left == battery - Lesser(battery, net)
  IN /\ battery' = left
     /\ slot' = [before |-> battery, net |-> net,
                 bought |-> AtLeast0(net - battery), sold |-> AtLeast0(left - Capacity)]

Discharge(net) ==
  LET left == battery - Lesser(battery, net)
  IN /\ battery' = Lesser(left, Capacity)
     /\ slot' = [before |-> battery, net |-> net,
                 bought |-> IF left > Capacity THEN 0 ELSE AtLeast0(net - battery),
                 sold |-> AtLeast0(left - Capacity)]

LevelNext ==
  \/ EvaluationStarts
  \/ \E net \in Nets : Charge(net) \/ Export(net) \/ Discharge(net)

LevelSpec == LevelInit /\ [][LevelNext]_levelVars
-----------------------------------------------------------------------------
(***************************************************************************)
(* Over a whole schedule the battery never goes below empty, and what a    *)
(* charge leaves above the capacity never adds up: it stays within the net *)
(* demand of one slot, or what was reported before the first.              *)
(***************************************************************************)
LevelInReach ==
  0 <= battery /\ (battery <= Capacity + MaxDemand \/ battery <= MaxStart)

(***************************************************************************)
(* A slot sells no energy that neither left the battery nor came from the  *)
(* sun in that slot.                                                       *)
(***************************************************************************)
SoldIsThere ==
  slot.sold <= AtLeast0(slot.before - battery) + AtLeast0(-slot.net)

(***************************************************************************)
(* Energy a slot used, stored or sold that was neither in the battery nor  *)
(* from the sun has been bought.  What is left unpaid is the net demand of *)
(* the house while the battery charges, and nothing else: neither charged  *)
(* nor sold energy is ever free.                                           *)
(***************************************************************************)
Unpaid == battery + slot.net + slot.sold - slot.before - slot.bought

OnlyDemandUnpaid == Unpaid > 0 => Unpaid <= slot.net /\ battery >= slot.before
=============================================================================
