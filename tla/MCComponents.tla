---------------------------- MODULE MCComponents ----------------------------
(***************************************************************************)
(* The components that keep to themselves, each on its small instance in   *)
(* one run: the part that moves is chosen at the start.                    *)
(***************************************************************************)
EXTENDS ConfigFlow, AxleClient, BatteryLevel, ScheduleSearch, OctopusTariffs,
        RateReplay, TrainingData, Lifecycle, RateSlots, StandingCharges

VARIABLE part

MCForcedTo == [i \in {1} |-> "discharge"]
MCCost(s) == CASE s[2] = "charge" -> 2 [] s[2] = "export" -> 0 [] OTHER -> 1
MCAgreements == {[code |-> "A", from |-> 0, to |-> 2, export |-> FALSE],
                 [code |-> "B", from |-> 2, to |-> Open, export |-> FALSE],
                 [code |-> "X", from |-> 1, to |-> Open, export |-> TRUE]}
MCPrices == {-1, 2}
MCUnitRates == {1, 2, 3}
MCUsages == {1, 2}
MCActions == {"charge", "export", "discharge"}

ComponentsInit ==
  /\ part \in {"ConfigFlow", "AxleClient", "BatteryLevel", "ScheduleSearch",
              "OctopusTariffs", "RateReplay", "TrainingData", "Lifecycle", "RateSlots",
              "StandingCharges"}
  /\ FlowInit /\ AxleClientInit /\ LevelInit /\ SearchInit
  /\ OctopusInit /\ RateInit /\ CleanInit /\ LifeInit /\ SlotInit /\ StandingInit

ComponentsNext ==
  \/ /\ part = "ConfigFlow" /\ FlowNext
     /\ UNCHANGED <<part, fetchVars, levelVars, searchVars, tariffVars,
                    rateVars, cleanVars, lifeVars, slotVars, standingVars>>
  \/ /\ part = "AxleClient" /\ AxleClientNext
     /\ UNCHANGED <<part, flowVars, levelVars, searchVars, tariffVars,
                    rateVars, cleanVars, lifeVars, slotVars, standingVars>>
  \/ /\ part = "BatteryLevel" /\ LevelNext
     /\ UNCHANGED <<part, flowVars, fetchVars, searchVars, tariffVars,
                    rateVars, cleanVars, lifeVars, slotVars, standingVars>>
  \/ /\ part = "ScheduleSearch" /\ SearchNext
     /\ UNCHANGED <<part, flowVars, fetchVars, levelVars, tariffVars,
                    rateVars, cleanVars, lifeVars, slotVars, standingVars>>
  \/ /\ part = "OctopusTariffs" /\ OctopusNext
     /\ UNCHANGED <<part, flowVars, fetchVars, levelVars, searchVars,
                    rateVars, cleanVars, lifeVars, slotVars, standingVars>>
  \/ /\ part = "RateReplay" /\ RateNext
     /\ UNCHANGED <<part, flowVars, fetchVars, levelVars, searchVars,
                    tariffVars, cleanVars, lifeVars, slotVars, standingVars>>
  \/ /\ part = "TrainingData" /\ CleanNext
     /\ UNCHANGED <<part, flowVars, fetchVars, levelVars, searchVars,
                    tariffVars, rateVars, lifeVars, slotVars, standingVars>>
  \/ /\ part = "Lifecycle" /\ LifeNext
     /\ UNCHANGED <<part, flowVars, fetchVars, levelVars, searchVars,
                    tariffVars, rateVars, cleanVars, slotVars, standingVars>>
  \/ /\ part = "RateSlots" /\ SlotNext
     /\ UNCHANGED <<part, flowVars, fetchVars, levelVars, searchVars,
                    tariffVars, rateVars, cleanVars, lifeVars, standingVars>>
  \/ /\ part = "StandingCharges" /\ StandingNext
     /\ UNCHANGED <<part, flowVars, fetchVars, levelVars, searchVars,
                    tariffVars, rateVars, cleanVars, lifeVars, slotVars>>

componentVars == <<part, flowVars, fetchVars, levelVars, searchVars, tariffVars,
                   rateVars, cleanVars, lifeVars, slotVars, standingVars>>

ComponentsSpec == ComponentsInit /\ [][ComponentsNext]_componentVars

(***************************************************************************)
(* Every component keeps to the states it is described with.               *)
(***************************************************************************)
ComponentsTypeOK ==
  /\ FlowTypeOK /\ AxleClientTypeOK /\ LevelTypeOK /\ SearchTypeOK
  /\ OctopusTypeOK /\ RateTypeOK /\ CleanTypeOK /\ LifeTypeOK /\ SlotTypeOK
  /\ StandingTypeOK
=============================================================================
