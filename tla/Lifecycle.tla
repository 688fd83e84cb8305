----------------------------- MODULE Lifecycle -----------------------------
(***************************************************************************)
(* async_setup_entry and async_unload_entry of the integration: what a     *)
(* set-up leaves behind when it fails half way, and what an unload leaves. *)
(* Home Assistant sets up and unloads an entry one at a time; it retries a *)
(* set-up that was not ready, and the user changes options, which reloads. *)
(***************************************************************************)
EXTENDS Integers

CONSTANTS MaxSetups      \* bound on set-ups

ASSUME LifecycleAssumption == MaxSetups \in Nat

VARIABLES stage,         \* where the entry is
          inst,          \* the coordinator of the last set-up, by number
          compared,      \* tariff_comparison_enabled
          data,          \* hass.data: coordinator and tariff coordinator
          subscribed,    \* coordinators whose SOC subscription is alive
          handler,       \* the coordinator the services act on
          halfway        \* history: coordinators whose set-up failed

lifeVars == <<stage, inst, compared, data, subscribed, handler, halfway>>

Insts == 0 .. MaxSetups  \* 0 for none

LifeTypeOK ==
  /\ stage \in {"out", "waiting", "subscribed", "registered", "compared", "refreshed",
                "loaded", "stuck"}
  /\ inst \in Insts /\ compared \in BOOLEAN
  /\ data \in [planner : Insts, tariff : Insts]
  /\ subscribed \subseteq Insts /\ handler \in Insts /\ halfway \subseteq Insts

LifeInit ==
  /\ stage = "out" /\ inst = 0 /\ compared = FALSE
  /\ data = [planner |-> 0, tariff |-> 0]
  /\ subscribed = {} /\ handler = 0 /\ halfway = {}
-----------------------------------------------------------------------------
SetupStarts ==
  /\ stage = "out" /\ inst < MaxSetups
  /\ inst' = inst + 1 /\ stage' = "waiting"
  /\ UNCHANGED <<compared, data, subscribed, handler, halfway>>

(***************************************************************************)
(* ConfigEntryNotReady: MQTT is not there, or a first refresh fails, of    *)
(* the tariffs or the planner.  What the set-up had done by then stays.    *)
(***************************************************************************)
NotReady ==
  /\ stage \in {"waiting", "compared"}
  /\ stage' = "out" /\ halfway' = halfway \cup {inst}
  /\ UNCHANGED <<inst, compared, data, subscribed, handler>>

MqttReady ==
  /\ stage = "waiting" /\ stage' = "subscribed"
  /\ subscribed' = subscribed \cup {inst}
  /\ UNCHANGED <<inst, compared, data, handler, halfway>>

(***************************************************************************)
(* hass.data and the services.  async_register puts the new handler in the *)
(* place of the old one (the first form keeps a service that is there).    *)
(***************************************************************************)
RegisteredOnce ==
  /\ stage = "subscribed" /\ stage' = "registered"
  /\ data' = [data EXCEPT !.planner = inst]
  /\ handler' = IF handler = 0 THEN inst ELSE handler
  /\ UNCHANGED <<inst, compared, subscribed, halfway>>

Registered ==
  /\ stage = "subscribed" /\ stage' = "registered"
  /\ data' = [data EXCEPT !.planner = inst] /\ handler' = inst
  /\ UNCHANGED <<inst, compared, subscribed, halfway>>

(***************************************************************************)
(* async_setup_tariff_coordinator: put in hass.data before its refresh;    *)
(* nothing is taken out when the comparison is off.                        *)
(***************************************************************************)
TariffSetup ==
  /\ stage = "registered" /\ stage' = "compared"
  /\ data' = IF compared THEN [data EXCEPT !.tariff = inst] ELSE data
  /\ UNCHANGED <<inst, compared, subscribed, handler, halfway>>

FirstRefresh ==
  /\ stage = "compared" /\ stage' = "refreshed"
  /\ UNCHANGED <<inst, compared, data, subscribed, handler, halfway>>

PlatformsSetup ==
  /\ stage = "refreshed" /\ stage' = "loaded"
  /\ UNCHANGED <<inst, compared, data, subscribed, handler, halfway>>

(***************************************************************************)
(* Options are changed at any time, but only a loaded entry hears of it,   *)
(* and is reloaded: a change during the set-up is not seen until the next. *)
(* An unload stops the coordinator it takes out of hass.data (the first    *)
(* form only takes it out); when the sensors cannot be unloaded nothing    *)
(* happens.                                                                *)
(***************************************************************************)
UnloadedOnly ==
  /\ stage = "loaded" /\ stage' = "out"
  /\ data' = [data EXCEPT !.planner = 0]
  /\ compared' \in BOOLEAN
  /\ UNCHANGED <<inst, subscribed, handler, halfway>>

Unloaded ==
  /\ stage = "loaded" /\ stage' = "out"
  /\ data' = [data EXCEPT !.planner = 0]
  /\ subscribed' = subscribed \ {data.planner}
  /\ compared' \in BOOLEAN
  /\ UNCHANGED <<inst, handler, halfway>>

UnloadFails ==
  /\ stage = "loaded" /\ stage' = "stuck"
  /\ compared' \in BOOLEAN
  /\ UNCHANGED <<inst, data, subscribed, handler, halfway>>

OptionsChanged ==
  /\ stage # "loaded" /\ compared' = ~compared
  /\ UNCHANGED <<stage, inst, data, subscribed, handler, halfway>>

LifeNext ==
  \/ SetupStarts \/ NotReady \/ MqttReady \/ Registered \/ TariffSetup
  \/ FirstRefresh \/ PlatformsSetup \/ Unloaded \/ UnloadFails \/ OptionsChanged

LifeSpec == LifeInit /\ [][LifeNext]_lifeVars
-----------------------------------------------------------------------------
(***************************************************************************)
(* Whatever set-ups failed, were retried or reloaded before: the planner   *)
(* in hass.data and behind the services of a loaded entry is the one of    *)
(* its last set-up, and that one hears the inverter.  Planners of failed   *)
(* set-ups may hear it beside it.                                          *)
(***************************************************************************)
OneCoordinator ==
  stage = "loaded" => data.planner = inst /\ handler = inst /\ inst \in subscribed

(***************************************************************************)
(* A subscription to the state of charge belongs to the set-up that goes   *)
(* on or is loaded, or to one that failed half way: an unload ends that of *)
(* the planner it unloads.                                                 *)
(***************************************************************************)
OnlyHalfwayLeft ==
  \A i \in subscribed : i \in halfway \/ (i = inst /\ stage \notin {"out", "waiting"})
=============================================================================
