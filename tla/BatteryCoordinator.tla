------------------------- MODULE BatteryCoordinator -------------------------
(***************************************************************************)
(* BatteryChargeCoordinator: the planner, the one-minute update cycle that *)
(* polls Axle and sends commands to the inverter, the hourly check and the *)
(* trigger_planning service.                                               *)
(*                                                                         *)
(* Everything runs on one asyncio loop, so a stretch of code between two   *)
(* awaits is one atomic step here, and anything may happen at an await.    *)
(* There is one update cycle at a time (the process Update, which also     *)
(* runs the set-up); hourly checks and service calls are tasks of their    *)
(* own.  Each of them may be inside octopus_state_change_listener at the   *)
(* same time: no lock is held across a planning run.                       *)
(***************************************************************************)
EXTENDS GivEnergy, AxleSource, FiniteSets

CONSTANTS Tasks,            \* tasks for hourly checks and service calls
          Update,           \* the process of set-up and update cycles
          Schedules,        \* the schedules the optimiser may find best
          LastSlot,         \* bound on the slots a plan may hold
          RateEnds,         \* the slots at which published rates may end
          ExpiryMargin,     \* ticks in the 2 hours of PLAN_EXPIRING
          SimulateOnly,     \* simulate_only
          MlEnabled,        \* whether an ML client is configured
          MaxTime,          \* bound on the clock
          MaxRestarts       \* bound on restarts of Home Assistant

Actions == Modes \cup {"discharge"}

ASSUME CoordinatorAssumption ==
  /\ Update \notin Tasks
  /\ LastSlot \in Nat
  /\ RateEnds \subseteq 0 .. LastSlot + 1
  /\ Schedules # {} /\ Schedules \subseteq [0 .. LastSlot -> Actions]
  /\ ExpiryMargin \in Nat /\ MaxTime \in Nat /\ MaxRestarts \in Nat
  /\ SimulateOnly \in BOOLEAN /\ MlEnabled \in BOOLEAN

VARIABLES now,              \* the clock
          plan,             \* timeslots: planned slot -> charge_option
          forced,           \* slots daily_power_forecast marks as forced
          run,              \* where each process is in a planning run
          upc,              \* where Update is in _async_setup and
                            \* _async_update_data
          ready,            \* the first refresh is over
          cycleNow,         \* now_utc of the set-up or update cycle in progress
          restarts,         \* restarts so far
          lost,             \* history: the replan the last change of windows
                            \* ordered gave no plan, and none was made since
          decided           \* history: {}, or the last cycle's decision

planVars == <<plan, forced, lost>>
cycleVars == <<upc, ready, cycleNow, decided>>
vars == <<inverterVars, axleVars, planVars, cycleVars, now, run, restarts>>

Procs == Tasks \cup {Update}

(***************************************************************************)
(* timeslots is falsy (the empty list at first, None when the optimiser    *)
(* gave nothing) exactly when no slot is planned.                          *)
(***************************************************************************)
NoPlan == [s \in {} |-> "discharge"]
HasPlan == DOMAIN plan # {}

IdleRun == [pc |-> "idle", first |-> 0, until |-> 0]

TypeOK ==
  /\ InverterTypeOK /\ AxleTypeOK
  /\ now \in Nat /\ restarts \in Nat /\ cycleNow \in Nat
  /\ DOMAIN plan \subseteq Nat /\ plan \in [DOMAIN plan -> Actions]
  /\ forced \subseteq Nat
  /\ run \in [Procs -> [pc : {"idle", "rates", "weather", "inputs", "status"},
                        first : Nat, until : 0 .. LastSlot + 1]]
  /\ upc \in {"boot", "setupAxle", "setupPlan", "failed", "idle", "cycleAxle",
              "cyclePlan", "release"}
  /\ ready \in BOOLEAN
  /\ lost \in BOOLEAN
  /\ decided \subseteq [slot : Nat, action : Actions]

Init ==
  /\ InverterInit /\ AxleInit
  /\ now = 0 /\ restarts = 0
  /\ plan = NoPlan /\ forced = {} /\ lost = FALSE
  /\ run = [p \in Procs |-> IdleRun]
  /\ upc = "boot" /\ ready = FALSE /\ cycleNow = 0 /\ decided = {}
-----------------------------------------------------------------------------
(***************************************************************************)
(* An exception ends an update cycle; the one of the first refresh fails   *)
(* the set-up.                                                             *)
(***************************************************************************)
Raised == upc' = IF ready THEN "idle" ELSE "failed"

(***************************************************************************)
(* Sending commands: the end of _async_update_data, with p the plan then   *)
(* in force.  current_active_slot takes the first match; a forced mode is  *)
(* (re)started by one message, an idle slot ends both modes by two, with   *)
(* an await between them, and each publish may raise.                      *)
(***************************************************************************)
MatchingSlots(p) == {s \in DOMAIN p : Matches(s, now)}

IsActive(p, s) == s \in MatchingSlots(p) /\ \A x \in MatchingSlots(p) : s <= x

NotSent == Lossy /\ UNCHANGED mode /\ Raised

Dispatch(p) ==
  /\ Diagnose(cycleNow')
  /\ \/ /\ SimulateOnly \/ MatchingSlots(p) = {}
        /\ upc' = "idle" /\ decided' = {} /\ UNCHANGED mode
     \/ /\ ~SimulateOnly
        /\ \E s \in MatchingSlots(p) :
             /\ IsActive(p, s)
             /\ decided' = {[slot |-> s, action |-> p[s]]}
             /\ \/ p[s] \in Modes /\ Enable(p[s], s) /\ upc' = "idle"
                \/ p[s] = "discharge" /\ Disable("charge") /\ upc' = "release"
                \/ NotSent

(***************************************************************************)
(* The second message of an idle slot.                                     *)
(***************************************************************************)
Release ==
  /\ upc = "release"
  /\ \/ Disable("export") /\ upc' = "idle"
     \/ NotSent
  /\ UNCHANGED <<soc, axleVars, planVars, ready, cycleNow, decided, now, run,
                 restarts>>
-----------------------------------------------------------------------------
(***************************************************************************)
(* The update cycle, around the planning run it may have to wait for.      *)
(* BeginCycle is the head of _async_update_data: a poll of Axle is an      *)
(* await, without one the cycle goes straight on to its commands.          *)
(***************************************************************************)
BeginCycle(p) ==
  /\ cycleNow' = now /\ ready' = (upc = "idle")
  /\ IF AxlePolled
       THEN /\ upc' = "cycleAxle" /\ decided' = {}
            /\ UNCHANGED <<mode, status, suppression>>
       ELSE Dispatch(p)

(***************************************************************************)
(* Process r leaves octopus_state_change_listener, p being the plan.  A    *)
(* task is over; set-up goes on to the first update cycle, and an update   *)
(* cycle that waited for its replan goes on to its commands.  The first    *)
(* form forgets who waits in a cycle.                                      *)
(***************************************************************************)
ReturnNotToCycle(r, p) ==
  /\ run' = [run EXCEPT ![r] = IdleRun]
  /\ UNCHANGED <<windows, changed, lastSuccess>>
  /\ \/ ~(r = Update /\ upc = "setupPlan")
        /\ UNCHANGED <<mode, status, suppression, cycleVars>>
     \/ r = Update /\ upc = "setupPlan" /\ BeginCycle(p)

Return(r, p) ==
  /\ run' = [run EXCEPT ![r] = IdleRun]
  /\ UNCHANGED <<windows, changed, lastSuccess>>
  /\ \/ r # Update /\ UNCHANGED <<mode, status, suppression, cycleVars>>
     \/ r = Update /\ upc = "setupPlan" /\ BeginCycle(p)
     \/ r = Update /\ upc = "cyclePlan" /\ UNCHANGED <<ready, cycleNow>> /\ Dispatch(p)

(***************************************************************************)
(* Entering the listener fixes the first slot of the plan: the half-hour   *)
(* that starts at or after the present moment.  The first form skips one.  *)
(***************************************************************************)
BeginLate(r) ==
  run' = [run EXCEPT ![r] =
            [pc |-> "rates", first |-> CeilSlot(now) + 1, until |-> 0]]

Begin(r) ==
  run' = [run EXCEPT ![r] = [pc |-> "rates", first |-> CeilSlot(now), until |-> 0]]

(***************************************************************************)
(* The awaits of the listener that read nothing shared: the Octopus calls, *)
(* which tell where the rates end; the weather forecast, after which the   *)
(* cached state of charge must be known; solcast and the ML prediction.    *)
(***************************************************************************)
RatesFetched(r) ==
  /\ run[r].pc = "rates"
  /\ \E e \in RateEnds :
       run' = [run EXCEPT ![r] = [pc |-> "weather", first |-> run[r].first, until |-> e]]
  /\ UNCHANGED <<inverterVars, axleVars, planVars, cycleVars, now, restarts>>

ForecastFetched(r) ==
  /\ run[r].pc = "weather"
  /\ soc
  /\ run' = [run EXCEPT ![r].pc = "inputs"]
  /\ UNCHANGED <<inverterVars, axleVars, planVars, cycleVars, now, restarts>>

(***************************************************************************)
(* A run that ends with no plan: weather.forecast_home missing, the state  *)
(* of charge unknown, or an exception at any await or in the pure code     *)
(* between them (a plan of one slot makes the optimiser raise).  Whatever  *)
(* it is, the listener logs it and returns.                                *)
(***************************************************************************)
Abandon(r) ==
  /\ run[r].pc \in {"rates", "weather", "inputs"}
  /\ Return(r, plan)
  /\ lost' = (lost \/ (r = Update /\ upc = "cyclePlan"))
  /\ UNCHANGED <<soc, plan, forced, now, restarts>>

(***************************************************************************)
(* The second pass and what follows it, with no await in between: it reads *)
(* the windows cached at this moment, whatever they were when the run      *)
(* began, and assigns the plan.  Forced slots export; for the others the   *)
(* optimiser picks from Schedules.  An ML client is asked for its status   *)
(* before the listener returns.  The first form never passes the forced    *)
(* slots to the optimiser.                                                 *)
(***************************************************************************)
CommitUnforced(r) ==
  LET slots == run[r].first .. (run[r].until - 1)
  IN /\ run[r].pc = "inputs"
     /\ run[r].first + 2 <= run[r].until
     /\ \E best \in Schedules : plan' = [s \in slots |-> best[s]]
     /\ forced' = ForcedSlots(slots, windows) /\ lost' = FALSE
     /\ Return(r, plan')
     /\ UNCHANGED <<soc, now, restarts>>

Commit(r) ==
  LET slots == run[r].first .. (run[r].until - 1)
      must  == ForcedSlots(slots, windows)
  IN /\ run[r].pc = "inputs"
     /\ run[r].first + 2 <= run[r].until /\ must # slots
     /\ \E best \in Schedules :
          plan' = [s \in slots |-> IF s \in must THEN "export" ELSE best[s]]
     /\ forced' = must /\ lost' = FALSE
     /\ IF MlEnabled
          THEN /\ run' = [run EXCEPT ![r].pc = "status"]
               /\ UNCHANGED <<axleVars, cycleVars, mode>>
          ELSE Return(r, plan')
     /\ UNCHANGED <<soc, now, restarts>>

(***************************************************************************)
(* evaluate() has no choice to make, because there is no slot or every one *)
(* is forced or free of charge: it returns None, which is assigned to      *)
(* timeslots before the cost calculation trips over it.                    *)
(***************************************************************************)
DropPlan(r) ==
  LET slots == run[r].first .. (run[r].until - 1)
  IN /\ run[r].pc = "inputs"
     /\ plan' = NoPlan
     /\ forced' = ForcedSlots(slots, windows)
     /\ Return(r, NoPlan)
     /\ lost' = (lost \/ (r = Update /\ upc = "cyclePlan"))
     /\ UNCHANGED <<soc, now, restarts>>

StatusRefreshed(r) ==
  /\ run[r].pc = "status"
  /\ Return(r, plan)
  /\ UNCHANGED <<soc, planVars, now, restarts>>

RunStep(r) ==
  \/ RatesFetched(r) \/ ForecastFetched(r) \/ Abandon(r)
  \/ Commit(r) \/ DropPlan(r) \/ StatusRefreshed(r)
-----------------------------------------------------------------------------
(***************************************************************************)
(* Set-up: poll Axle once, plan, then run the first update cycle.  An      *)
(* event that does not parse fails the set-up, which Home Assistant        *)
(* retries with a new coordinator.  The first form hands the plan on to it;*)
(* the first form of SetupPolled clears the flag, as a plan comes next.    *)
(***************************************************************************)
NewCoordinatorOldPlan ==
  /\ soc' = FALSE
  /\ windows' = {} /\ changed' = FALSE /\ lastSuccess' = Never
  /\ status' = "unavailable" /\ suppression' = "none"
  /\ lost' = FALSE /\ UNCHANGED <<plan, forced>>
  /\ run' = [p \in Procs |-> IdleRun]
  /\ upc' = "boot" /\ ready' = FALSE /\ cycleNow' = 0 /\ decided' = {}

NewCoordinator ==
  /\ soc' = FALSE
  /\ windows' = {} /\ changed' = FALSE /\ lastSuccess' = Never
  /\ status' = "unavailable" /\ suppression' = "none"
  /\ plan' = NoPlan /\ forced' = {} /\ lost' = FALSE
  /\ run' = [p \in Procs |-> IdleRun]
  /\ upc' = "boot" /\ ready' = FALSE /\ cycleNow' = 0 /\ decided' = {}

Boot ==
  /\ upc = "boot"
  /\ cycleNow' = now
  /\ IF AxlePolled THEN upc' = "setupAxle" /\ UNCHANGED run
                   ELSE upc' = "setupPlan" /\ Begin(Update)
  /\ UNCHANGED <<inverterVars, axleVars, planVars, ready, decided, now, restarts>>

SetupPolledCleared ==
  /\ upc = "setupAxle"
  /\ Polled(cycleNow) /\ changed' = FALSE /\ UNCHANGED suppression
  /\ Begin(Update) /\ upc' = "setupPlan"
  /\ UNCHANGED <<inverterVars, planVars, ready, cycleNow, decided, now, restarts>>

SetupPolled ==
  /\ upc = "setupAxle"
  /\ Polled(cycleNow) /\ changed' = WindowsChanged /\ UNCHANGED suppression
  /\ Begin(Update) /\ upc' = "setupPlan"
  /\ UNCHANGED <<inverterVars, planVars, ready, cycleNow, decided, now, restarts>>

SetupFailed ==
  /\ upc = "setupAxle"
  /\ Raised
  /\ UNCHANGED <<inverterVars, axleVars, planVars, ready, cycleNow, decided, now,
                 run, restarts>>

SetupRetried ==
  /\ upc = "failed"
  /\ NewCoordinator
  /\ UNCHANGED <<mode, now, restarts>>

(***************************************************************************)
(* The update cycle.  When the poll is back and the windows have changed,  *)
(* the flag is cleared and the cycle waits for a replan; otherwise it sends*)
(* its commands, as the form without a replan always does.  An event that  *)
(* does not parse raises out of the cycle.                                 *)
(***************************************************************************)
StartCycle ==
  /\ upc = "idle"
  /\ UNCHANGED <<soc, windows, changed, lastSuccess, planVars, now, run, restarts>>
  /\ BeginCycle(plan)

CyclePolledNoReplan ==
  /\ upc = "cycleAxle"
  /\ Polled(cycleNow) /\ changed' = FALSE
  /\ UNCHANGED <<soc, planVars, ready, cycleNow, now, run, restarts>>
  /\ Dispatch(plan)

CyclePolled ==
  /\ upc = "cycleAxle"
  /\ Polled(cycleNow) /\ changed' = FALSE
  /\ UNCHANGED <<soc, planVars, ready, cycleNow, now, restarts>>
  /\ \/ /\ WindowsChanged
        /\ Begin(Update) /\ upc' = "cyclePlan"
        /\ UNCHANGED <<mode, suppression, decided>>
     \/ /\ ~WindowsChanged
        /\ Dispatch(plan) /\ UNCHANGED run

CycleFailed ==
  /\ upc = "cycleAxle"
  /\ Raised
  /\ UNCHANGED <<inverterVars, axleVars, planVars, ready, cycleNow, decided, now,
                 run, restarts>>

(***************************************************************************)
(* The hourly check.  _should_replan wants a plan that still runs for more *)
(* than two hours, a known state of charge, a slot that is active, and a   *)
(* battery within 10 % of its projection: the deviation is not modelled,   *)
(* so with a known state of charge a replan is always possible.            *)
(***************************************************************************)
PlanExpiring ==
  \A s \in DOMAIN plan : SlotEnd(s) <= now + ExpiryMargin

ShouldReplan == ~HasPlan \/ PlanExpiring \/ soc

PlanningTimer(r) ==
  /\ upc \notin {"boot", "setupAxle", "setupPlan"}
  /\ run[r].pc = "idle"
  /\ ShouldReplan
  /\ Begin(r)
  /\ UNCHANGED <<inverterVars, axleVars, planVars, cycleVars, now, restarts>>

(***************************************************************************)
(* The service is registered before the first refresh.                     *)
(***************************************************************************)
TriggerPlanning(r) ==
  /\ run[r].pc = "idle"
  /\ Begin(r)
  /\ UNCHANGED <<inverterVars, axleVars, planVars, cycleVars, now, restarts>>

(***************************************************************************)
(* The environment: time, reports of the state of charge, and a restart of *)
(* Home Assistant, which keeps nothing of the plan and of the Axle cache   *)
(* and leaves the inverter as it is.                                       *)
(***************************************************************************)
Tick ==
  /\ now < MaxTime
  /\ now' = now + 1
  /\ Elapse
  /\ UNCHANGED <<soc, axleVars, planVars, cycleVars, run, restarts>>

SocReport ==
  /\ \E valid \in BOOLEAN : OnSoc(valid)
  /\ UNCHANGED <<axleVars, planVars, cycleVars, now, run, restarts>>

Restart ==
  /\ restarts < MaxRestarts
  /\ restarts' = restarts + 1
  /\ NewCoordinator
  /\ UNCHANGED <<mode, now>>

Next ==
  \/ Boot \/ SetupPolled \/ SetupFailed \/ SetupRetried
  \/ StartCycle \/ CyclePolled \/ CycleFailed \/ Release
  \/ \E r \in Procs : RunStep(r)
  \/ \E r \in Tasks : PlanningTimer(r) \/ TriggerPlanning(r)
  \/ Tick \/ SocReport \/ Restart

Spec == Init /\ [][Next]_vars
-----------------------------------------------------------------------------
(***************************************************************************)
(* The plan in force, and the slots the forecast marks as forced, are those*)
(* the cached Axle windows ask for, except while a change of windows is    *)
(* still to be handled, while the replan it ordered is running, and after  *)
(* that replan failed.  Holds although the flag is cleared before the      *)
(* replan (coordinators.py:859-864) and other runs commit in between.      *)
(***************************************************************************)
Follows ==
  /\ forced = ForcedSlots(DOMAIN plan, windows)
  /\ \A s \in forced : plan[s] = "export"

PlanFollowsWindows ==
  HasPlan /\ ~changed /\ upc # "cyclePlan" /\ ~lost => Follows

(***************************************************************************)
(* No forced mode outlives by more than ForceLen the half-hour of the plan *)
(* that asked for it: whatever is lost, late, replanned, dropped or        *)
(* restarted afterwards, the 30-minute commands of enableCharge and        *)
(* enableExport run out.                                                   *)
(***************************************************************************)
ForcedModeBounded ==
  \A m \in Modes :
    mode[m].left > 0 => now + mode[m].left <= SlotEnd(mode[m].slot) + ForceLen

(***************************************************************************)
(* A cycle never decides to charge or to idle in a half-hour an Axle export*)
(* window overlaps, unless the replan for that window failed: this is what *)
(* planning-adjustment mode promises in place of suppression.              *)
(***************************************************************************)
AxleExportObeyed ==
  [][decided' # decided /\ ~lost'
       => \A d \in decided' :
            ForcedSlots({d.slot}, windows') # {} => d.action = "export"]_vars

(***************************************************************************)
(* Planning, seen through its clock, its windows and its plan, is atomic.  *)
(***************************************************************************)
Planner == INSTANCE AtomicPlanner WITH now <- now, windows <- windows, plan <- plan
PlansAtomically == Planner!Spec

-----------------------------------------------------------------------------
(***************************************************************************)
(* Fairness.  The loop runs what is ready and the requests of a planning   *)
(* run time out, so set-up and the update cycle go on; Axle does not answer*)
(* with events that do not parse for ever.  Nothing is assumed of hourly   *)
(* checks, service calls, reports of the state of charge or restarts.      *)
(***************************************************************************)
Fairness ==
  /\ WF_vars(Boot) /\ WF_vars(SetupRetried) /\ WF_vars(StartCycle) /\ WF_vars(Release)
  /\ WF_vars(RunStep(Update))
  /\ SF_vars(SetupPolled) /\ SF_vars(CyclePolled)

FairSpec == Spec /\ Fairness

(***************************************************************************)
(* Set-up and every update cycle come to their end, whatever other planning*)
(* runs are under way: a cycle that waits for its replan never waits for   *)
(* another task, so no two processes can wait for each other.              *)
(***************************************************************************)
CycleEnds == upc # "idle" ~> upc = "idle"

(***************************************************************************)
(* Whenever a poll has changed the windows, or the plan does not follow    *)
(* them, there comes to be a plan that does: through a set-up whose own    *)
(* planning fails, cycles that raise at their poll, windows that change    *)
(* again, and other runs that commit or drop a plan in between.  Unless the*)
(* replan a cycle ordered for them fails, which nothing retries            *)
(* (coordinators.py:860), or the coordinator is replaced by a new one.     *)
(***************************************************************************)
Behind ==
  \/ changed
  \/ upc = "cyclePlan" /\ run[Update].pc # "status"
  \/ HasPlan /\ ~Follows

PlanCatchesUp ==
  Behind
    ~> \/ HasPlan /\ Follows
       \/ lost /\ upc # "cyclePlan"
       \/ upc = "boot"

-----------------------------------------------------------------------------
(***************************************************************************)
(* What the documentation says and the code does not do.                   *)
(*                                                                         *)
(* README.md:27: dispatch of enableCharge and enableExport is suppressed   *)
(* while an Axle window is active; README.md:39: and, in mode "closed",    *)
(* while the source is unavailable.                                        *)
(***************************************************************************)
SuppressedDispatch ==
  [][\A d \in decided' :
       decided' # decided /\ d.action \in Modes => suppression' = "none"]_vars

(***************************************************************************)
(* _docs/how-it-works.md:106: a fresh plan is always generated on startup. *)
(***************************************************************************)
PlannedAtStartup ==
  [][upc = "setupPlan" /\ upc' \notin {"setupPlan", "boot"} => HasPlan']_vars
=============================================================================
