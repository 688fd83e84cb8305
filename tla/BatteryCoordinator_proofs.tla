---------------------- MODULE BatteryCoordinator_proofs ----------------------
(***************************************************************************)
(* Theorems about BatteryCoordinator, for every value of its constants     *)
(* that meets the assumptions of GivEnergy, AxleSource, HalfHour and       *)
(* BatteryCoordinator. In order: types; ForcedModeBounded;                 *)
(* PlanFollowsWindows; AxleExportObeyed; the refinement of AtomicPlanner.  *)
(***************************************************************************)
EXTENDS BatteryCoordinator, TLAPS

(***************************************************************************)
(* Every slot of the grid has a start and, later, an end.                  *)
(***************************************************************************)
LEMMA SlotTyped ==
  \A s \in Nat :
    /\ SlotStart(s) \in Nat /\ SlotEnd(s) \in Nat
    /\ SlotStart(s) < SlotEnd(s)
  BY SlotLenAssumption DEF SlotStart, SlotEnd
(***************************************************************************)
(* ceil_dt yields a slot of the grid.                                      *)
(***************************************************************************)
LEMMA CeilTyped == \A t \in Nat : CeilSlot(t) \in Nat
  BY SlotLenAssumption DEF CeilSlot

(***************************************************************************)
(* Names for the parts of TypeOK the lemmas below hand to each other.      *)
(***************************************************************************)
ModeType == [Modes -> [left : 0 .. ForceLen, slot : Nat]]
IsPlan(p) == DOMAIN p \subseteq Nat /\ p \in [DOMAIN p -> Actions]

(***************************************************************************)
(* What each piece of an action leaves of its part of the state: the       *)
(* commands, the inverter's timers and the diagnosis of the Axle source.   *)
(***************************************************************************)
LEMMA EnableTyped ==
  ASSUME mode \in ModeType, NEW m \in Modes, NEW s \in Nat, Enable(m, s)
  PROVE  mode' \in ModeType
  BY InverterAssumption DEF Enable, Forced, ModeType, Modes

LEMMA DisableTyped ==
  ASSUME mode \in ModeType, NEW m \in Modes, Disable(m)
  PROVE  mode' \in ModeType
  BY InverterAssumption DEF Disable, Off, ModeType, Modes

LEMMA ElapseTyped ==
  ASSUME mode \in ModeType, Elapse
  PROVE  mode' \in ModeType
<1>1. ASSUME NEW m \in Modes
      PROVE  (IF mode[m].left > 1 THEN [mode[m] EXCEPT !.left = @ - 1] ELSE Off)
               \in [left : 0 .. ForceLen, slot : Nat]
  <2>1. mode[m] \in [left : 0 .. ForceLen, slot : Nat]
    BY DEF ModeType
  <2>2. Off \in [left : 0 .. ForceLen, slot : Nat]
    BY InverterAssumption DEF Off
  <2>3. mode[m].left > 1
          => [mode[m] EXCEPT !.left = @ - 1] \in [left : 0 .. ForceLen, slot : Nat]
    BY <2>1, InverterAssumption
  <2> QED BY <2>2, <2>3
<1> QED BY <1>1 DEF Elapse, ModeType

LEMMA DiagnoseTyped ==
  ASSUME NEW t, Diagnose(t)
  PROVE  /\ status' \in {"fresh", "stale", "unavailable"}
         /\ suppression' \in {"none", "active_window", "source_unavailable"}
  BY DEF Diagnose, SourceStatus

(***************************************************************************)
(* Sending commands for a well-formed plan leaves the variables it touches *)
(* well-formed, whatever is lost or raised.                                *)
(***************************************************************************)
CmdTyped ==
  /\ mode' \in ModeType
  /\ status' \in {"fresh", "stale", "unavailable"}
  /\ suppression' \in {"none", "active_window", "source_unavailable"}
  /\ decided' \subseteq [slot : Nat, action : Actions]

LEMMA DispatchTyped ==
  ASSUME mode \in ModeType, NEW p, IsPlan(p), Dispatch(p)
  PROVE  CmdTyped /\ upc' \in {"idle", "release", "failed"}
<1>1. /\ status' \in {"fresh", "stale", "unavailable"}
      /\ suppression' \in {"none", "active_window", "source_unavailable"}
  BY DiagnoseTyped DEF Dispatch
<1>2. CASE /\ SimulateOnly \/ MatchingSlots(p) = {}
           /\ upc' = "idle" /\ decided' = {} /\ UNCHANGED mode
  BY <1>1, <1>2 DEF CmdTyped
<1>3. ASSUME NEW s \in MatchingSlots(p),
             decided' = {[slot |-> s, action |-> p[s]]},
             \/ p[s] \in Modes /\ Enable(p[s], s) /\ upc' = "idle"
             \/ p[s] = "discharge" /\ Disable("charge") /\ upc' = "release"
             \/ NotSent
      PROVE  CmdTyped /\ upc' \in {"idle", "release", "failed"}
  <2>1. s \in Nat /\ p[s] \in Actions
    BY DEF MatchingSlots, IsPlan
  <2>2. decided' \subseteq [slot : Nat, action : Actions]
    BY <1>3, <2>1
  <2>3. mode' \in ModeType /\ upc' \in {"idle", "release", "failed"}
    BY <1>3, <2>1, EnableTyped, DisableTyped DEF NotSent, Raised, Modes
  <2> QED BY <1>1, <2>2, <2>3 DEF CmdTyped
<1> QED BY <1>2, <1>3 DEF Dispatch

(***************************************************************************)
(* The same for a planning run that begins or returns, and for a poll.     *)
(***************************************************************************)
RunType ==
  [Procs -> [pc : {"idle", "rates", "weather", "inputs", "status"},
             first : Nat, until : 0 .. LastSlot + 1]]
UpcType ==
  {"boot", "setupAxle", "setupPlan", "failed", "idle", "cycleAxle", "cyclePlan",
   "release"}

LEMMA BeginTyped ==
  ASSUME TypeOK, NEW r \in Procs, Begin(r)
  PROVE  run' \in RunType
<1>1. CeilSlot(now) \in Nat
  BY CeilTyped DEF TypeOK
<1> QED BY <1>1, CoordinatorAssumption DEF TypeOK, Begin, RunType

LEMMA BeginCycleTyped ==
  ASSUME TypeOK, NEW p, IsPlan(p), BeginCycle(p)
  PROVE  /\ CmdTyped /\ upc' \in UpcType
         /\ ready' \in BOOLEAN /\ cycleNow' \in Nat
<1>1. mode \in ModeType
  BY DEF TypeOK, InverterTypeOK, ModeType
<1>2. ready' \in BOOLEAN /\ cycleNow' \in Nat
  BY DEF TypeOK, BeginCycle
<1>3. CASE AxlePolled
  BY <1>1, <1>2, <1>3 DEF BeginCycle, TypeOK, AxleTypeOK, CmdTyped, UpcType
<1>4. CASE ~AxlePolled
  BY <1>1, <1>2, <1>4, DispatchTyped DEF BeginCycle, UpcType
<1> QED BY <1>3, <1>4

LEMMA ReturnTyped ==
  ASSUME TypeOK, NEW r \in Procs, NEW p, IsPlan(p), Return(r, p)
  PROVE  /\ run' \in RunType /\ AxleTypeOK'
         /\ CmdTyped /\ upc' \in UpcType
         /\ ready' \in BOOLEAN /\ cycleNow' \in Nat
<1>1. run' \in RunType
  BY CoordinatorAssumption DEF TypeOK, Return, IdleRun, RunType
<1>2. mode \in ModeType
  BY DEF TypeOK, InverterTypeOK, ModeType
<1>3. /\ CmdTyped /\ upc' \in UpcType
      /\ ready' \in BOOLEAN /\ cycleNow' \in Nat
  <2>1. CASE r # Update /\ UNCHANGED <<mode, status, suppression, cycleVars>>
    BY <1>2, <2>1 DEF TypeOK, AxleTypeOK, CmdTyped, UpcType, cycleVars
  <2>2. CASE BeginCycle(p)
    BY <2>2, BeginCycleTyped
  <2>3. CASE UNCHANGED <<ready, cycleNow>> /\ Dispatch(p)
    BY <1>2, <2>3, DispatchTyped DEF TypeOK, UpcType
  <2> QED BY <2>1, <2>2, <2>3 DEF Return
<1>4. UNCHANGED <<windows, changed, lastSuccess>>
  BY DEF Return
<1> QED BY <1>1, <1>3, <1>4 DEF TypeOK, AxleTypeOK, CmdTyped

LEMMA PolledTyped ==
  ASSUME AxleTypeOK, NEW t \in Nat, Polled(t)
  PROVE  /\ windows' \in Reported /\ lastSuccess' \in Nat \cup {Never}
         /\ status' \in {"fresh", "stale", "unavailable"}
  BY DEF Polled, AxleTypeOK, SourceStatus

(***************************************************************************)
(* A commit assigns a well-formed plan: its slots lie on the grid the      *)
(* schedules are defined on.                                               *)
(***************************************************************************)
LEMMA CommitTyped ==
  ASSUME TypeOK, NEW r \in Procs, Commit(r)
  PROVE  IsPlan(plan)'
<1> DEFINE slots == run[r].first .. (run[r].until - 1)
<1>1. PICK best \in Schedules :
        plan' = [s \in slots |-> IF s \in ForcedSlots(slots, windows)
                                   THEN "export" ELSE best[s]]
  BY DEF Commit
<1>2. run[r].first \in Nat /\ run[r].until \in 0 .. LastSlot + 1
  BY DEF TypeOK
<1>3. slots \subseteq 0 .. LastSlot
  BY <1>2, CoordinatorAssumption
<1>4. \A s \in slots : best[s] \in Actions
  BY <1>3, CoordinatorAssumption
<1> HIDE DEF slots
<1> QED BY <1>1, <1>3, <1>4 DEF IsPlan, Actions, Modes

(***************************************************************************)
(* Every step of a planning run preserves TypeOK.                          *)
(***************************************************************************)
LEMMA RunStepTyped ==
  ASSUME TypeOK, NEW r \in Procs, RunStep(r)
  PROVE  TypeOK'
<1>1. CASE RatesFetched(r)
  <2>1. RateEnds \subseteq 0 .. LastSlot + 1
    BY CoordinatorAssumption
  <2>2. run' \in RunType
    BY <1>1, <2>1 DEF RatesFetched, TypeOK, RunType
  <2> QED BY <1>1, <2>2 DEF RatesFetched, TypeOK, InverterTypeOK, AxleTypeOK,
             RunType, inverterVars, axleVars, planVars, cycleVars
<1>2. CASE ForecastFetched(r)
  <2>1. run' \in RunType
    BY <1>2 DEF ForecastFetched, TypeOK, RunType
  <2> QED BY <1>2, <2>1 DEF ForecastFetched, TypeOK, InverterTypeOK, AxleTypeOK,
             RunType, inverterVars, axleVars, planVars, cycleVars
<1>3. CASE Abandon(r)
  <2>1. IsPlan(plan)
    BY DEF IsPlan, TypeOK
  <2>2. Return(r, plan)
    BY <1>3 DEF Abandon
  <2> QED BY <1>3, <2>1, <2>2, ReturnTyped DEF Abandon, TypeOK, InverterTypeOK,
             CmdTyped, ModeType, RunType, UpcType
<1>4. CASE Commit(r)
  <2>1. IsPlan(plan)'
    BY <1>4, CommitTyped
  <2>2. forced' \subseteq Nat
    BY <1>4 DEF Commit, ForcedSlots, TypeOK
  <2>3. CASE /\ run' = [run EXCEPT ![r].pc = "status"]
             /\ UNCHANGED <<axleVars, cycleVars, mode>>
    BY <1>4, <2>1, <2>2, <2>3 DEF Commit, IsPlan, TypeOK, InverterTypeOK, AxleTypeOK,
             RunType, axleVars, cycleVars
  <2>4. CASE Return(r, plan')
    BY <1>4, <2>1, <2>2, <2>4, ReturnTyped DEF Commit, IsPlan, TypeOK, InverterTypeOK,
             CmdTyped, ModeType, RunType, UpcType
  <2> QED BY <1>4, <2>3, <2>4 DEF Commit
<1>5. CASE DropPlan(r)
  <2>1. IsPlan(NoPlan)
    BY DEF IsPlan, NoPlan
  <2>2. forced' \subseteq Nat
    BY <1>5 DEF DropPlan, ForcedSlots, TypeOK
  <2> QED BY <1>5, <2>1, <2>2, ReturnTyped DEF DropPlan, IsPlan, TypeOK, InverterTypeOK,
             CmdTyped, ModeType, RunType, UpcType
<1>6. CASE StatusRefreshed(r)
  <2>1. IsPlan(plan)
    BY DEF IsPlan, TypeOK
  <2> QED BY <1>6, <2>1, ReturnTyped DEF StatusRefreshed, TypeOK, InverterTypeOK,
             CmdTyped, ModeType, RunType, UpcType, planVars
<1> QED BY <1>1, <1>2, <1>3, <1>4, <1>5, <1>6 DEF RunStep

(***************************************************************************)
(* A new coordinator starts well-formed next to whatever the inverter      *)
(* does.                                                                   *)
(***************************************************************************)
LEMMA NewCoordinatorTyped ==
  ASSUME TypeOK, NewCoordinator, UNCHANGED <<mode, now>>, restarts' \in Nat
  PROVE  TypeOK'
<1>1. run' \in RunType
  BY CoordinatorAssumption DEF NewCoordinator, IdleRun, RunType
<1> QED BY <1>1 DEF NewCoordinator, NoPlan, TypeOK, InverterTypeOK, AxleTypeOK,
             RunType, Reported

(***************************************************************************)
(* The variables of coordinator, Axle cache and inverter keep their types. *)
(* Proved by induction, one step per action; it is what the arithmetic of  *)
(* the other proofs rests on.                                              *)
(***************************************************************************)
THEOREM TypeCorrect == Spec => []TypeOK
<1>1. Init => TypeOK
  <2> SUFFICES ASSUME Init PROVE TypeOK
    OBVIOUS
  <2>1. InverterTypeOK
    <3>1. Off \in [left : 0 .. ForceLen, slot : Nat]
      BY InverterAssumption DEF Off
    <3> QED BY <3>1 DEF Init, InverterInit, InverterTypeOK
  <2>2. AxleTypeOK
    BY DEF Init, AxleInit, AxleTypeOK, Reported
  <2>3. run \in RunType
    BY CoordinatorAssumption DEF Init, IdleRun, RunType
  <2> QED BY <2>1, <2>2, <2>3 DEF Init, TypeOK, NoPlan, RunType
<1>2. TypeOK /\ [Next]_vars => TypeOK'
  <2> SUFFICES ASSUME TypeOK, [Next]_vars PROVE TypeOK'
    OBVIOUS
  <2> USE DEF TypeOK, RunType, UpcType
  <2>p. IsPlan(plan) /\ mode \in ModeType /\ now \in Nat
    BY DEF IsPlan, InverterTypeOK, ModeType
  <2>u. Update \in Procs
    BY DEF Procs
  <2>1. CASE Boot
    <3>1. run' \in RunType
      BY <2>1, <2>u, BeginTyped DEF Boot
    <3> QED BY <2>1, <3>1 DEF Boot, InverterTypeOK, AxleTypeOK, inverterVars,
               axleVars, planVars
  <2>2. CASE SetupPolled
    <3>1. run' \in RunType
      BY <2>2, <2>u, BeginTyped DEF SetupPolled
    <3>2. AxleTypeOK'
      BY <2>2, <2>p, PolledTyped DEF SetupPolled, AxleTypeOK, WindowsChanged
    <3> QED BY <2>2, <3>1, <3>2 DEF SetupPolled, InverterTypeOK, inverterVars, planVars
  <2>3. CASE SetupFailed
    BY <2>3 DEF SetupFailed, Raised, InverterTypeOK, AxleTypeOK, inverterVars,
               axleVars, planVars
  <2>4. CASE SetupRetried
    BY <2>4, NewCoordinatorTyped DEF SetupRetried
  <2>5. CASE StartCycle
    BY <2>5, <2>p, BeginCycleTyped DEF StartCycle, InverterTypeOK, AxleTypeOK,
               CmdTyped, ModeType, planVars
  <2>6. CASE CyclePolled
    <3>1. cycleNow \in Nat
      OBVIOUS
    <3>2. /\ windows' \in Reported /\ lastSuccess' \in Nat \cup {Never}
          /\ status' \in {"fresh", "stale", "unavailable"}
      BY <2>6, <3>1, PolledTyped DEF CyclePolled
    <3>3. CASE Begin(Update) /\ upc' = "cyclePlan"
                 /\ UNCHANGED <<mode, suppression, decided>>
      BY <2>6, <2>u, <3>2, <3>3, BeginTyped DEF CyclePolled, InverterTypeOK,
               AxleTypeOK, planVars
    <3>4. CASE Dispatch(plan) /\ UNCHANGED run
      BY <2>6, <2>p, <3>2, <3>4, DispatchTyped DEF CyclePolled, InverterTypeOK,
               AxleTypeOK, CmdTyped, ModeType, planVars
    <3> QED BY <2>6, <3>3, <3>4 DEF CyclePolled
  <2>7. CASE CycleFailed
    BY <2>7 DEF CycleFailed, Raised, InverterTypeOK, AxleTypeOK, inverterVars,
               axleVars, planVars
  <2>8. CASE Release
    <3>1. mode' \in ModeType /\ upc' \in UpcType
      BY <2>8, <2>p, DisableTyped DEF Release, NotSent, Raised, Modes
    <3> QED BY <2>8, <3>1 DEF Release, InverterTypeOK, AxleTypeOK, ModeType,
               axleVars, planVars
  <2>9. ASSUME NEW r \in Procs, RunStep(r)
        PROVE  TypeOK'
    BY <2>9, RunStepTyped
  <2>10. ASSUME NEW r \in Tasks, PlanningTimer(r) \/ TriggerPlanning(r)
         PROVE  TypeOK'
    <3>1. run' \in RunType
      BY <2>10, BeginTyped DEF PlanningTimer, TriggerPlanning, Procs
    <3> QED BY <2>10, <3>1 DEF PlanningTimer, TriggerPlanning, InverterTypeOK,
               AxleTypeOK, inverterVars, axleVars, planVars, cycleVars
  <2>11. CASE Tick
    BY <2>11, <2>p, ElapseTyped DEF Tick, InverterTypeOK, AxleTypeOK, ModeType,
               axleVars, planVars, cycleVars
  <2>12. CASE SocReport
    BY <2>12 DEF SocReport, OnSoc, InverterTypeOK, AxleTypeOK, axleVars, planVars,
               cycleVars
  <2>13. CASE Restart
    BY <2>13, NewCoordinatorTyped DEF Restart
  <2>14. CASE UNCHANGED vars
    BY <2>14 DEF vars, InverterTypeOK, AxleTypeOK, inverterVars, axleVars, planVars,
               cycleVars
  <2> QED BY <2>1, <2>2, <2>3, <2>4, <2>5, <2>6, <2>7, <2>8, <2>9, <2>10, <2>11,
             <2>12, <2>13, <2>14 DEF Next
<1> QED BY <1>1, <1>2, PTL DEF Spec

-----------------------------------------------------------------------------
(***************************************************************************)
(* A planning run that returns moves the forced modes only by the commands *)
(* of the cycle that waited for it.                                        *)
(***************************************************************************)
LEMMA ReturnCommands ==
  ASSUME NEW r, NEW p, Return(r, p)
  PROVE  Dispatch(p) \/ UNCHANGED mode
  BY DEF Return, BeginCycle

(***************************************************************************)
(* A command for a slot that matches now keeps ForcedModeBounded, for      *)
(* date_comapre accepts no slot after its end.                             *)
(***************************************************************************)
LEMMA DispatchBounded ==
  ASSUME TypeOK, ForcedModeBounded, now' = now,
         NEW p, IsPlan(p), Dispatch(p) \/ UNCHANGED mode
  PROVE  ForcedModeBounded'
<1>1. mode \in ModeType /\ now \in Nat
  BY DEF TypeOK, InverterTypeOK, ModeType
<1>2. CASE UNCHANGED mode
  BY <1>2 DEF ForcedModeBounded
<1>3. ASSUME NEW m \in Modes, Disable(m)
      PROVE  ForcedModeBounded'
  BY <1>1, <1>3 DEF Disable, Off, ForcedModeBounded, ModeType
<1>4. ASSUME NEW s \in MatchingSlots(p), p[s] \in Modes, Enable(p[s], s)
      PROVE  ForcedModeBounded'
  <2>1. s \in Nat /\ now <= SlotEnd(s)
    BY DEF MatchingSlots, Matches, IsPlan
  <2>2. now + ForceLen <= SlotEnd(s) + ForceLen
    BY <1>1, <2>1, SlotTyped, InverterAssumption
  <2>3. CASE mode' = [mode EXCEPT ![p[s]] = Forced(s)]
    BY <1>1, <1>4, <2>2, <2>3 DEF Forced, ForcedModeBounded, ModeType
  <2> QED BY <1>2, <1>4, <2>3 DEF Enable
<1>5. CASE Dispatch(p)
  BY <1>2, <1>3, <1>4, <1>5 DEF Dispatch, NotSent, Modes
<1> QED BY <1>2, <1>5

(***************************************************************************)
(* A tick that passes takes as much from the time left as it adds to the   *)
(* clock.                                                                  *)
(***************************************************************************)
LEMMA ElapseBounded ==
  ASSUME TypeOK, ForcedModeBounded, Elapse, now' = now + 1
  PROVE  ForcedModeBounded'
<1> SUFFICES ASSUME NEW m \in Modes, mode'[m].left > 0
             PROVE  now' + mode'[m].left <= SlotEnd(mode'[m].slot) + ForceLen
  BY DEF ForcedModeBounded
<1>1. mode[m] \in [left : 0 .. ForceLen, slot : Nat] /\ now \in Nat
  BY DEF TypeOK, InverterTypeOK
<1>2. CASE mode[m].left > 1
  <2>1. mode'[m].left = mode[m].left - 1 /\ mode'[m].slot = mode[m].slot
    BY <1>1, <1>2 DEF Elapse
  <2>2. now + mode[m].left <= SlotEnd(mode[m].slot) + ForceLen
    BY <1>1, <1>2, InverterAssumption DEF ForcedModeBounded
  <2>3. now' + mode'[m].left = now + mode[m].left
    BY <1>1, <2>1, InverterAssumption
  <2> QED BY <2>1, <2>2, <2>3
<1>3. CASE ~(mode[m].left > 1)
  BY <1>3 DEF Elapse, Off
<1> QED BY <1>2, <1>3

(***************************************************************************)
(* No forced mode outlives the half-hour that asked for it by more than    *)
(* the 30 minutes of a command (enableCharge and enableExport), for any    *)
(* grid, plan, loss and number of restarts. With TypeOK the property is    *)
(* inductive by itself.                                                    *)
(***************************************************************************)
THEOREM ForcedModesEnd == Spec => []ForcedModeBounded
<1>1. Init => ForcedModeBounded
  BY DEF Init, InverterInit, Off, ForcedModeBounded
<1>2. TypeOK /\ ForcedModeBounded /\ [Next]_vars => ForcedModeBounded'
  <2> SUFFICES ASSUME TypeOK, ForcedModeBounded, [Next]_vars
               PROVE  ForcedModeBounded'
    OBVIOUS
  <2>p. IsPlan(plan) /\ IsPlan(NoPlan)
    BY DEF IsPlan, NoPlan, TypeOK
  <2>0. CASE UNCHANGED <<mode, now>>
    BY <2>0 DEF ForcedModeBounded
  <2>1. CASE Boot \/ SetupPolled \/ SetupFailed \/ SetupRetried \/ CycleFailed
               \/ SocReport \/ Restart \/ UNCHANGED vars
    BY <2>0, <2>1 DEF Boot, SetupPolled, SetupFailed, SetupRetried, CycleFailed,
         SocReport, OnSoc, Restart, vars, inverterVars
  <2>2. CASE StartCycle
    BY <2>2, <2>p, DispatchBounded DEF StartCycle, BeginCycle
  <2>3. CASE CyclePolled
    BY <2>3, <2>p, DispatchBounded DEF CyclePolled
  <2>4. CASE Release
    <3>1. mode \in ModeType
      BY DEF TypeOK, InverterTypeOK, ModeType
    <3> QED BY <2>0, <2>4, <3>1
            DEF Release, NotSent, Disable, Off, Modes, ForcedModeBounded, ModeType
  <2>5. ASSUME NEW r \in Procs, RunStep(r)
        PROVE  ForcedModeBounded'
    <3>1. CASE RatesFetched(r) \/ ForecastFetched(r)
      BY <2>0, <3>1 DEF RatesFetched, ForecastFetched, inverterVars
    <3>2. CASE Abandon(r)
      BY <2>p, <3>2, ReturnCommands, DispatchBounded DEF Abandon
    <3>3. CASE Commit(r)
      <4>1. IsPlan(plan')
        BY <3>3, CommitTyped DEF IsPlan
      <4>2. (Dispatch(plan') \/ UNCHANGED mode) /\ now' = now
        BY <3>3, ReturnCommands DEF Commit
      <4> QED BY <4>1, <4>2, DispatchBounded
    <3>4. CASE DropPlan(r)
      BY <2>p, <3>4, ReturnCommands, DispatchBounded DEF DropPlan
    <3>5. CASE StatusRefreshed(r)
      BY <2>p, <3>5, ReturnCommands, DispatchBounded DEF StatusRefreshed
    <3> QED BY <2>5, <3>1, <3>2, <3>3, <3>4, <3>5 DEF RunStep
  <2>6. ASSUME NEW r \in Tasks, PlanningTimer(r) \/ TriggerPlanning(r)
        PROVE  ForcedModeBounded'
    BY <2>0, <2>6 DEF PlanningTimer, TriggerPlanning, inverterVars
  <2>7. CASE Tick
    BY <2>7, ElapseBounded DEF Tick
  <2> QED BY <2>1, <2>2, <2>3, <2>4, <2>5, <2>6, <2>7 DEF Next
<1> QED BY <1>1, <1>2, TypeCorrect, PTL DEF Spec

-----------------------------------------------------------------------------
(***************************************************************************)
(* PlanFollowsWindows is not inductive: the replan a cycle waits for may   *)
(* have committed while the ML client is still asked for its status. The   *)
(* plan follows the windows in that state too, and it has to, for the      *)
(* cycle sends its commands at the very step that leaves "cyclePlan". Then *)
(* two facts about the flag and the polls: no change is pending while the  *)
(* replan it ordered runs, and without polls no window is cached.          *)
(***************************************************************************)
PlanMatches(p, f, ws) ==
  /\ f = ForcedSlots(DOMAIN p, ws)
  /\ \A s \in f : p[s] = "export"

PlanCurrent ==
  HasPlan /\ ~changed /\ ~lost /\ (upc = "cyclePlan" => run[Update].pc = "status")
    => PlanMatches(plan, forced, windows)

ChangeTaken == upc = "cyclePlan" => ~changed

NoPollNoWindow ==
  ~AxlePolled => windows = {} /\ upc \notin {"setupAxle", "cycleAxle"}

FollowInv == PlanCurrent /\ ChangeTaken /\ NoPollNoWindow

(***************************************************************************)
(* Where the update cycle can be after it has sent its commands, or begun. *)
(***************************************************************************)
LEMMA DispatchLeaves ==
  ASSUME NEW p, Dispatch(p)
  PROVE  upc' \in {"idle", "release", "failed"}
  BY DEF Dispatch, NotSent, Raised

LEMMA BeginCycleLeaves ==
  ASSUME NEW p, BeginCycle(p)
  PROVE  /\ upc' \in {"idle", "release", "failed", "cycleAxle"}
         /\ upc' = "cycleAxle" => AxlePolled
  BY DispatchLeaves DEF BeginCycle

(***************************************************************************)
(* The plan a commit assigns follows the windows cached at that moment.    *)
(***************************************************************************)
LEMMA CommitMatches ==
  ASSUME TypeOK, NEW r \in Procs, Commit(r)
  PROVE  PlanMatches(plan', forced', windows) /\ lost' = FALSE
<1> DEFINE slots == run[r].first .. (run[r].until - 1)
           must  == ForcedSlots(slots, windows)
<1>1. PICK best \in Schedules :
        plan' = [s \in slots |-> IF s \in must THEN "export" ELSE best[s]]
  BY DEF Commit
<1>2. forced' = must /\ lost' = FALSE
  BY DEF Commit
<1>3. must \subseteq slots
  BY DEF ForcedSlots
<1>4. DOMAIN plan' = slots
  BY <1>1
<1> HIDE DEF slots, must
<1>5. \A s \in must : plan'[s] = "export"
  BY <1>1, <1>3
<1>6. must = ForcedSlots(slots, windows)
  BY DEF must
<1> QED BY <1>2, <1>4, <1>5, <1>6 DEF PlanMatches

(***************************************************************************)
(* No step of a planning run, of whichever process, breaks FollowInv.      *)
(***************************************************************************)
LEMMA RunStepFollows ==
  ASSUME TypeOK, FollowInv, NEW r \in Procs, RunStep(r)
  PROVE  FollowInv'
<1>1. run \in RunType
  BY DEF TypeOK, RunType
<1>2. ASSUME NEW p, Return(r, p)
      PROVE  /\ ChangeTaken' /\ NoPollNoWindow'
             /\ windows' = windows /\ changed' = changed
             /\ run' = [run EXCEPT ![r] = IdleRun]
             /\ \/ r # Update /\ upc' = upc
                \/ r = Update /\ upc \in {"setupPlan", "cyclePlan"}
  BY <1>2, DispatchLeaves, BeginCycleLeaves
     DEF Return, FollowInv, ChangeTaken, NoPollNoWindow, cycleVars
<1>3. CASE RatesFetched(r) \/ ForecastFetched(r)
  <2>1. UNCHANGED <<windows, changed, plan, forced, lost, upc>>
    BY <1>3 DEF RatesFetched, ForecastFetched, axleVars, planVars, cycleVars
  <2>2. run'[Update].pc = "status" => run[Update].pc = "status"
    BY <1>1, <1>3 DEF RatesFetched, ForecastFetched, RunType, Procs
  <2> QED BY <2>1, <2>2
          DEF FollowInv, PlanCurrent, ChangeTaken, NoPollNoWindow, HasPlan
<1>4. CASE Abandon(r)
  <2>1. Return(r, plan) /\ UNCHANGED <<plan, forced>>
    BY <1>4 DEF Abandon
  <2>2. lost' = (lost \/ (r = Update /\ upc = "cyclePlan"))
    BY <1>4 DEF Abandon
  <2>3. r # Update => run'[Update] = run[Update]
    BY <1>1, <1>2, <2>1 DEF RunType, Procs
  <2> QED BY <1>2, <2>1, <2>2, <2>3 DEF FollowInv, PlanCurrent, HasPlan
<1>5. CASE Commit(r)
  <2>1. windows' = windows /\ ChangeTaken' /\ NoPollNoWindow'
    BY <1>2, <1>5 DEF Commit, FollowInv, ChangeTaken, NoPollNoWindow, axleVars,
                      cycleVars
  <2> QED BY <1>5, <2>1, CommitMatches DEF FollowInv, PlanCurrent
<1>6. CASE DropPlan(r)
  <2>1. plan' = NoPlan /\ Return(r, NoPlan)
    BY <1>6 DEF DropPlan
  <2> QED BY <1>2, <2>1 DEF FollowInv, PlanCurrent, HasPlan, NoPlan
<1>7. CASE StatusRefreshed(r)
  <2>1. Return(r, plan) /\ UNCHANGED <<plan, forced, lost>> /\ run[r].pc = "status"
    BY <1>7 DEF StatusRefreshed, planVars
  <2>2. r # Update => run'[Update] = run[Update]
    BY <1>1, <1>2, <2>1 DEF RunType, Procs
  <2> QED BY <1>2, <2>1, <2>2 DEF FollowInv, PlanCurrent, HasPlan
<1> QED BY <1>3, <1>4, <1>5, <1>6, <1>7 DEF RunStep

(***************************************************************************)
(* FollowInv is an invariant: clearing windows_changed before the replan   *)
(* (coordinators.py:859-864) is sound as long as that replan succeeds.     *)
(***************************************************************************)
THEOREM PlanFollows == Spec => []FollowInv
<1>1. Init => FollowInv
  BY DEF Init, AxleInit, FollowInv, PlanCurrent, ChangeTaken, NoPollNoWindow,
         HasPlan, NoPlan
<1>2. TypeOK /\ FollowInv /\ [Next]_vars => FollowInv'
  <2> SUFFICES ASSUME TypeOK, FollowInv, [Next]_vars
               PROVE  FollowInv'
    OBVIOUS
  <2>r. run \in RunType /\ Update \in Procs
    BY DEF TypeOK, RunType, Procs
  <2>0. ASSUME UNCHANGED <<windows, changed, plan, forced, lost>>,
               upc' \in {upc, "idle", "release", "failed"},
               \/ upc' = upc /\ run'[Update].pc = run[Update].pc
               \/ upc \notin {"setupPlan", "cyclePlan"}
        PROVE  FollowInv'
    BY <2>0 DEF FollowInv, PlanCurrent, ChangeTaken, NoPollNoWindow, HasPlan
  <2>1. CASE Boot
    BY <2>1 DEF Boot, FollowInv, PlanCurrent, ChangeTaken, NoPollNoWindow, HasPlan,
                axleVars, planVars
  <2>2. CASE SetupPolled
    BY <2>2 DEF SetupPolled, WindowsChanged, FollowInv, PlanCurrent, ChangeTaken,
                NoPollNoWindow, HasPlan, planVars
  <2>3. CASE SetupRetried \/ Restart
    BY <2>3 DEF SetupRetried, Restart, NewCoordinator, FollowInv, PlanCurrent,
                ChangeTaken, NoPollNoWindow, HasPlan, NoPlan
  <2>4. CASE SetupFailed \/ CycleFailed \/ Release
    BY <2>0, <2>4 DEF SetupFailed, CycleFailed, Release, NotSent, Raised,
                axleVars, planVars
  <2>5. CASE StartCycle
    BY <2>5, BeginCycleLeaves DEF StartCycle, FollowInv, PlanCurrent, ChangeTaken,
                NoPollNoWindow, HasPlan, planVars
  <2>6. CASE CyclePolled
    <3>1. CASE Begin(Update) /\ upc' = "cyclePlan"
      <4>1. run'[Update].pc = "rates" /\ AxlePolled /\ ~changed'
        BY <2>6, <2>r, <3>1 DEF CyclePolled, Begin, FollowInv, NoPollNoWindow, RunType
      <4> QED BY <3>1, <4>1 DEF FollowInv, PlanCurrent, ChangeTaken, NoPollNoWindow
    <3>2. CASE ~WindowsChanged /\ Dispatch(plan) /\ UNCHANGED run
      <4>1. changed = FALSE /\ changed' = FALSE
        BY <2>6, <3>2 DEF CyclePolled, WindowsChanged, TypeOK, AxleTypeOK
      <4>2. UNCHANGED <<windows, plan, forced, lost>> /\ upc = "cycleAxle"
        BY <2>6, <3>2 DEF CyclePolled, WindowsChanged, planVars
      <4> QED BY <2>0, <3>2, <4>1, <4>2, DispatchLeaves
    <3> QED BY <2>6, <3>1, <3>2 DEF CyclePolled
  <2>7. ASSUME NEW r \in Procs, RunStep(r)
        PROVE  FollowInv'
    BY <2>7, RunStepFollows
  <2>8. ASSUME NEW r \in Tasks, PlanningTimer(r) \/ TriggerPlanning(r)
        PROVE  FollowInv'
    <3>1. r # Update /\ r \in Procs
      BY CoordinatorAssumption DEF Procs
    <3>2. run'[Update].pc = run[Update].pc
      BY <2>8, <2>r, <3>1 DEF PlanningTimer, TriggerPlanning, Begin, RunType
    <3> QED BY <2>0, <2>8, <3>2 DEF PlanningTimer, TriggerPlanning, axleVars,
                planVars, cycleVars
  <2>9. CASE Tick \/ SocReport \/ UNCHANGED vars
    BY <2>0, <2>9 DEF Tick, SocReport, vars, axleVars, planVars, cycleVars
  <2> QED BY <2>1, <2>2, <2>3, <2>4, <2>5, <2>6, <2>7, <2>8, <2>9 DEF Next
<1> QED BY <1>1, <1>2, TypeCorrect, PTL DEF Spec

(***************************************************************************)
(* The plan in force is the one the cached Axle windows ask for, except    *)
(* while a change is pending or being handled, or after its replan failed. *)
(***************************************************************************)
THEOREM PlanFollowsAxle == Spec => []PlanFollowsWindows
<1>1. FollowInv => PlanFollowsWindows
  BY DEF FollowInv, PlanCurrent, PlanMatches, PlanFollowsWindows, Follows
<1> QED BY <1>1, PlanFollows, PTL

-----------------------------------------------------------------------------
(***************************************************************************)
(* What AxleExportObeyed asks of the decisions a step takes.               *)
(***************************************************************************)
Obeyed(ws) ==
  \A d \in decided' : ForcedSlots({d.slot}, ws) # {} => d.action = "export"

(***************************************************************************)
(* The commands of a plan that follows the windows obey them; without a    *)
(* window there is nothing to obey.                                        *)
(***************************************************************************)
LEMMA DispatchObeys ==
  ASSUME NEW p, NEW f, NEW ws, Dispatch(p), DOMAIN p # {} => PlanMatches(p, f, ws)
  PROVE  Obeyed(ws)
<1>1. CASE decided' = {}
  BY <1>1 DEF Obeyed
<1>2. ASSUME NEW s \in MatchingSlots(p),
             decided' = {[slot |-> s, action |-> p[s]]},
             ForcedSlots({s}, ws) # {}
      PROVE  p[s] = "export"
  <2>1. s \in DOMAIN p
    BY DEF MatchingSlots
  <2>2. s \in ForcedSlots(DOMAIN p, ws)
    BY <1>2, <2>1 DEF ForcedSlots
  <2> QED BY <2>1, <2>2 DEF PlanMatches
<1> QED BY <1>1, <1>2 DEF Dispatch, Obeyed

LEMMA NoWindowObeyed == Obeyed({})
  BY DEF Obeyed, ForcedSlots

(***************************************************************************)
(* When Axle is polled, a returning planning run sends commands only for   *)
(* the update cycle that waited for it.                                    *)
(***************************************************************************)
LEMMA ReturnDecides ==
  ASSUME NEW r, NEW p, Return(r, p)
  PROVE  \/ UNCHANGED decided \/ decided' = {}
         \/ Dispatch(p) /\ (AxlePolled => r = Update /\ upc = "cyclePlan")
  BY DEF Return, BeginCycle, cycleVars

(***************************************************************************)
(* A cycle never decides to charge or to idle in a half-hour an Axle       *)
(* export window overlaps, unless the replan for that window failed. Every *)
(* dispatch is traced to the plan in force, or to the plan of the commit   *)
(* that ends the cycle's wait.                                             *)
(***************************************************************************)
THEOREM ExportObeyed == Spec => AxleExportObeyed
<1> DEFINE Goal == decided' # decided /\ ~lost' => Obeyed(windows')
<1>1. TypeOK /\ FollowInv /\ [Next]_vars => [Goal]_vars
  <2> SUFFICES ASSUME TypeOK, FollowInv, Next
               PROVE  Goal
    BY DEF vars, cycleVars
  <2>n. ~AxlePolled /\ windows' = windows => Goal
    BY NoWindowObeyed DEF FollowInv, NoPollNoWindow
  <2>0. CASE UNCHANGED decided \/ decided' = {}
    BY <2>0 DEF Obeyed
  <2>1. CASE Boot \/ SetupPolled \/ SetupFailed \/ SetupRetried \/ CycleFailed
               \/ Release \/ Tick \/ SocReport \/ Restart
    BY <2>0, <2>1 DEF Boot, SetupPolled, SetupFailed, SetupRetried, CycleFailed,
         Release, Tick, SocReport, Restart, NewCoordinator, cycleVars
  <2>2. CASE StartCycle
    BY <2>0, <2>n, <2>2 DEF StartCycle, BeginCycle
  <2>3. CASE CyclePolled
    <3>1. CASE ~WindowsChanged /\ Dispatch(plan)
      <4>1. /\ ~changed /\ windows' = windows /\ upc # "cyclePlan" /\ lost' = lost
        BY <2>3, <3>1 DEF CyclePolled, WindowsChanged, planVars
      <4>2. ~lost => (HasPlan => PlanMatches(plan, forced, windows))
        BY <4>1 DEF FollowInv, PlanCurrent
      <4> QED BY <3>1, <4>1, <4>2, DispatchObeys DEF HasPlan
    <3> QED BY <2>0, <2>3, <3>1 DEF CyclePolled
  <2>4. ASSUME NEW r \in Procs, RunStep(r)
        PROVE  Goal
    <3>w. windows' = windows
      BY <2>4 DEF RunStep, RatesFetched, ForecastFetched, Abandon, Commit, DropPlan,
                  StatusRefreshed, Return, axleVars
    <3>1. CASE RatesFetched(r) \/ ForecastFetched(r)
      BY <2>0, <3>1 DEF RatesFetched, ForecastFetched, cycleVars
    <3>2. CASE Abandon(r)
      BY <2>0, <2>n, <3>w, <3>2, ReturnDecides DEF Abandon, FollowInv
    <3>3. CASE Commit(r)
      <4>1. UNCHANGED decided \/ decided' = {} \/ Dispatch(plan')
        BY <3>3, ReturnDecides DEF Commit, cycleVars
      <4> QED BY <2>0, <3>w, <3>3, <4>1, CommitMatches, DispatchObeys
    <3>4. CASE DropPlan(r)
      <4>1. UNCHANGED decided \/ decided' = {} \/ Dispatch(NoPlan)
        BY <3>4, ReturnDecides DEF DropPlan
      <4>2. DOMAIN NoPlan = {}
        BY DEF NoPlan
      <4> QED BY <2>0, <4>1, <4>2, DispatchObeys
    <3>5. CASE StatusRefreshed(r)
      <4>1. \/ UNCHANGED decided \/ decided' = {}
            \/ Dispatch(plan) /\ (AxlePolled => r = Update /\ upc = "cyclePlan")
        BY <3>5, ReturnDecides DEF StatusRefreshed
      <4>2. lost' = lost /\ run[r].pc = "status"
        BY <3>5 DEF StatusRefreshed, planVars
      <4>3. ASSUME Dispatch(plan), r = Update, upc = "cyclePlan", ~lost
            PROVE  Obeyed(windows)
        <5>1. HasPlan => PlanMatches(plan, forced, windows)
          BY <4>2, <4>3 DEF FollowInv, PlanCurrent, ChangeTaken
        <5> QED BY <4>3, <5>1, DispatchObeys DEF HasPlan
      <4> QED BY <2>0, <2>n, <3>w, <4>1, <4>2, <4>3
    <3> QED BY <2>4, <3>1, <3>2, <3>3, <3>4, <3>5 DEF RunStep
  <2>5. ASSUME NEW r \in Tasks, PlanningTimer(r) \/ TriggerPlanning(r)
        PROVE  Goal
    BY <2>0, <2>5 DEF PlanningTimer, TriggerPlanning, cycleVars
  <2> QED BY <2>1, <2>2, <2>3, <2>4, <2>5 DEF Next
<1>2. [Goal]_vars
        <=> [decided' # decided /\ ~lost'
               => \A d \in decided' :
                    ForcedSlots({d.slot}, windows') # {} => d.action = "export"]_vars
  BY DEF Obeyed
<1> QED BY <1>1, <1>2, TypeCorrect, PlanFollows, PTL DEF Spec, AxleExportObeyed

-----------------------------------------------------------------------------
(***************************************************************************)
(* A planning run works for slots from no later than the next half-hour:   *)
(* the clock may pass its first slot while it waits for its inputs, and    *)
(* never the other way round.                                              *)
(***************************************************************************)
RunsInGrid ==
  \A r \in Procs : run[r].pc # "idle" => run[r].first <= CeilSlot(now)

(***************************************************************************)
(* The next half-hour does not move back as time passes.                   *)
(***************************************************************************)
LEMMA CeilMonotone == \A t \in Nat : CeilSlot(t) <= CeilSlot(t + 1)
  BY SlotLenAssumption DEF CeilSlot

(***************************************************************************)
(* Beginning and returning keep RunsInGrid.                                *)
(***************************************************************************)
LEMMA ReturnIdle ==
  ASSUME TypeOK, RunsInGrid, now' = now, NEW r \in Procs, NEW p, Return(r, p)
  PROVE  RunsInGrid'
<1>1. run' = [run EXCEPT ![r] = IdleRun] /\ run \in RunType
  BY DEF Return, TypeOK, RunType
<1> QED BY <1>1 DEF RunsInGrid, IdleRun, RunType

LEMMA BeginInGrid ==
  ASSUME TypeOK, RunsInGrid, now' = now, NEW r \in Procs, Begin(r)
  PROVE  RunsInGrid'
<1>1. run \in RunType /\ now \in Nat
  BY DEF TypeOK, RunType
<1> QED BY <1>1, CeilTyped DEF Begin, RunsInGrid, RunType

(***************************************************************************)
(* RunsInGrid is an invariant: ceil_dt is taken once, when                 *)
(* octopus_state_change_listener is entered.                               *)
(***************************************************************************)
THEOREM RunsStayInGrid == Spec => []RunsInGrid
<1>1. Init => RunsInGrid
  BY DEF Init, IdleRun, RunsInGrid
<1>2. TypeOK /\ RunsInGrid /\ [Next]_vars => RunsInGrid'
  <2> SUFFICES ASSUME TypeOK, RunsInGrid, [Next]_vars
               PROVE  RunsInGrid'
    OBVIOUS
  <2>r. run \in RunType /\ Update \in Procs /\ now \in Nat
    BY DEF TypeOK, RunType, Procs
  <2>0. CASE UNCHANGED <<run, now>>
    BY <2>0 DEF RunsInGrid
  <2>1. CASE Boot
    BY <2>r, <2>0, <2>1, BeginInGrid DEF Boot
  <2>2. CASE SetupPolled
    BY <2>r, <2>2, BeginInGrid DEF SetupPolled
  <2>3. CASE SetupRetried \/ Restart
    BY <2>3 DEF SetupRetried, Restart, NewCoordinator, IdleRun, RunsInGrid
  <2>4. CASE SetupFailed \/ CycleFailed \/ Release \/ StartCycle \/ SocReport
               \/ UNCHANGED vars
    BY <2>0, <2>4 DEF SetupFailed, CycleFailed, Release, StartCycle, SocReport, vars
  <2>5. CASE CyclePolled
    BY <2>r, <2>0, <2>5, BeginInGrid DEF CyclePolled
  <2>6. ASSUME NEW r \in Procs, RunStep(r)
        PROVE  RunsInGrid'
    <3>1. CASE RatesFetched(r) \/ ForecastFetched(r)
      BY <2>r, <3>1 DEF RatesFetched, ForecastFetched, RunsInGrid, RunType
    <3>2. CASE Commit(r)
      <4>1. CASE run' = [run EXCEPT ![r].pc = "status"]
        BY <2>r, <3>2, <4>1 DEF Commit, RunsInGrid, RunType
      <4> QED BY <3>2, <4>1, ReturnIdle DEF Commit
    <3>3. CASE Abandon(r) \/ DropPlan(r) \/ StatusRefreshed(r)
      BY <3>3, ReturnIdle DEF Abandon, DropPlan, StatusRefreshed
    <3> QED BY <2>6, <3>1, <3>2, <3>3 DEF RunStep
  <2>7. ASSUME NEW r \in Tasks, PlanningTimer(r) \/ TriggerPlanning(r)
        PROVE  RunsInGrid'
    BY <2>7, BeginInGrid DEF PlanningTimer, TriggerPlanning, Procs
  <2>8. CASE Tick
    <3>1. CeilSlot(now) \in Nat /\ CeilSlot(now + 1) \in Nat
      BY <2>r, CeilTyped
    <3>2. now' = now + 1 /\ run' = run
      BY <2>8 DEF Tick
    <3>3. ASSUME NEW r \in Procs
          PROVE  run[r].first \in Nat
      BY <2>r DEF RunType
    <3> QED BY <2>r, <3>1, <3>2, <3>3, CeilMonotone DEF RunsInGrid
  <2> QED BY <2>1, <2>2, <2>3, <2>4, <2>5, <2>6, <2>7, <2>8 DEF Next
<1> QED BY <1>1, <1>2, TypeCorrect, PTL DEF Spec

(***************************************************************************)
(* The two readings of "Axle asks for some time of this slot" agree: a     *)
(* window owes a slot only if _axle_overlap_hours is positive.             *)
(***************************************************************************)
LEMMA OwedOverlaps ==
  ASSUME TypeOK, NEW s \in Nat, Planner!Owed(s)
  PROVE  \E w \in windows : w.intent = "export" /\ Overlaps(w, s)
<1>1. PICK w \in windows :
        /\ w.intent = "export"
        /\ \/ w.start <= SlotStart(s) /\ SlotStart(s) < w.end
           \/ SlotStart(s) <= w.start /\ w.start < SlotEnd(s)
  BY DEF Planner!Owed, Planner!SlotStart, Planner!SlotEnd, SlotStart, SlotEnd
<1>2. w \in Windows
  BY DEF TypeOK, AxleTypeOK, Reported
<1>3. w.start \in Nat /\ w.end \in Nat /\ w.start < w.end
  BY <1>2, AxleAssumption
<1>4. SlotStart(s) \in Nat /\ SlotEnd(s) \in Nat /\ SlotStart(s) < SlotEnd(s)
  BY SlotTyped
<1> QED BY <1>1, <1>3, <1>4 DEF Overlaps

(***************************************************************************)
(* A commit is a Replan of the abstract planner.                           *)
(***************************************************************************)
LEMMA CommitReplans ==
  ASSUME TypeOK, RunsInGrid, NEW r \in Procs, Commit(r)
  PROVE  Planner!Replan
<1> DEFINE first == run[r].first
           last  == run[r].until - 1
<1>1. /\ first \in Nat /\ last \in Int /\ run[r].until \in 0 .. LastSlot + 1
      /\ now \in Nat
  BY CoordinatorAssumption DEF TypeOK
<1>2. first <= CeilSlot(now) /\ first + 2 <= run[r].until
  BY DEF RunsInGrid, Commit
<1>3. first \in 0 .. CeilSlot(now) /\ last \in 0 .. LastSlot /\ first < last
  <2> DEFINE until == run[r].until
  <2>1. CeilSlot(now) \in Nat /\ LastSlot \in Nat
    BY <1>1, CeilTyped, CoordinatorAssumption
  <2>2. until \in Nat /\ until <= LastSlot + 1 /\ last = until - 1
    BY <1>1, <2>1
  <2>3. first <= CeilSlot(now) /\ first + 2 <= until
    BY <1>2
  <2> HIDE DEF first, last, until
  <2> QED BY <1>1, <2>1, <2>2, <2>3
<1>4. PICK best \in Schedules :
        plan' = [s \in first .. last |-> IF s \in ForcedSlots(first .. last, windows)
                                          THEN "export" ELSE best[s]]
  BY DEF Commit
<1>5. windows' = windows /\ now' = now
  BY DEF Commit, Return, axleVars
<1>6. DOMAIN plan' = first .. last
  BY <1>4
<1>7. IsPlan(plan)'
  BY CommitTyped
<1> HIDE DEF first, last
<1>8. ASSUME NEW s \in first .. last
      PROVE  /\ plan'[s] \in {"charge", "export", "discharge"}
             /\ Planner!Owed(s) => plan'[s] = "export"
  <2>1. s \in Nat
    BY <1>3
  <2>2. plan'[s] \in {"charge", "export", "discharge"}
    BY <1>6, <1>7 DEF IsPlan, Actions, Modes
  <2>3. Planner!Owed(s) => s \in ForcedSlots(first .. last, windows)
    BY <2>1, OwedOverlaps DEF ForcedSlots
  <2> QED BY <1>4, <2>2, <2>3
<1>9. CeilSlot(now) = Planner!CeilSlot(now)
  BY DEF CeilSlot, Planner!CeilSlot
<1> QED BY <1>3, <1>5, <1>6, <1>8, <1>9 DEF Planner!Replan

(***************************************************************************)
(* BatteryCoordinator implements AtomicPlanner: however many planning runs *)
(* overlap, each commit is one atomic replan for the windows of that       *)
(* moment, and no other step changes the plan but a drop or a restart.     *)
(***************************************************************************)
THEOREM PlanningIsAtomic == Spec => PlansAtomically
<1>1. Init => Planner!Init
  BY DEF Init, AxleInit, Planner!Init, NoPlan, Planner!NoPlan
<1>2. TypeOK /\ RunsInGrid /\ [Next]_vars => [Planner!Next]_(Planner!vars)
  <2> SUFFICES ASSUME TypeOK, RunsInGrid, [Next]_vars
               PROVE  Planner!Next \/ UNCHANGED <<now, windows, plan>>
    BY DEF Planner!vars
  <2>1. CASE SetupPolled \/ CyclePolled
    <3>1. windows' \in {{}} \cup {{w} : w \in Windows}
      BY <2>1 DEF SetupPolled, CyclePolled, Polled, TypeOK, AxleTypeOK, Reported
    <3>2. UNCHANGED <<now, plan>>
      BY <2>1 DEF SetupPolled, CyclePolled, planVars
    <3> QED BY <3>1, <3>2 DEF Planner!Next, Planner!Poll
  <2>2. CASE SetupRetried \/ Restart
    BY <2>2 DEF SetupRetried, Restart, NewCoordinator, NoPlan, Planner!Next,
                Planner!Restart, Planner!NoPlan
  <2>3. CASE Tick
    BY <2>3 DEF Tick, axleVars, planVars, Planner!Next, Planner!Tick
  <2>4. ASSUME NEW r \in Procs, RunStep(r)
        PROVE  Planner!Next \/ UNCHANGED <<now, windows, plan>>
    <3>1. CASE Commit(r)
      BY <3>1, CommitReplans DEF Planner!Next
    <3>2. CASE DropPlan(r)
      BY <3>2 DEF DropPlan, Return, NoPlan, Planner!Next, Planner!Drop, Planner!NoPlan
    <3>3. CASE RatesFetched(r) \/ ForecastFetched(r) \/ Abandon(r) \/ StatusRefreshed(r)
      BY <3>3 DEF RatesFetched, ForecastFetched, Abandon, StatusRefreshed, Return,
                  axleVars, planVars
    <3> QED BY <2>4, <3>1, <3>2, <3>3 DEF RunStep
  <2>5. ASSUME NEW r \in Tasks, PlanningTimer(r) \/ TriggerPlanning(r)
        PROVE  UNCHANGED <<now, windows, plan>>
    BY <2>5 DEF PlanningTimer, TriggerPlanning, axleVars, planVars
  <2>6. CASE Boot \/ SetupFailed \/ StartCycle \/ CycleFailed \/ Release \/ SocReport
               \/ UNCHANGED vars
    BY <2>6 DEF Boot, SetupFailed, StartCycle, CycleFailed, Release, SocReport, vars,
                axleVars, planVars
  <2> QED BY <2>1, <2>2, <2>3, <2>4, <2>5, <2>6 DEF Next
<1> QED BY <1>1, <1>2, TypeCorrect, RunsStayInGrid, PTL
        DEF Spec, PlansAtomically, Planner!Spec
=============================================================================
