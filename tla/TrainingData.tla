---------------------------- MODULE TrainingData ----------------------------
(***************************************************************************)
(* build_training_dataframe: the stages that clean the history before a    *)
(* model is trained.  Which rows a statistic removes (correlation, z-score,*)
(* quartiles) is left open; which rows those stages may look at, and the   *)
(* exclusions around gaps and runs, are as in the code.                    *)
(***************************************************************************)
EXTENDS GivEnergyHistory, FiniteSets

CONSTANTS MaxSlotEnergy, \* _MAX_SLOT_KWH
          LoadFloor,     \* _LARGE_LOAD_FLOOR_KWH
          RunSlots,      \* _MIN_RUN_SLOTS
          FlatSlots,     \* _FLATLINE_MIN_SLOTS
          CleanSlots     \* _MIN_CLEAN_SLOTS

ASSUME TrainingDataAssumption ==
  {MaxSlotEnergy, LoadFloor, RunSlots, FlatSlots, CleanSlots} \subseteq Nat

VARIABLES cleanPc,       \* the stage build_training_dataframe is at
          demanding,     \* half-hours whose physics_kwh is above the threshold
          kept           \* the rows left

cleanVars == <<histPc, histPage, used, points, history, cleanPc, demanding, kept>>

CleanTypeOK ==
  /\ HistTypeOK
  /\ cleanPc \in {"idle", "hard", "ev", "fences", "flat", "gate", "trained", "insufficient",
                  "no data"}
  /\ demanding \subseteq HistSlots /\ kept \subseteq HistSlots

CleanInit == HistInit /\ cleanPc = "idle" /\ demanding = {} /\ kept = {}

-----------------------------------------------------------------------------
(***************************************************************************)
(* Stage 1 joins the history with the temperatures, of which one may be    *)
(* missing, and the physics, which may be missing altogether.  Without a   *)
(* history nothing is trained.                                             *)
(***************************************************************************)
Align ==
  /\ cleanPc = "idle" /\ histPc = "series"
  /\ demanding' \in {{}, HistSlots}
  /\ \E missing \in HistSlots \cup {-1} : kept' = DOMAIN history \ {missing}
  /\ cleanPc' = IF kept' = {} THEN "insufficient" ELSE "hard"
  /\ UNCHANGED histVars

NoHistory ==
  /\ cleanPc = "idle" /\ histPc \in {"empty", "failed"}
  /\ cleanPc' = "no data"
  /\ UNCHANGED <<histPc, histPage, used, points, history, demanding, kept>>

(***************************************************************************)
(* Stage 2: readings of nothing where physics has demand, readings above   *)
(* the bound, and then both sides of every gap, those the first two        *)
(* exclusions have made included.  The first form looks for gaps first.    *)
(***************************************************************************)
Implausible(S) ==
  {s \in S : (s \in demanding /\ history[s] = 0) \/ history[s] > MaxSlotEnergy}

BesideGap(S) ==
  {s \in S : \/ s - 1 \notin S /\ \E t \in S : t < s
             \/ s + 1 \notin S /\ \E t \in S : t > s}

HardExcludedGapsFirst(S) == BesideGap(S) \cup Implausible(S)

HardExcluded(S) == Implausible(S) \cup BesideGap(S \ Implausible(S))

HardExclusions ==
  /\ cleanPc = "hard"
  /\ kept' = kept \ HardExcluded(kept)
  /\ cleanPc' = IF kept' = {} THEN "insufficient" ELSE "ev"
  /\ UNCHANGED <<histPc, histPage, used, points, history, demanding>>

(***************************************************************************)
(* Runs of rows: neighbours in the table, whatever the time between them.  *)
(***************************************************************************)
Span(a, b) == {s \in kept : a <= s /\ s <= b}

Beside(r) ==
  {s \in kept \ r : \E t \in r : Cardinality(Span(s, t)) = 2 \/ Cardinality(Span(t, s)) = 2}

LongRuns(S, n) ==
  {r \in {Span(a, b) : a, b \in S} :
     Cardinality(r) >= n /\ r \subseteq S /\ Beside(r) \cap S = {}}

(***************************************************************************)
(* detect_ev_blocks: runs of large loads, also larger than physics says by *)
(* some threshold, that do not follow the temperature, and a row on each   *)
(* side.                                                                   *)
(***************************************************************************)
DropEvBlocks ==
  /\ cleanPc = "ev"
  /\ \E candidates \in SUBSET {s \in kept : history[s] > LoadFloor} :
       \E blocks \in SUBSET LongRuns(candidates, RunSlots) :
         kept' = kept \ UNION {r \cup Beside(r) : r \in blocks}
  /\ cleanPc' = "fences"
  /\ UNCHANGED <<histPc, histPage, used, points, history, demanding>>

(***************************************************************************)
(* Stages 4 and 5: outliers among the rows of the same time of day; an     *)
(* upper fence always, the residuals only with physics.  Neither removes   *)
(* all rows of a time of day, and the fence only what is above one it      *)
(* leaves.                                                                 *)
(***************************************************************************)
DropOutliers ==
  /\ cleanPc = "fences"
  /\ \E out \in SUBSET kept :
       /\ \A s \in out : \E t \in kept \ out :
            /\ t % DaySlots = s % DaySlots
            /\ demanding # {} \/ history[t] < history[s]
       /\ kept' = kept \ out
  /\ cleanPc' = "flat"
  /\ UNCHANGED <<histPc, histPage, used, points, history, demanding>>

(***************************************************************************)
(* _detect_flatlines: runs of one reading other than zero.                 *)
(***************************************************************************)
FlatRuns ==
  UNION {LongRuns({s \in kept : history[s] = v}, FlatSlots)
           : v \in {history[s] : s \in kept} \ {0}}

DropFlatlines ==
  /\ cleanPc = "flat"
  /\ kept' = kept \ UNION FlatRuns
  /\ cleanPc' = "gate"
  /\ UNCHANGED <<histPc, histPage, used, points, history, demanding>>

QualityGate ==
  /\ cleanPc = "gate"
  /\ \/ Cardinality(kept) >= CleanSlots /\ cleanPc' = "trained"
     \/ cleanPc' = "insufficient"      \* too few rows, or one temperature
  /\ UNCHANGED <<histPc, histPage, used, points, history, demanding, kept>>

TrainingOver ==
  /\ cleanPc \in {"trained", "insufficient", "no data"}
  /\ histPc' = "idle" /\ histPage' = 0
  /\ used' = [s \in HistSlots |-> 0] /\ points' = NoPoints /\ history' = NoPoints
  /\ cleanPc' = "idle" /\ demanding' = {} /\ kept' = {}

CleanNext ==
  \/ HistNext /\ UNCHANGED <<cleanPc, demanding, kept>>
  \/ Align \/ NoHistory \/ HardExclusions \/ DropEvBlocks \/ DropOutliers
  \/ DropFlatlines \/ QualityGate \/ TrainingOver

CleanSpec == CleanInit /\ [][CleanNext]_cleanVars
-----------------------------------------------------------------------------
(***************************************************************************)
(* The first reading after missing ones has their energy too, and they are *)
(* zero: neither is learnt from where physics has demand, whatever else is *)
(* excluded around them.  Only the first row that is kept may be a sum: the *)
(* rows before it are gone, so no gap shows.                               *)
(***************************************************************************)
OwnEnergyTrained ==
  cleanPc = "trained" /\ demanding = HistSlots =>
    \A s \in kept : (\E t \in kept : t < s) => history[s] = used[s]
=============================================================================
