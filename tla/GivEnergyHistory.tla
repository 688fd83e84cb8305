-------------------------- MODULE GivEnergyHistory --------------------------
(***************************************************************************)
(* GivEnergyHistorySource.fetch: the past consumption of the house, day by *)
(* day and page by page.  The inverter reports the day's total so far; the *)
(* series has what was used in each half-hour.  Any reading may be missing *)
(* or malformed, any request may fail.  The readings of a day come in the  *)
(* order of time and never decrease; each half-hour has one (where the     *)
(* clock goes back, two readings have one time and the code keeps one).    *)
(***************************************************************************)
EXTENDS Integers
LOCAL INSTANCE FiniteSetsExt

CONSTANTS HistoryDays,   \* training_lookback_days
          DaySlots,      \* half-hours of a day
          PageSlots,     \* readings of a page
          Usages         \* what a half-hour may use

ASSUME HistoryAssumption ==
  /\ {HistoryDays, DaySlots, PageSlots} \subseteq Nat \ {0}
  /\ Usages \subseteq Nat /\ DaySlots % PageSlots = 0

VARIABLES histPc,        \* where fetch is
          histPage,      \* the page asked for, counted over all days
          used,          \* what each half-hour used
          points,        \* records: day's total by half-hour, those received
          history        \* the series returned

histVars == <<histPc, histPage, used, points, history>>

HistSlots == 0 .. HistoryDays * DaySlots - 1
HistPages == 0 .. (HistoryDays * DaySlots) \div PageSlots - 1
NoPoints == [s \in {} |-> 0]
HistDay(s) == s \div DaySlots
PageOf(s) == s \div PageSlots
EndOfDay(s) == HistDay(s) * DaySlots + (DaySlots - 1)

(***************************************************************************)
(* The energy of a day up to each of its half-hours.                       *)
(***************************************************************************)
RunningTotal(f) ==
  LET total[s \in HistSlots] ==
        (IF s % DaySlots = 0 THEN 0 ELSE total[s - 1]) + (IF s \in DOMAIN f THEN f[s] ELSE 0)
  IN total

DayTotal(s) == RunningTotal(used)[s]

HistTypeOK ==
  /\ histPc \in {"idle", "request", "retry", "received", "series", "empty", "failed"}
  /\ histPage \in HistPages \cup {(HistoryDays * DaySlots) \div PageSlots}
  /\ used \in [HistSlots -> Usages \cup {0}]
  /\ \A f \in {points, history} : DOMAIN f \subseteq HistSlots /\ f \in [DOMAIN f -> Nat]

HistInit ==
  /\ histPc = "idle" /\ histPage = 0
  /\ used = [s \in HistSlots |-> 0] /\ points = NoPoints /\ history = NoPoints
-----------------------------------------------------------------------------
FetchHistory ==
  /\ histPc = "idle" /\ histPc' = "request"
  /\ used' \in [HistSlots -> Usages]
  /\ UNCHANGED <<histPage, points, history>>

(***************************************************************************)
(* _get_page: a rate limit is waited for once; any other failure ends the  *)
(* fetch without a series, whatever was received before.                   *)
(***************************************************************************)
PageAnswered ==
  /\ histPc \in {"request", "retry"}
  /\ \E S \in SUBSET {s \in HistSlots : PageOf(s) = histPage} :
       points' = [s \in DOMAIN points \cup S |->
                    IF s \in DOMAIN points THEN points[s] ELSE DayTotal(s)]
  /\ histPage' = histPage + 1
  /\ histPc' = IF histPage + 1 \in HistPages THEN "request" ELSE "received"
  /\ UNCHANGED <<used, history>>

RateLimited ==
  /\ histPc = "request" /\ histPc' = "retry"
  /\ UNCHANGED <<histPage, used, points, history>>

PageFails ==
  /\ histPc \in {"request", "retry"} /\ histPc' = "failed"
  /\ UNCHANGED <<histPage, used, points, history>>

(***************************************************************************)
(* The total of a day starts from zero; the first form goes on from the    *)
(* day before.  resample().sum() makes zero of the half-hours between the  *)
(* first and the last that have no reading (so ffill finds none to fill).  *)
(***************************************************************************)
EarlierPointsOfAll(s) == {t \in DOMAIN points : t < s}

EarlierPoints(s) == {t \in DOMAIN points : t < s /\ HistDay(t) = HistDay(s)}

Increment(s) ==
  LET before == IF EarlierPoints(s) = {} THEN 0 ELSE points[Max(EarlierPoints(s))]
  IN IF points[s] > before THEN points[s] - before ELSE 0

Series ==
  [s \in Min(DOMAIN points) .. Max(DOMAIN points) |->
     IF s \in DOMAIN points THEN Increment(s) ELSE 0]

SeriesBuilt ==
  /\ histPc = "received"
  /\ IF points = NoPoints THEN histPc' = "empty" /\ UNCHANGED history
     ELSE histPc' = "series" /\ history' = Series
  /\ UNCHANGED <<histPage, used, points>>

HistNext ==
  FetchHistory \/ PageAnswered \/ RateLimited \/ PageFails \/ SeriesBuilt

HistSpec == HistInit /\ [][HistNext]_histVars
-----------------------------------------------------------------------------
(***************************************************************************)
(* Whichever readings are missing, the series has all the energy of a day  *)
(* up to its last reading, and none twice.                                 *)
(***************************************************************************)
EnergyKept ==
  histPc = "series" =>
    \A s \in DOMAIN points :
      (\A t \in DOMAIN points : t > s => HistDay(t) # HistDay(s)) =>
        RunningTotal(history)[EndOfDay(s)] = DayTotal(s)
=============================================================================
