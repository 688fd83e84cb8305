--------------------------- MODULE StandingCharges ---------------------------
(***************************************************************************)
(* calculate_tariff_cost: the standing charge of a month.  The charges of  *)
(* a tariff follow each other, each with an end but perhaps the last; they *)
(* change at local midnight, which need not be midnight in UTC.  Of each,  *)
(* whole days in the month are charged.  Time is counted in ticks from the *)
(* start of the month.  The rows of the API are taken to be of one payment *)
(* method: the client asks for no method, and rows of two would overlap.   *)
(***************************************************************************)
EXTENDS Integers

CONSTANTS DayTicks,      \* ticks of a day
          MonthDays      \* days of the month, or of the part of it compared

ASSUME StandingAssumption == DayTicks \in Nat \ {0} /\ MonthDays \in Nat \ {0}

VARIABLES firstFrom,     \* valid_from of the first charge
          nextFrom,      \* valid_from of the charge that is added next
          entries,       \* charges added so far
          daysCharged    \* days_active, summed over them

standingVars == <<firstFrom, nextFrom, entries, daysCharged>>

MonthEnd == MonthDays * DayTicks
AfterMonth == MonthEnd + 1  \* valid_to of a charge that goes on after the month

StandingTypeOK ==
  /\ firstFrom \in -1 .. MonthEnd - 1 /\ nextFrom \in -1 .. AfterMonth
  /\ entries \in Nat /\ daysCharged \in Nat

StandingInit == firstFrom = -1 /\ nextFrom = -1 /\ entries = 0 /\ daysCharged = 0
-----------------------------------------------------------------------------
Later(x, y) == IF x > y THEN x ELSE y
Earlier(x, y) == IF x < y THEN x ELSE y

(***************************************************************************)
(* What the API returns for the month: the first charge may have begun     *)
(* before it, or the tariff only in it.                                    *)
(***************************************************************************)
ChargesFetched ==
  /\ entries = 0
  /\ firstFrom' \in -1 .. MonthEnd - 1 /\ nextFrom' = firstFrom'
  /\ UNCHANGED <<entries, daysCharged>>

(***************************************************************************)
(* The part of a charge in the month; timedelta.days drops what is less    *)
(* than a day.  The first form does not clamp the start to the month.      *)
(***************************************************************************)
DaysActiveFrom(from, to) ==
  LET start == from
      end == Earlier(to, MonthEnd)
  IN IF start >= end THEN 0 ELSE (end - start) \div DayTicks

DaysActive(from, to) ==
  LET start == Later(from, 0)
      end == Earlier(to, MonthEnd)
  IN IF start >= end THEN 0 ELSE (end - start) \div DayTicks

ChargeAdded ==
  /\ nextFrom < MonthEnd
  /\ \E to \in nextFrom + 1 .. AfterMonth :
       /\ daysCharged' = daysCharged + DaysActive(nextFrom, to)
       /\ nextFrom' = to
  /\ entries' = entries + 1
  /\ UNCHANGED firstFrom

MonthCharged ==
  /\ entries > 0
  /\ firstFrom' = -1 /\ nextFrom' = -1 /\ entries' = 0 /\ daysCharged' = 0

StandingNext == ChargesFetched \/ ChargeAdded \/ MonthCharged

StandingSpec == StandingInit /\ [][StandingNext]_standingVars
-----------------------------------------------------------------------------
(***************************************************************************)
(* No day of the month is charged twice or without a charge in force, and  *)
(* each charge loses less than a day: a month with charges all through it  *)
(* lacks fewer days than there were charges.                               *)
(***************************************************************************)
InForce == Later(Earlier(nextFrom, MonthEnd) - Later(firstFrom, 0), 0)

DaysChargedOnce ==
  /\ daysCharged * DayTicks <= InForce
  /\ InForce - daysCharged * DayTicks <= entries * (DayTicks - 1)
=============================================================================
