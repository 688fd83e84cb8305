----------------------------- MODULE RateSlots -----------------------------
(***************************************************************************)
(* _expand_to_30min_slots: the rates a planning run fetched, spread over   *)
(* the half-hours of the next days.  A half-hour that no band covers takes *)
(* the band at its time of day, else the rate before it.                   *)
(***************************************************************************)
EXTENDS Integers, FiniteSets

CONSTANTS DayLen,        \* half-hours of a day
          DaysAhead,     \* days
          UnitRates      \* rates a tariff may have

ASSUME RateSlotsAssumption ==
  DayLen \in Nat \ {0} /\ DaysAhead \in Nat /\ UnitRates \subseteq Int

VARIABLES pattern,       \* the tariff: a rate for each time of day
          bands,         \* raw_rates
          current,       \* the half-hour that is priced next, from now on
          lastValue,     \* last_value
          slotRate       \* the rate of the half-hour before

slotVars == <<pattern, bands, current, lastValue, slotRate>>

Tod(t) == t % DayLen
BandSet == [start : -2 * DayLen .. 2 * DayLen, end : -2 * DayLen .. 2 * DayLen, rate : UnitRates]

SlotTypeOK ==
  /\ pattern \in [0 .. DayLen - 1 -> UnitRates \cup {0}] /\ bands \subseteq BandSet
  /\ current \in 0 .. DaysAhead * DayLen
  /\ {lastValue, slotRate} \subseteq UnitRates \cup {0}

SlotInit ==
  /\ pattern = [d \in 0 .. DayLen - 1 |-> 0] /\ bands = {} /\ current = 0
  /\ lastValue = 0 /\ slotRate = 0
-----------------------------------------------------------------------------
(***************************************************************************)
(* What the API returns: the bands of a stretch of time around now, of a   *)
(* day at least.  A band goes on for as long as the rate stays the same.   *)
(***************************************************************************)
BandsOf(rates, a, b) ==
  LET at(t) == rates[Tod(t)]
  IN {[start |-> p[1], end |-> p[2], rate |-> at(p[1])] :
        p \in {q \in (a .. b - 1) \X (a + 1 .. b) :
                 /\ q[1] < q[2] /\ \A t \in q[1] .. q[2] - 1 : at(t) = at(q[1])
                 /\ q[1] = a \/ at(q[1] - 1) # at(q[1])
                 /\ q[2] = b \/ at(q[2]) # at(q[1])}}

First(S) == CHOOSE r \in S : \A q \in S : r.start <= q.start

ExpandStarts ==
  /\ bands = {}
  /\ pattern' \in [0 .. DayLen - 1 -> UnitRates]
  /\ \E a \in -DayLen .. 0, b \in 1 .. 2 * DayLen :
       b - a >= DayLen /\ bands' = BandsOf(pattern', a, b)
  /\ lastValue' = First(bands').rate
  /\ UNCHANGED <<current, slotRate>>

(***************************************************************************)
(* The times of day of a band; one that ends no later in the day than it   *)
(* starts goes over midnight.  The first form has no such bands.           *)
(***************************************************************************)
AtTimeOfDaySameDay(r, t) == Tod(r.start) <= Tod(t) /\ Tod(t) < Tod(r.end)

AtTimeOfDay(r, t) ==
  IF Tod(r.end) > Tod(r.start) THEN Tod(r.start) <= Tod(t) /\ Tod(t) < Tod(r.end)
  ELSE Tod(t) >= Tod(r.start) \/ Tod(t) < Tod(r.end)

RateOf(t) ==
  LET covering == {r \in bands : r.start <= t /\ t < r.end}
      daily == {r \in bands : AtTimeOfDay(r, t)}
  IN IF covering # {} THEN First(covering).rate
     ELSE IF daily # {} THEN First(daily).rate ELSE lastValue

ExpandSlot ==
  /\ bands # {} /\ current < DaysAhead * DayLen
  /\ slotRate' = RateOf(current) /\ lastValue' = RateOf(current)
  /\ current' = current + 1
  /\ UNCHANGED <<pattern, bands>>

Expanded ==
  /\ current = DaysAhead * DayLen
  /\ pattern' = [d \in 0 .. DayLen - 1 |-> 0]
  /\ bands' = {} /\ current' = 0 /\ lastValue' = 0 /\ slotRate' = 0

SlotNext == ExpandStarts \/ ExpandSlot \/ Expanded

SlotSpec == SlotInit /\ [][SlotNext]_slotVars
-----------------------------------------------------------------------------
(***************************************************************************)
(* A tariff that repeats daily is priced right in every half-hour of the   *)
(* plan, whichever day of it the API has returned: bands that go over      *)
(* midnight, are cut by the end of the answer or last longer than a day    *)
(* included.                                                               *)
(***************************************************************************)
DailyRatesRepeat == current > 0 => slotRate = pattern[Tod(current - 1)]
=============================================================================
