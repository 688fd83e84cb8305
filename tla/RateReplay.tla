----------------------------- MODULE RateReplay -----------------------------
(***************************************************************************)
(* How the tariff comparison prices half-hours.  TariffComparisonClient    *)
(* fetches the rates of a window and the one before it and spreads them    *)
(* over the half-hours; calculate_tariff_cost replays the meter's readings *)
(* at those rates, and TariffSimulator plans each day at them.  Time is    *)
(* counted in half-hours from the start of the window.                     *)
(***************************************************************************)
EXTENDS Integers
LOCAL INSTANCE FiniteSetsExt

CONSTANTS Window,        \* half-hours from period_from to period_to
          SlotsPerDay,   \* 48
          Prices,        \* unit rates; they may be zero or negative
          NoPrice        \* no rate

ASSUME RateReplayAssumption ==
  /\ Window \in Nat /\ SlotsPerDay \in Nat \ {0}
  /\ Prices \subseteq Int /\ NoPrice \notin Prices

VARIABLES ratePc,        \* where the comparison is
          inForce,       \* the tariff's rate in each half-hour
          rows,          \* what fetch_unit_rates returns: from the places of the
                         \* rates, in the order of their starts, to the rates
          seeded,        \* whether the fetch of the rate before the window
                         \* found one
          ratePtr,       \* rate_idx
          ratesAt,       \* the rate map, up to the half-hour ratePc is at
          slotAt,        \* that half-hour
          lastRate,      \* last_import_rate of the replay and the simulator
          priced         \* what the last half-hour was priced at

rateVars == <<ratePc, inForce, rows, seeded, ratePtr, ratesAt, slotAt, lastRate, priced>>

Slots == 0 .. Window - 1
Times == -2 .. Window
NoRows == [k \in {} |-> NoPrice]
Place(t) == 2 * t        \* of the rate that starts at t
SeedPlace == Place(0) - 1
Unpriced == [slot |-> 0, replay |-> NoPrice, simulated |-> NoPrice]

RateTypeOK ==
  /\ ratePc \in {"idle", "seed", "latest", "walk", "reprice"}
  /\ inForce \in [Times -> Prices \cup {NoPrice}]
  /\ DOMAIN rows \subseteq Place(-2) .. Place(Window)
  /\ rows \in [DOMAIN rows -> [from : Times, to : -1 .. Window + 1, rate : Prices]]
  /\ seeded \in BOOLEAN /\ ratePtr \in Place(-2) .. Place(Window + 1)
  /\ ratesAt \in [Slots -> Prices \cup {NoPrice}] /\ slotAt \in 0 .. Window
  /\ lastRate \in [{"replay", "simulator"} -> Prices \cup {0}]
  /\ priced \in [slot : 0 .. Window, replay : Prices \cup {NoPrice, 0},
                 simulated : Prices \cup {NoPrice}]

RateInit ==
  /\ ratePc = "idle" /\ inForce = [t \in Times |-> NoPrice] /\ rows = NoRows
  /\ seeded = FALSE /\ ratePtr = Place(-2) /\ ratesAt = [s \in Slots |-> NoPrice] /\ slotAt = 0
  /\ lastRate = [x \in {"replay", "simulator"} |-> 0] /\ priced = Unpriced
-----------------------------------------------------------------------------
(***************************************************************************)
(* The bands the API holds: one for each stretch of one rate.              *)
(***************************************************************************)
Starts(force) ==
  {t \in Times : force[t] # NoPrice /\ (t = -2 \/ force[t - 1] # force[t])}

BandEnd(force, t) == Min({u \in t + 1 .. Window : force[u] # force[t]} \cup {Window + 1})

Band(force, t) == [from |-> t, to |-> BandEnd(force, t), rate |-> force[t]]

BandsIn(force, a, b) ==
  LET within == {t \in Starts(force) : t < b /\ BandEnd(force, t) > a}
  IN [k \in {Place(t) : t \in within} |-> Band(force, k \div 2)]

Latest(bands) == bands[Max(DOMAIN bands)].rate

(***************************************************************************)
(* fetch_unit_rates.  The rate before the window is given the window's     *)
(* first half-hour (for ever, in the first form), after the rates that     *)
(* start earlier and before those that start with the window.  With        *)
(* neither, the latest rate of all stands in for it.                       *)
(***************************************************************************)
SeedRowForEver(rate) == [from |-> 0, to |-> Window + 1, rate |-> rate]

SeedRow(rate) == [from |-> 0, to |-> 1, rate |-> rate]

WithSeed(rate) ==
  [k \in DOMAIN rows \cup {SeedPlace} |-> IF k = SeedPlace THEN SeedRow(rate) ELSE rows[k]]

FetchRates ==
  /\ ratePc = "idle"
  /\ inForce' \in [Times -> Prices \cup {NoPrice}]
  /\ rows' = BandsIn(inForce', 0, Window)
  /\ ratePc' = "seed"
  /\ UNCHANGED <<seeded, ratePtr, ratesAt, slotAt, lastRate, priced>>

SeedFetched ==
  /\ ratePc = "seed"
  /\ LET earlier == BandsIn(inForce, -2, 0)
     IN earlier # NoRows /\ rows' = WithSeed(Latest(earlier))
  /\ seeded' = TRUE /\ ratePc' = "walk"
  /\ UNCHANGED <<inForce, ratePtr, ratesAt, slotAt, lastRate, priced>>

NoSeed ==                \* nothing earlier, or the request failed
  /\ ratePc = "seed"
  /\ ratePc' = IF rows = NoRows THEN "latest" ELSE "walk"
  /\ UNCHANGED <<inForce, rows, seeded, ratePtr, ratesAt, slotAt, lastRate, priced>>

LatestFetched ==
  /\ ratePc = "latest" /\ ratePc' = "walk"
  /\ \/ UNCHANGED rows
     \/ LET all == BandsIn(inForce, -2, Window + 1)
        IN all # NoRows /\ rows' = WithSeed(Latest(all))
  /\ UNCHANGED <<inForce, seeded, ratePtr, ratesAt, slotAt, lastRate, priced>>

(***************************************************************************)
(* _build_historical_rate_map, one half-hour: the pointer passes the rates *)
(* that have ended; a rate found is kept until another is.  (It is why the *)
(* forward fill that follows has nothing to fill.)                         *)
(***************************************************************************)
Ahead == {k \in DOMAIN rows : k >= ratePtr /\ rows[k].to > slotAt}

WalkSlot ==
  /\ ratePc = "walk" /\ slotAt < Window
  /\ LET i == Min(Ahead \cup {Place(Window + 1)})
         found == i \in DOMAIN rows /\ rows[i].from <= slotAt
         kept == IF slotAt = 0 THEN NoPrice ELSE ratesAt[slotAt - 1]
     IN /\ ratePtr' = i
        /\ ratesAt' = [ratesAt EXCEPT ![slotAt] = IF found THEN rows[i].rate ELSE kept]
  /\ slotAt' = slotAt + 1
  /\ UNCHANGED <<ratePc, inForce, rows, seeded, lastRate, priced>>

MapBuilt ==
  /\ ratePc = "walk" /\ slotAt = Window
  /\ ratePc' = "reprice" /\ slotAt' = 0
  /\ UNCHANGED <<inForce, rows, seeded, ratePtr, ratesAt, lastRate, priced>>

(***************************************************************************)
(* _lookup_rate of the simulator, which has the rates of one day: the rate *)
(* itself, the last one used if positive, the latest earlier one, the      *)
(* first.  A day without any rate is skipped.                              *)
(***************************************************************************)
DayOf(s) == s \div SlotsPerDay

Known(s) == {k \in Slots : DayOf(k) = DayOf(s) /\ ratesAt[k] # NoPrice}

LookupRate(s, last) ==
  IF s \in Known(s) THEN ratesAt[s]
  ELSE IF last > 0 THEN last
  ELSE IF \E k \in Known(s) : k < s THEN ratesAt[Max({k \in Known(s) : k < s})]
  ELSE ratesAt[Min(Known(s))]

(***************************************************************************)
(* calculate_tariff_cost and simulate_day at one half-hour.  The meter may *)
(* have no reading of it; the replay keeps its last rate where it finds    *)
(* none, starting from zero, the simulator its own for a day.              *)
(***************************************************************************)
Replayed(s) == IF ratesAt[s] # NoPrice THEN ratesAt[s] ELSE lastRate["replay"]

LastOfDay(s) == IF s % SlotsPerDay = 0 THEN 0 ELSE lastRate["simulator"]

Simulated(s) == IF Known(s) = {} THEN NoPrice ELSE LookupRate(s, LastOfDay(s))

RepriceSlot ==
  /\ ratePc = "reprice" /\ slotAt < Window
  /\ \E replay \in {NoPrice, Replayed(slotAt)} :
       LET simulated == Simulated(slotAt)
       IN /\ priced' = [slot |-> slotAt, replay |-> replay, simulated |-> simulated]
          /\ lastRate' = [replay |-> IF replay = NoPrice THEN lastRate["replay"] ELSE replay,
                          simulator |-> IF simulated = NoPrice THEN LastOfDay(slotAt)
                                        ELSE simulated]
  /\ slotAt' = slotAt + 1
  /\ UNCHANGED <<ratePc, inForce, rows, seeded, ratePtr, ratesAt>>

WindowPriced ==
  /\ ratePc = "reprice" /\ slotAt = Window
  /\ ratePc' = "idle" /\ inForce' = [t \in Times |-> NoPrice] /\ rows' = NoRows
  /\ seeded' = FALSE /\ ratePtr' = Place(-2) /\ ratesAt' = [s \in Slots |-> NoPrice] /\ slotAt' = 0
  /\ lastRate' = [x \in {"replay", "simulator"} |-> 0] /\ priced' = Unpriced

RateNext ==
  \/ FetchRates \/ SeedFetched \/ NoSeed \/ LatestFetched
  \/ WalkSlot \/ MapBuilt \/ RepriceSlot \/ WindowPriced

RateSpec == RateInit /\ [][RateNext]_rateVars
-----------------------------------------------------------------------------
(***************************************************************************)
(* Whatever the tariff's rates were, and whatever gaps the API has, a      *)
(* half-hour is replayed and simulated at the rate in force, or the last   *)
(* one before a gap; only the first half-hour of the window (and a gap     *)
(* right after it) may still be priced at the rate before it.              *)
(***************************************************************************)
Covered(s) == {t \in -2 .. s : inForce[t] # NoPrice /\ (t >= 0 \/ seeded)}

Due(s) ==
  LET last == Max(Covered(s))
  IN {inForce[last]} \cup (IF last = 0 THEN {inForce[t] : t \in Covered(0)} ELSE {})

PricedInForce ==
  ratePc = "reprice" /\ Covered(priced.slot) # {} =>
    {priced.replay, priced.simulated} \subseteq Due(priced.slot) \cup {NoPrice}
=============================================================================
