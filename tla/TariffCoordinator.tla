------------------------- MODULE TariffCoordinator -------------------------
(***************************************************************************)
(* The tariff comparison: update cycles, the background fetch, one         *)
(* simulation per tariff, and the cache file they share.                   *)
(*                                                                         *)
(* A step is the code between two awaits.  Time is counted in months: the  *)
(* month the comparison is about.  Costs are left out; of rates the model  *)
(* keeps the month they were fetched for, of a simulation the month it was *)
(* run for.  A reload of the integration makes a new coordinator and does  *)
(* not stop the tasks of the old one.                                      *)
(***************************************************************************)
EXTENDS Integers, FiniteSets

CONSTANTS Tariffs,       \* the tariffs compared, none of them the account's own
          Fixed,         \* those whose last rate has no end
          Cycles,        \* update cycles that may overlap
          OnDisk,        \* the files a first start may find
          HasExport,     \* whether the account has an export tariff
          OwnListed,     \* whether its own import tariff is configured too
          MaxMonth,      \* bound on the month
          MaxReloads,    \* bound on reloads of the integration
          MaxEvents      \* bound on new months, agings, refreshes, reloads

Months == 0 .. MaxMonth
None == -1
PerTariff == [Tariffs -> Months \cup {None}]
Caches == [month : Months \cup {None}, fresh : BOOLEAN, rates : PerTariff, sims : PerTariff]
NoRates == [t \in Tariffs |-> None]
NoCache == [month |-> None, fresh |-> FALSE, rates |-> NoRates, sims |-> NoRates]

ASSUME TariffAssumption ==
  /\ Fixed \subseteq Tariffs /\ IsFiniteSet(Tariffs)
  /\ HasExport \in BOOLEAN /\ OwnListed \in BOOLEAN
  /\ \A d \in OnDisk : d \in Caches /\ (d.month = None => d = NoCache)
  /\ MaxMonth \in Nat /\ MaxReloads \in Nat /\ MaxEvents \in Nat

VARIABLES month,         \* the last complete month
          disk,          \* the cache file
          gen,           \* the coordinator in hass.data: its number
          force,         \* per coordinator, _force_refresh
          data,          \* the month of the consumption its data shows
          cycle,         \* _async_update_data: where each cycle is
          fetch,         \* per coordinator, _fetch_task
          sim,           \* per coordinator and tariff, _simulation_tasks
          landing,       \* writes the executor has begun for cancelled tasks
          events         \* external events so far

vars == <<month, disk, gen, force, data, cycle, fetch, sim, landing, events>>

Gens == 0 .. MaxReloads
NoFetch == [pc |-> "none", month |-> None, rates |-> NoRates]
NoSim == [pc |-> "none", month |-> None, rates |-> FALSE, seen |-> NoCache]
Idle == [pc |-> "idle", gen |-> 0, month |-> None, seen |-> NoCache]

TypeOK ==
  /\ month \in Months /\ gen \in Gens /\ force \in [Gens -> BOOLEAN]
  /\ disk \in Caches /\ (disk.month = None => disk = NoCache)
  /\ data \in Months \cup {None}
  /\ cycle \in [Cycles -> [pc : {"idle", "read", "decide"}, gen : Gens,
                           month : Months \cup {None}, seen : Caches]]
  /\ fetch \in [Gens -> [pc : {"none", "run", "write", "calculate"},
                         month : Months \cup {None}, rates : PerTariff]]
  /\ sim \in [Gens -> [Tariffs -> [pc : {"none", "run", "read", "write"},
                                   month : Months \cup {None},
                                   rates : BOOLEAN, seen : Caches]]]
  /\ landing \subseteq Caches /\ \A p \in landing : p.month # None
  /\ events \in 0 .. MaxEvents

Init ==
  /\ month = 0 /\ gen = 0 /\ force = [g \in Gens |-> TRUE] /\ data = None
  /\ disk \in OnDisk
  /\ cycle = [c \in Cycles |-> Idle]
  /\ fetch = [g \in Gens |-> NoFetch]
  /\ sim = [g \in Gens |-> [t \in Tariffs |-> NoSim]]
  /\ landing = {} /\ events = 0
-----------------------------------------------------------------------------
(***************************************************************************)
(* Rates fetched for month r are mapped to the half-hours of month m when  *)
(* one of them covers it: those of a fixed tariff go on.                   *)
(***************************************************************************)
Usable(t, r, m) == r # None /\ (r = m \/ (t \in Fixed /\ r < m))

(***************************************************************************)
(* _rates_cover_period looks at the start of the first rate only.          *)
(***************************************************************************)
Covers(r, m) == r # None /\ r <= m

(***************************************************************************)
(* _start_simulations: a tariff whose simulation still runs is passed      *)
(* over, one that is not in the rates returns at once.                     *)
(***************************************************************************)
StartSimulations(g, ts, rates, m) ==
  sim' = [sim EXCEPT ![g] = [t \in Tariffs |->
            IF t \in ts /\ sim[g][t].pc = "none" /\ rates[t] # None
              THEN [pc |-> "run", month |-> m, rates |-> Usable(t, rates[t], m),
                    seen |-> NoCache]
              ELSE sim[g][t]]]

(***************************************************************************)
(* _async_update_data.  The period is chosen before the executor reads the *)
(* file; _force_refresh is looked at afterwards.  A fetch that is under way*)
(* is not started again.  A result made from the file, which a file that is*)
(* rejected gives too, is of the consumption in it and shows its           *)
(* simulations if the file's month, which is also their stamp, is the      *)
(* present one.  The first form of Valid forgets the month, the first form *)
(* of CacheUsed the simulations that are missing.                          *)
(***************************************************************************)
Overlaid(c) ==
  {t \in Tariffs : cycle[c].seen.sims[t] # None /\ cycle[c].seen.month = month}

Begun == [pc |-> "read", gen |-> gen, month |-> month, seen |-> NoCache]

Shown(g, m) == data' = IF g = gen THEN m ELSE data

CycleStarts(c) ==
  /\ cycle[c].pc = "idle"
  /\ cycle' = [cycle EXCEPT ![c] = Begun]
  /\ UNCHANGED <<month, disk, gen, force, data, fetch, sim, landing, events>>

CycleReads(c) ==
  /\ cycle[c].pc = "read"
  /\ cycle' = [cycle EXCEPT ![c] = [pc |-> "decide", gen |-> @.gen, month |-> @.month,
                                    seen |-> disk]]
  /\ UNCHANGED <<month, disk, gen, force, data, fetch, sim, landing, events>>

ValidAnyMonth(c) ==
  ~force[cycle[c].gen] /\ cycle[c].seen # NoCache /\ cycle[c].seen.fresh

Valid(c) ==
  /\ ~force[cycle[c].gen] /\ cycle[c].seen # NoCache
  /\ cycle[c].seen.month = cycle[c].month /\ cycle[c].seen.fresh

CacheUsedAsIs(c) ==
  /\ cycle[c].pc = "decide" /\ Valid(c)
  /\ Shown(cycle[c].gen, cycle[c].seen.month)
  /\ cycle' = [cycle EXCEPT ![c] = Idle]
  /\ UNCHANGED <<month, disk, gen, force, fetch, sim, landing, events>>

CacheUsed(c) ==
  LET seen == cycle[c].seen
  IN /\ cycle[c].pc = "decide" /\ Valid(c)
     /\ Shown(cycle[c].gen, seen.month)
     /\ StartSimulations(cycle[c].gen, {t \in Tariffs : seen.sims[t] = None}, seen.rates,
                         cycle[c].month)
     /\ cycle' = [cycle EXCEPT ![c] = Idle]
     /\ UNCHANGED <<month, disk, gen, force, fetch, landing, events>>

CacheRejected(c) ==
  LET g == cycle[c].gen
      seen == cycle[c].seen
  IN /\ cycle[c].pc = "decide" /\ ~Valid(c)
     /\ force' = [force EXCEPT ![g] = FALSE]
     /\ fetch' = IF fetch[g].pc = "none"
                   THEN [fetch EXCEPT ![g] = [pc |-> "run", month |-> cycle[c].month,
                                              rates |-> seen.rates]]
                   ELSE fetch
     /\ Shown(g, seen.month)
     /\ cycle' = [cycle EXCEPT ![c] = Idle]
     /\ UNCHANGED <<month, disk, gen, sim, landing, events>>
-----------------------------------------------------------------------------
(***************************************************************************)
(* The background fetch.  Consumption that cannot be fetched ends it, and  *)
(* so do as many errors as tariffs are configured, the account's own       *)
(* included: every tariff may add one for its own rates and one for the    *)
(* export tariff all of them share.                                        *)
(***************************************************************************)
Configured == Cardinality(Tariffs) + (IF OwnListed THEN 1 ELSE 0)

OtherErrors ==
  0 .. (IF OwnListed THEN 1 ELSE 0) + (IF HasExport THEN Configured ELSE 0)

FetchFailed(g) ==
  /\ fetch[g].pc = "run"
  /\ fetch' = [fetch EXCEPT ![g] = NoFetch]
  /\ UNCHANGED <<month, disk, gen, force, data, cycle, sim, landing, events>>

RatesFetched(g) ==
  LET f == fetch[g]
      missing == {t \in Tariffs : ~Covers(f.rates[t], f.month)}
  IN /\ f.pc = "run"
     /\ \E failed \in SUBSET missing, k \in OtherErrors :
          /\ Cardinality(failed) + k # Configured
          /\ fetch' = [fetch EXCEPT ![g] =
               [pc |-> "write", month |-> f.month,
                rates |-> [t \in Tariffs |-> CASE t \in failed -> None
                                               [] t \in missing \ failed -> f.month
                                               [] OTHER -> f.rates[t]]]]
     /\ UNCHANGED <<month, disk, gen, force, data, cycle, sim, landing, events>>

(***************************************************************************)
(* write_cache replaces the file as a whole, or logs that it could not.    *)
(* The first form stores for the month before.                             *)
(***************************************************************************)
Payload(g) ==
  [month |-> fetch[g].month, fresh |-> TRUE, rates |-> fetch[g].rates, sims |-> NoRates]

CacheWrittenBack(g) ==
  /\ fetch[g].pc = "write"
  /\ disk' = [Payload(g) EXCEPT !.month = @ - 1]
  /\ fetch' = [fetch EXCEPT ![g].pc = "calculate"]
  /\ UNCHANGED <<month, gen, force, data, cycle, sim, landing, events>>

CacheWritten(g) ==
  /\ fetch[g].pc = "write"
  /\ disk' = Payload(g) \/ UNCHANGED disk
  /\ fetch' = [fetch EXCEPT ![g].pc = "calculate"]
  /\ UNCHANGED <<month, gen, force, data, cycle, sim, landing, events>>

FetchEnds(g) ==
  LET f == fetch[g]
  IN /\ f.pc = "calculate"
     /\ Shown(g, f.month)
     /\ StartSimulations(g, Tariffs, f.rates, f.month)
     /\ fetch' = [fetch EXCEPT ![g] = NoFetch]
     /\ UNCHANGED <<month, disk, gen, force, cycle, landing, events>>
-----------------------------------------------------------------------------
(***************************************************************************)
(* _run_tariff_simulation.  It ends without a result when no day could be  *)
(* simulated, which without rates for the period is always.                *)
(***************************************************************************)
Skipped(g, t) ==
  /\ sim[g][t].pc = "run"
  /\ sim' = [sim EXCEPT ![g][t] = NoSim]
  /\ UNCHANGED <<month, disk, gen, force, data, cycle, fetch, landing, events>>

Simulated(g, t) ==
  /\ sim[g][t].pc = "run" /\ sim[g][t].rates
  /\ sim' = [sim EXCEPT ![g][t].pc = "read"]
  /\ UNCHANGED <<month, disk, gen, force, data, cycle, fetch, landing, events>>

(***************************************************************************)
(* _persist_simulation_result: read, add, write, with awaits in between.   *)
(* The stamp it gives the result is the month of the file it read.         *)
(***************************************************************************)
PersistRead(g, t) ==
  /\ sim[g][t].pc = "read"
  /\ sim' = [sim EXCEPT ![g][t] =
       IF disk = NoCache THEN NoSim
         ELSE [pc |-> "write", month |-> @.month, rates |-> @.rates, seen |-> disk]]
  /\ UNCHANGED <<month, disk, gen, force, data, cycle, fetch, landing, events>>

Persisted(g, t) == [sim[g][t].seen EXCEPT !.sims[t] = sim[g][t].month]

PersistWritten(g, t) ==
  /\ sim[g][t].pc = "write"
  /\ disk' = Persisted(g, t) \/ UNCHANGED disk
  /\ sim' = [sim EXCEPT ![g][t] = NoSim]
  /\ UNCHANGED <<month, gen, force, data, cycle, fetch, landing, events>>
-----------------------------------------------------------------------------
Event == events < MaxEvents /\ events' = events + 1

(***************************************************************************)
(* refresh_tariff_comparison: fetch and simulations are cancelled, then a  *)
(* cycle begins.  A write the executor has begun is not undone.  The first *)
(* form leaves a fetch that is under way to answer the request.            *)
(***************************************************************************)
InFlight(g) ==
  {Payload(h) : h \in {h \in {g} : fetch[h].pc = "write"}}
    \cup {Persisted(g, t) : t \in {t \in Tariffs : sim[g][t].pc = "write"}}

RefreshWithoutCancel(c) ==
  /\ Event /\ cycle[c].pc = "idle"
  /\ force' = [force EXCEPT ![gen] = TRUE]
  /\ sim' = [sim EXCEPT ![gen] = [t \in Tariffs |-> NoSim]]
  /\ cycle' = [cycle EXCEPT ![c] = Begun]
  /\ UNCHANGED <<month, disk, gen, data, fetch, landing>>

RefreshNow(c) ==
  /\ Event /\ cycle[c].pc = "idle"
  /\ force' = [force EXCEPT ![gen] = TRUE]
  /\ fetch' = [fetch EXCEPT ![gen] = NoFetch]
  /\ sim' = [sim EXCEPT ![gen] = [t \in Tariffs |-> NoSim]]
  /\ \E begun \in SUBSET InFlight(gen) : landing' = landing \cup begun
  /\ cycle' = [cycle EXCEPT ![c] = Begun]
  /\ UNCHANGED <<month, disk, gen, data>>

Lands ==
  \E p \in landing :
    /\ landing' = landing \ {p}
    /\ disk' = p \/ UNCHANGED disk
    /\ UNCHANGED <<month, gen, force, data, cycle, fetch, sim, events>>

NewMonth ==
  /\ Event /\ month < MaxMonth /\ month' = month + 1
  /\ UNCHANGED <<disk, gen, force, data, cycle, fetch, sim, landing>>

CacheAges ==
  /\ Event /\ disk.fresh /\ disk' = [disk EXCEPT !.fresh = FALSE]
  /\ UNCHANGED <<month, gen, force, data, cycle, fetch, sim, landing>>

Reload ==
  /\ Event /\ gen < MaxReloads /\ gen' = gen + 1
  /\ data' = None
  /\ UNCHANGED <<month, disk, force, cycle, fetch, sim, landing>>
-----------------------------------------------------------------------------
CycleStep(c) == CycleStarts(c) \/ CycleReads(c) \/ CacheUsed(c) \/ CacheRejected(c)

FetchStep(g) == FetchFailed(g) \/ RatesFetched(g) \/ CacheWritten(g) \/ FetchEnds(g)

SimStep(g, t) ==
  \/ Skipped(g, t) \/ Simulated(g, t)
  \/ PersistRead(g, t) \/ PersistWritten(g, t)

Next ==
  \/ \E c \in Cycles : CycleStep(c) \/ RefreshNow(c)
  \/ \E g \in Gens : FetchStep(g) \/ \E t \in Tariffs : SimStep(g, t)
  \/ Lands \/ NewMonth \/ CacheAges \/ Reload

Spec == Init /\ [][Next]_vars

(***************************************************************************)
(* Cycles recur (weekly, or daily), and what the loop or the executor has  *)
(* to do is done.  For the coordinator in use, Octopus is not out of reach *)
(* for ever, days are not unsimulable for ever, and neither is the disk    *)
(* full for ever; nothing of the kind is assumed of one it has replaced.   *)
(***************************************************************************)
FetchSucceeds == RatesFetched(gen) /\ \A t \in Tariffs : fetch'[gen].rates[t] # None
CacheStored == CacheWritten(gen) /\ disk' = Payload(gen)
ResultStored(t) == PersistWritten(gen, t) /\ disk' = Persisted(gen, t)

FairSpec ==
  /\ Spec
  /\ WF_vars(Lands)
  /\ \A c \in Cycles : WF_vars(CycleStep(c))
  /\ SF_vars(FetchSucceeds) /\ SF_vars(CacheStored)
  /\ \A t \in Tariffs : SF_vars(Simulated(gen, t)) /\ SF_vars(ResultStored(t))
  /\ \A g \in Gens :
       /\ WF_vars(FetchStep(g))
       /\ \A t \in Tariffs :
            /\ WF_vars(Skipped(g, t) \/ Simulated(g, t))
            /\ WF_vars(PersistRead(g, t) \/ PersistWritten(g, t))
-----------------------------------------------------------------------------
(***************************************************************************)
(* "Force an immediate full refresh": while a forced refresh is pending,   *)
(* there is no older fetch under way that could be taken for its answer,   *)
(* whatever cycle gets to it first.                                        *)
(***************************************************************************)
ForcedIsNew == \A g \in Gens : force[g] => fetch[g].pc = "none"

(***************************************************************************)
(* Whatever is cancelled, overwritten, landed late or reloaded, and however*)
(* often, the file and the sensor each come to be about the last complete  *)
(* month.  (They need not stay, and not be so at once: a simulation that   *)
(* always reads the file before a fetch stores a new one, and writes after *)
(* it, can put the old one back, which the next cycle shows.)              *)
(***************************************************************************)
UpToDate == []<>(disk.month = month) /\ []<>(data = month)

(***************************************************************************)
(* A fixed tariff with rates in the file has, again and again, a result in *)
(* the file too: fetches drop it and late writes overwrite it, but later   *)
(* cycles run the simulations that are missing.                            *)
(***************************************************************************)
SimulatedAgain ==
  \A t \in Fixed : []<>(disk.rates[t] # None => disk.sims[t] # None)

(***************************************************************************)
(* __init__.py:1231, _rates_cover_period: rates from the cache are    *)
(* used again when they "contain a rate that covers period_from", so that  *)
(* the rates stored for a month can be mapped to it.                       *)
(***************************************************************************)
RatesOfPeriod ==
  \A t \in Tariffs : disk.rates[t] # None => Usable(t, disk.rates[t], disk.month)

(***************************************************************************)
(* __init__.py:605, _build_result_from_cache: stamps are compared "so      *)
(* stale simulations from a previous month are not shown against fresh     *)
(* consumption data".                                                      *)
(***************************************************************************)
StaleNotShown ==
  \A c \in Cycles : cycle[c].pc = "decide" =>
    \A t \in Overlaid(c) : cycle[c].seen.sims[t] = cycle[c].seen.month
=============================================================================
