---------------------- MODULE TariffCoordinator_proofs ----------------------
(***************************************************************************)
(* What the tariff comparison keeps to, for any number of tariffs, cycles, *)
(* months and reloads.                                                     *)
(***************************************************************************)
EXTENDS TariffCoordinator, TLAPS

CycleRecs == [pc : {"idle", "read", "decide"}, gen : Gens, month : Months \cup {None},
              seen : Caches]
FetchSteps == {"none", "run", "write", "calculate"}
FetchRecs == [pc : FetchSteps, month : Months \cup {None}, rates : PerTariff]
SimSteps == {"none", "run", "read", "write"}
SimRecs == [pc : SimSteps, month : Months \cup {None}, rates : BOOLEAN, seen : Caches]

(***************************************************************************)
(* The type invariant in parts; a cycle, a fetch and a simulation that are *)
(* under way are about some month.                                         *)
(***************************************************************************)
OuterTypes ==
  /\ month \in Months /\ gen \in Gens /\ force \in [Gens -> BOOLEAN]
  /\ data \in Months \cup {None} /\ events \in 0 .. MaxEvents

Stored(d) == d \in Caches /\ (d.month = None => d = NoCache)

CycleTypes ==
  /\ cycle \in [Cycles -> CycleRecs]
  /\ \A c \in Cycles : cycle[c].pc # "idle" => cycle[c].month \in Months

FetchTypes ==
  /\ fetch \in [Gens -> FetchRecs]
  /\ \A g \in Gens : fetch[g].pc # "none" => fetch[g].month \in Months

SimTypes ==
  /\ sim \in [Gens -> [Tariffs -> SimRecs]]
  /\ \A g \in Gens, t \in Tariffs : sim[g][t].pc = "write" => sim[g][t].seen.month \in Months

Landing == \A p \in landing : p \in Caches /\ p.month \in Months

TariffInv ==
  /\ OuterTypes /\ Stored(disk) /\ CycleTypes /\ FetchTypes /\ SimTypes
  /\ Landing /\ ForcedIsNew
-----------------------------------------------------------------------------
(***************************************************************************)
(* The constants in the records.                                           *)
(***************************************************************************)
LEMMA Constants ==
  /\ 0 \in Months /\ 0 \in Gens /\ None \notin Months
  /\ NoRates \in PerTariff
  /\ NoCache \in Caches /\ NoCache.month = None /\ NoCache.fresh = FALSE
  /\ Idle \in CycleRecs /\ Idle.pc = "idle"
  /\ NoFetch \in FetchRecs /\ NoFetch.pc = "none"
  /\ NoSim \in SimRecs /\ NoSim.pc = "none"
<1>1. 0 \in Months /\ 0 \in Gens /\ None \notin Months
  BY TariffAssumption DEF Months, Gens, None
<1>2. NoRates \in PerTariff
  BY DEF NoRates, PerTariff
<1> HIDE DEF NoRates
<1>3. NoCache \in Caches /\ NoCache.month = None /\ NoCache.fresh = FALSE
  BY <1>2 DEF NoCache, Caches
<1> HIDE DEF NoCache
<1>4. Idle \in CycleRecs /\ Idle.pc = "idle"
  BY <1>1, <1>3 DEF Idle, CycleRecs
<1>5. NoFetch \in FetchRecs /\ NoFetch.pc = "none"
  BY <1>2 DEF NoFetch, FetchRecs, FetchSteps
<1>6. NoSim \in SimRecs /\ NoSim.pc = "none"
  BY <1>3 DEF NoSim, SimRecs, SimSteps
<1> QED BY <1>1, <1>2, <1>3, <1>4, <1>5, <1>6

LEMMA CacheFields ==
  ASSUME NEW d \in Caches
  PROVE  /\ d.month \in Months \cup {None} /\ d.fresh \in BOOLEAN
         /\ d.rates \in PerTariff /\ d.sims \in PerTariff
  BY DEF Caches

(***************************************************************************)
(* What _persist_simulation_result and time make of a cache.               *)
(***************************************************************************)
LEMMA ResultAdded ==
  ASSUME NEW d \in Caches, NEW t \in Tariffs, NEW m \in Months \cup {None}
  PROVE  [d EXCEPT !.sims[t] = m] \in Caches /\ [d EXCEPT !.sims[t] = m].month = d.month
  BY DEF Caches, PerTariff

LEMMA Aged ==
  ASSUME NEW d \in Caches
  PROVE  [d EXCEPT !.fresh = FALSE] \in Caches /\ [d EXCEPT !.fresh = FALSE].month = d.month
  BY DEF Caches

(***************************************************************************)
(* A step of one simulation, of one fetch, of one cycle.                   *)
(***************************************************************************)
LEMMA SimStepTyped ==
  ASSUME SimTypes, NEW g \in Gens, NEW t \in Tariffs, NEW s \in SimRecs,
         s.pc = "write" => s.seen.month \in Months,
         sim' = [sim EXCEPT ![g][t] = s]
  PROVE  SimTypes'
<1>1. sim' \in [Gens -> [Tariffs -> SimRecs]]
  BY DEF SimTypes
<1>2. \A h \in Gens, u \in Tariffs : sim'[h][u] = IF h = g /\ u = t THEN s ELSE sim[h][u]
  BY DEF SimTypes
<1> QED BY <1>1, <1>2 DEF SimTypes

LEMMA FetchStepTyped ==
  ASSUME FetchTypes, NEW g \in Gens, NEW f \in FetchRecs,
         f.pc # "none" => f.month \in Months,
         fetch' = [fetch EXCEPT ![g] = f]
  PROVE  FetchTypes' /\ \A h \in Gens : fetch'[h] = IF h = g THEN f ELSE fetch[h]
  BY DEF FetchTypes

LEMMA FetchCleared ==
  ASSUME FetchTypes, NEW g \in Gens, fetch' = [fetch EXCEPT ![g] = NoFetch]
  PROVE  FetchTypes' /\ \A h \in Gens : h # g => fetch'[h] = fetch[h]
<1>1. NoFetch \in FetchRecs /\ NoFetch.pc = "none"
  BY Constants
<1>2. FetchTypes' /\ \A h \in Gens : fetch'[h] = IF h = g THEN NoFetch ELSE fetch[h]
  BY <1>1, FetchStepTyped
<1> QED BY <1>2

LEMMA CycleStepTyped ==
  ASSUME CycleTypes, NEW c \in Cycles, NEW r \in CycleRecs,
         r.month \in Months \/ r.pc = "idle",
         cycle' = [cycle EXCEPT ![c] = r]
  PROVE  CycleTypes'
  BY DEF CycleTypes

LEMMA CycleEndsTyped ==
  ASSUME CycleTypes, NEW c \in Cycles, cycle' = [cycle EXCEPT ![c] = Idle]
  PROVE  CycleTypes'
  BY Constants, CycleStepTyped

(***************************************************************************)
(* _start_simulations only begins simulations.                             *)
(***************************************************************************)
LEMMA StartSimulationsTyped ==
  ASSUME SimTypes, NEW g \in Gens, NEW ts, NEW rates, NEW m \in Months,
         StartSimulations(g, ts, rates, m)
  PROVE  SimTypes'
<1> DEFINE begun(t) == [pc |-> "run", month |-> m, rates |-> Usable(t, rates[t], m),
                        seen |-> NoCache]
           one == [t \in Tariffs |-> IF t \in ts /\ sim[g][t].pc = "none" /\ rates[t] # None
                                       THEN begun(t) ELSE sim[g][t]]
<1>1. ASSUME NEW t \in Tariffs PROVE begun(t) \in SimRecs /\ begun(t).pc = "run"
  <2>1. Usable(t, rates[t], m) \in BOOLEAN
    BY DEF Usable
  <2>2. NoCache \in Caches /\ "run" \in SimSteps
    BY Constants DEF SimSteps
  <2> HIDE DEF NoCache, Usable
  <2> QED BY <2>1, <2>2 DEF SimRecs
<1>2. sim' = [sim EXCEPT ![g] = one]
  BY DEF StartSimulations
<1> HIDE DEF begun
<1>3. one \in [Tariffs -> SimRecs] /\ \A t \in Tariffs : one[t] = begun(t) \/ one[t] = sim[g][t]
  BY <1>1 DEF SimTypes
<1> HIDE DEF one
<1>4. /\ sim' \in [Gens -> [Tariffs -> SimRecs]]
      /\ \A h \in Gens : sim'[h] = IF h = g THEN one ELSE sim[h]
  BY <1>2, <1>3 DEF SimTypes
<1> QED BY <1>1, <1>3, <1>4 DEF SimTypes

-----------------------------------------------------------------------------
(***************************************************************************)
(* Update cycles.                                                          *)
(***************************************************************************)
LEMMA BegunTyped ==
  ASSUME OuterTypes
  PROVE  Begun \in CycleRecs /\ Begun.month \in Months
<1>1. NoCache \in Caches
  BY Constants
<1> HIDE DEF NoCache
<1> QED BY <1>1 DEF Begun, CycleRecs, OuterTypes

LEMMA CycleStartsKeeps ==
  ASSUME TariffInv, NEW c \in Cycles, CycleStarts(c)
  PROVE  TariffInv'
<1> USE DEF TariffInv
<1>0. /\ cycle' = [cycle EXCEPT ![c] = Begun]
      /\ UNCHANGED <<month, disk, gen, force, data, fetch, sim, landing, events>>
  BY DEF CycleStarts
<1>1. CycleTypes'
  BY <1>0, BegunTyped, CycleStepTyped
<1> QED BY <1>0, <1>1 DEF OuterTypes, Stored, FetchTypes, SimTypes, Landing, ForcedIsNew

LEMMA UnderWayMonth ==
  ASSUME CycleTypes, NEW c \in Cycles, cycle[c].pc # "idle"
  PROVE  /\ cycle[c].month \in Months /\ cycle[c].seen \in Caches
         /\ cycle[c].gen \in Gens
  BY DEF CycleTypes, CycleRecs

LEMMA CycleReadsKeeps ==
  ASSUME TariffInv, NEW c \in Cycles, CycleReads(c)
  PROVE  TariffInv'
<1> USE DEF TariffInv
<1> DEFINE r == [pc |-> "decide", gen |-> cycle[c].gen, month |-> cycle[c].month,
                 seen |-> disk]
<1>0. /\ cycle[c].pc = "read" /\ cycle' = [cycle EXCEPT ![c] = r]
      /\ UNCHANGED <<month, disk, gen, force, data, fetch, sim, landing, events>>
  BY DEF CycleReads
<1>1. r \in CycleRecs /\ r.month \in Months
  BY <1>0, UnderWayMonth DEF CycleRecs, Stored
<1> HIDE DEF r
<1>2. CycleTypes'
  BY <1>0, <1>1, CycleStepTyped
<1> QED BY <1>0, <1>2 DEF OuterTypes, Stored, FetchTypes, SimTypes, Landing, ForcedIsNew

LEMMA ShownTyped ==
  ASSUME OuterTypes, NEW g, NEW m \in Months \cup {None}, Shown(g, m)
  PROVE  data' \in Months \cup {None}
  BY DEF OuterTypes, Shown

LEMMA CacheUsedKeeps ==
  ASSUME TariffInv, NEW c \in Cycles, CacheUsed(c)
  PROVE  TariffInv'
<1> USE DEF TariffInv
<1> DEFINE ts == {t \in Tariffs : cycle[c].seen.sims[t] = None}
           rates == cycle[c].seen.rates
           g == cycle[c].gen
<1>0. /\ cycle[c].pc = "decide" /\ Shown(g, cycle[c].seen.month)
      /\ StartSimulations(g, ts, rates, cycle[c].month)
      /\ cycle' = [cycle EXCEPT ![c] = Idle]
      /\ UNCHANGED <<month, disk, gen, force, fetch, landing, events>>
  BY DEF CacheUsed
<1>1. /\ cycle[c].month \in Months /\ g \in Gens
      /\ cycle[c].seen.month \in Months \cup {None}
  BY <1>0, UnderWayMonth, CacheFields
<1>2. CycleTypes'
  BY <1>0, CycleEndsTyped
<1>3. SimTypes'
  <2> HIDE DEF ts, rates, g
  <2> QED BY <1>0, <1>1, StartSimulationsTyped
<1>4. data' \in Months \cup {None}
  BY <1>0, <1>1, ShownTyped
<1> QED BY <1>0, <1>2, <1>3, <1>4
        DEF OuterTypes, Stored, FetchTypes, Landing, ForcedIsNew

LEMMA CacheRejectedKeeps ==
  ASSUME TariffInv, NEW c \in Cycles, CacheRejected(c)
  PROVE  TariffInv'
<1> USE DEF TariffInv
<1> DEFINE f == [pc |-> "run", month |-> cycle[c].month, rates |-> cycle[c].seen.rates]
           g == cycle[c].gen
<1>0. /\ cycle[c].pc = "decide" /\ force' = [force EXCEPT ![g] = FALSE]
      /\ fetch' = IF fetch[g].pc = "none" THEN [fetch EXCEPT ![g] = f] ELSE fetch
      /\ Shown(g, cycle[c].seen.month)
      /\ cycle' = [cycle EXCEPT ![c] = Idle]
      /\ UNCHANGED <<month, disk, gen, sim, landing, events>>
  BY DEF CacheRejected
<1>1. /\ cycle[c].month \in Months /\ cycle[c].seen.rates \in PerTariff /\ g \in Gens
      /\ cycle[c].seen.month \in Months \cup {None}
  BY <1>0, UnderWayMonth, CacheFields
<1>2. CycleTypes'
  BY <1>0, CycleEndsTyped
<1>3. f \in FetchRecs /\ f.pc = "run" /\ f.month \in Months
  BY <1>1 DEF FetchRecs, FetchSteps
<1> HIDE DEF f, g
<1>4. FetchTypes' /\ \A h \in Gens : h # g => fetch'[h] = fetch[h]
  <2>1. CASE fetch[g].pc = "none"
    <3>1. fetch' = [fetch EXCEPT ![g] = f]
      BY <1>0, <2>1
    <3> QED BY <3>1, <1>1, <1>3, FetchStepTyped
  <2>2. CASE fetch[g].pc # "none"
    BY <1>0, <2>2 DEF FetchTypes
  <2> QED BY <2>1, <2>2
<1>5. /\ force' \in [Gens -> BOOLEAN]
      /\ \A h \in Gens : force'[h] = IF h = g THEN FALSE ELSE force[h]
  BY <1>0, <1>1 DEF OuterTypes
<1>6. ForcedIsNew'
  BY <1>4, <1>5 DEF ForcedIsNew
<1>7. data' \in Months \cup {None}
  BY <1>0, <1>1, ShownTyped
<1> QED BY <1>0, <1>2, <1>4, <1>5, <1>6, <1>7 DEF OuterTypes, Stored, SimTypes, Landing

-----------------------------------------------------------------------------
(***************************************************************************)
(* The background fetch.  One that is under way has no refresh pending, so *)
(* its steps, which leave the others alone, answer none.                   *)
(***************************************************************************)
LEMMA FetchUnderWay ==
  ASSUME TariffInv, NEW g \in Gens, fetch[g].pc # "none",
         \A h \in Gens : h # g => fetch'[h] = fetch[h],
         UNCHANGED force
  PROVE  ForcedIsNew'
  BY DEF TariffInv, ForcedIsNew

LEMMA FetchFailedKeeps ==
  ASSUME TariffInv, NEW g \in Gens, FetchFailed(g)
  PROVE  TariffInv'
<1>0. /\ fetch[g].pc # "none" /\ fetch' = [fetch EXCEPT ![g] = NoFetch]
      /\ UNCHANGED <<month, disk, gen, force, data, cycle, sim, landing, events>>
  BY DEF FetchFailed
<1>1. FetchTypes' /\ \A h \in Gens : h # g => fetch'[h] = fetch[h]
  BY <1>0, FetchCleared DEF TariffInv
<1>2. ForcedIsNew'
  BY <1>0, <1>1, FetchUnderWay
<1> QED BY <1>0, <1>1, <1>2 DEF TariffInv, OuterTypes, Stored, CycleTypes, SimTypes,
                                 Landing

LEMMA FetchAt ==
  ASSUME FetchTypes, NEW g \in Gens, fetch[g].pc # "none"
  PROVE  /\ fetch[g] \in FetchRecs /\ fetch[g].month \in Months
         /\ fetch[g].rates \in PerTariff
  BY DEF FetchTypes, FetchRecs

LEMMA RatesFetchedKeeps ==
  ASSUME TariffInv, NEW g \in Gens, RatesFetched(g)
  PROVE  TariffInv'
<1> DEFINE m == fetch[g].month
           missing == {t \in Tariffs : ~Covers(fetch[g].rates[t], fetch[g].month)}
           rates(failed) == [t \in Tariffs |-> CASE t \in failed -> None
                                                [] t \in missing \ failed -> fetch[g].month
                                                [] OTHER -> fetch[g].rates[t]]
<1>0. /\ fetch[g].pc = "run"
      /\ UNCHANGED <<month, disk, gen, force, data, cycle, sim, landing, events>>
  BY DEF RatesFetched
<1>1. PICK failed \in SUBSET missing :
        fetch' = [fetch EXCEPT ![g] = [pc |-> "write", month |-> m, rates |-> rates(failed)]]
  BY DEF RatesFetched
<1>2. m \in Months /\ fetch[g].rates \in PerTariff
  BY <1>0, FetchAt DEF TariffInv
<1>3. rates(failed) \in PerTariff
  <2>1. ASSUME NEW t \in Tariffs PROVE rates(failed)[t] \in Months \cup {None}
    <3>1. fetch[g].rates[t] \in Months \cup {None}
      BY <1>2 DEF PerTariff
    <3> HIDE DEF missing
    <3> QED BY <1>2, <3>1
  <2> QED BY <2>1 DEF PerTariff
<1> DEFINE f == [pc |-> "write", month |-> m, rates |-> rates(failed)]
<1>4. f \in FetchRecs /\ f.month \in Months
  <2> HIDE DEF m, rates
  <2> QED BY <1>2, <1>3 DEF FetchRecs, FetchSteps
<1>5. fetch' = [fetch EXCEPT ![g] = f]
  BY <1>1
<1> HIDE DEF f
<1>6. FetchTypes' /\ \A h \in Gens : h # g => fetch'[h] = fetch[h]
  BY <1>4, <1>5, FetchStepTyped DEF TariffInv
<1>7. ForcedIsNew'
  BY <1>0, <1>6, FetchUnderWay
<1> QED BY <1>0, <1>6, <1>7 DEF TariffInv, OuterTypes, Stored, CycleTypes, SimTypes,
                                 Landing

LEMMA PayloadStored ==
  ASSUME FetchTypes, NEW g \in Gens, fetch[g].pc = "write"
  PROVE  Payload(g) \in Caches /\ Payload(g).month \in Months
                              /\ Payload(g).month = fetch[g].month
<1>1. fetch[g].month \in Months /\ fetch[g].rates \in PerTariff /\ NoRates \in PerTariff
  BY FetchAt, Constants
<1> HIDE DEF NoRates
<1> QED BY <1>1 DEF Payload, Caches

LEMMA StoredMonth ==
  ASSUME NEW d \in Caches, d.month \in Months
  PROVE  Stored(d)
  BY Constants DEF Stored

LEMMA CacheWrittenKeeps ==
  ASSUME TariffInv, NEW g \in Gens, CacheWritten(g)
  PROVE  TariffInv'
<1> DEFINE f == [pc |-> "calculate", month |-> fetch[g].month, rates |-> fetch[g].rates]
<1>0. /\ fetch[g].pc = "write" /\ (disk' = Payload(g) \/ UNCHANGED disk)
      /\ fetch' = [fetch EXCEPT ![g].pc = "calculate"]
      /\ UNCHANGED <<month, gen, force, data, cycle, sim, landing, events>>
  BY DEF CacheWritten
<1>1. fetch[g].month \in Months /\ fetch[g] \in FetchRecs /\ fetch \in [Gens -> FetchRecs]
  BY <1>0, FetchAt DEF TariffInv, FetchTypes
<1>2. /\ fetch' \in [Gens -> FetchRecs]
      /\ \A h \in Gens : fetch'[h].month = fetch[h].month /\ (h # g => fetch'[h] = fetch[h])
  BY <1>0, <1>1 DEF FetchRecs, FetchSteps
<1>3. FetchTypes'
  BY <1>1, <1>2 DEF TariffInv, FetchTypes
<1>4. ForcedIsNew'
  BY <1>0, <1>2, FetchUnderWay
<1>5. Stored(disk)'
  BY <1>0, PayloadStored, StoredMonth DEF TariffInv
<1> QED BY <1>0, <1>3, <1>4, <1>5 DEF TariffInv, OuterTypes, CycleTypes, SimTypes, Landing

LEMMA FetchEndsKeeps ==
  ASSUME TariffInv, NEW g \in Gens, FetchEnds(g)
  PROVE  TariffInv'
<1>0. /\ fetch[g].pc = "calculate"
      /\ Shown(g, fetch[g].month)
      /\ StartSimulations(g, Tariffs, fetch[g].rates, fetch[g].month)
      /\ fetch' = [fetch EXCEPT ![g] = NoFetch]
      /\ UNCHANGED <<month, disk, gen, force, cycle, landing, events>>
  BY DEF FetchEnds
<1>1. fetch[g].month \in Months
  BY <1>0, FetchAt DEF TariffInv
<1>2. SimTypes'
  BY <1>0, <1>1, StartSimulationsTyped DEF TariffInv
<1>3. FetchTypes' /\ \A h \in Gens : h # g => fetch'[h] = fetch[h]
  BY <1>0, FetchCleared DEF TariffInv
<1>4. ForcedIsNew'
  BY <1>0, <1>3, FetchUnderWay
<1>5. data' \in Months \cup {None}
  BY <1>0, <1>1, ShownTyped DEF TariffInv
<1> QED BY <1>0, <1>2, <1>3, <1>4, <1>5 DEF TariffInv, OuterTypes, Stored, CycleTypes, Landing

-----------------------------------------------------------------------------
(***************************************************************************)
(* The simulations.                                                        *)
(***************************************************************************)
LEMMA SimAt ==
  ASSUME SimTypes, NEW g \in Gens, NEW t \in Tariffs
  PROVE  /\ sim[g][t] \in SimRecs /\ sim[g][t].month \in Months \cup {None}
         /\ sim[g][t].rates \in BOOLEAN /\ sim[g][t].seen \in Caches
         /\ sim[g][t].pc = "write" => sim[g][t].seen.month \in Months
  BY DEF SimTypes, SimRecs

LEMMA SimEndsTyped ==
  ASSUME SimTypes, NEW g \in Gens, NEW t \in Tariffs, sim' = [sim EXCEPT ![g][t] = NoSim]
  PROVE  SimTypes'
<1>1. NoSim \in SimRecs /\ NoSim.pc # "write"
  BY Constants
<1> QED BY <1>1, SimStepTyped

LEMMA SimLeaves ==
  ASSUME TariffInv, SimTypes', Stored(disk)',
         UNCHANGED <<month, gen, force, data, cycle, fetch, landing, events>>
  PROVE  TariffInv'
  BY DEF TariffInv, OuterTypes, CycleTypes, FetchTypes, Landing, ForcedIsNew

LEMMA SimulatedKeeps ==
  ASSUME TariffInv, NEW g \in Gens, NEW t \in Tariffs, Simulated(g, t)
  PROVE  TariffInv'
<1> DEFINE old == sim[g][t]
           s == [pc |-> "read", month |-> old.month, rates |-> old.rates, seen |-> old.seen]
<1>1. s \in SimRecs /\ s.pc = "read"
  BY SimAt DEF TariffInv, SimRecs, SimSteps
<1>2. sim' = [sim EXCEPT ![g][t] = s]
  <2>1. sim' = [sim EXCEPT ![g][t] = [old EXCEPT !.pc = "read"]]
    BY DEF Simulated
  <2>2. [old EXCEPT !.pc = "read"] = s
    <3>1. old \in SimRecs
      BY SimAt DEF TariffInv
    <3> HIDE DEF old
    <3> QED BY <3>1 DEF SimRecs
  <2> QED BY <2>1, <2>2
<1> HIDE DEF s
<1>3. SimTypes'
  BY <1>1, <1>2, SimStepTyped DEF TariffInv
<1> QED BY <1>3, SimLeaves DEF Simulated, TariffInv, Stored

LEMMA PersistReadKeeps ==
  ASSUME TariffInv, NEW g \in Gens, NEW t \in Tariffs, PersistRead(g, t)
  PROVE  TariffInv'
<1>1. SimTypes'
  <2>1. CASE disk = NoCache
    <3>1. sim' = [sim EXCEPT ![g][t] = NoSim]
      BY <2>1 DEF PersistRead
    <3> QED BY <3>1, SimEndsTyped DEF TariffInv
  <2>2. CASE disk # NoCache
    <3> DEFINE s == [pc |-> "write", month |-> sim[g][t].month, rates |-> sim[g][t].rates,
                     seen |-> disk]
    <3>1. disk \in Caches /\ disk.month \in Months
      BY <2>2, CacheFields DEF TariffInv, Stored
    <3>2. s \in SimRecs /\ s.seen.month \in Months
      BY <3>1, SimAt DEF TariffInv, SimRecs, SimSteps
    <3>3. sim' = [sim EXCEPT ![g][t] = s]
      BY <2>2 DEF PersistRead
    <3> HIDE DEF s
    <3> QED BY <3>2, <3>3, SimStepTyped DEF TariffInv
  <2> QED BY <2>1, <2>2
<1> QED BY <1>1, SimLeaves DEF PersistRead, TariffInv, Stored

LEMMA PersistedStored ==
  ASSUME SimTypes, NEW g \in Gens, NEW t \in Tariffs, sim[g][t].pc = "write"
  PROVE  /\ Persisted(g, t) \in Caches /\ Persisted(g, t).month \in Months
         /\ Persisted(g, t).month = sim[g][t].seen.month
  BY SimAt, ResultAdded DEF Persisted

LEMMA PersistWrittenKeeps ==
  ASSUME TariffInv, NEW g \in Gens, NEW t \in Tariffs, PersistWritten(g, t)
  PROVE  TariffInv'
<1>1. SimTypes'
  BY SimEndsTyped DEF PersistWritten, TariffInv
<1>2. Stored(disk)'
  BY PersistedStored, StoredMonth DEF PersistWritten, TariffInv
<1> QED BY <1>1, <1>2, SimLeaves DEF PersistWritten

LEMMA SkippedKeeps ==
  ASSUME TariffInv, NEW g \in Gens, NEW t \in Tariffs, Skipped(g, t)
  PROVE  TariffInv'
<1>1. SimTypes'
  BY SimEndsTyped DEF Skipped, TariffInv
<1> QED BY <1>1, SimLeaves DEF Skipped, TariffInv, Stored

-----------------------------------------------------------------------------
(***************************************************************************)
(* The outside.                                                            *)
(***************************************************************************)
LEMMA EventTyped == OuterTypes /\ Event => events' \in 0 .. MaxEvents
  BY TariffAssumption DEF OuterTypes, Event

LEMMA InFlightStored ==
  ASSUME TariffInv, NEW g \in Gens, NEW d \in InFlight(g)
  PROVE  d \in Caches /\ d.month \in Months
<1>1. CASE fetch[g].pc = "write" /\ d = Payload(g)
  BY <1>1, PayloadStored DEF TariffInv
<1>2. CASE \E t \in Tariffs : sim[g][t].pc = "write" /\ d = Persisted(g, t)
  BY <1>2, PersistedStored DEF TariffInv
<1> QED BY <1>1, <1>2 DEF InFlight

LEMMA RefreshNowKeeps ==
  ASSUME TariffInv, NEW c \in Cycles, RefreshNow(c)
  PROVE  TariffInv'
<1> DEFINE sims == [t \in Tariffs |-> NoSim]
<1>0. /\ force' = [force EXCEPT ![gen] = TRUE]
      /\ fetch' = [fetch EXCEPT ![gen] = NoFetch]
      /\ sim' = [sim EXCEPT ![gen] = sims]
      /\ cycle' = [cycle EXCEPT ![c] = Begun]
      /\ UNCHANGED <<month, disk, gen, data>>
  BY DEF RefreshNow
<1>1. gen \in Gens /\ month \in Months /\ force \in [Gens -> BOOLEAN]
  BY DEF TariffInv, OuterTypes
<1>2. Landing'
  BY <1>1, InFlightStored DEF RefreshNow, Landing, TariffInv
<1>3. CycleTypes'
  BY <1>0, BegunTyped, CycleStepTyped DEF TariffInv
<1>4. FetchTypes' /\ \A h \in Gens : h # gen => fetch'[h] = fetch[h]
  BY <1>0, <1>1, FetchCleared DEF TariffInv
<1>5. fetch'[gen].pc = "none"
  BY <1>0, <1>1, Constants DEF TariffInv, FetchTypes
<1>6. force' \in [Gens -> BOOLEAN] /\ \A h \in Gens : h # gen => force'[h] = force[h]
  BY <1>0, <1>1
<1>7. ForcedIsNew'
  BY <1>4, <1>5, <1>6 DEF ForcedIsNew, TariffInv
<1>8. SimTypes'
  <2>1. sims \in [Tariffs -> SimRecs] /\ \A t \in Tariffs : sims[t].pc = "none"
    BY Constants
  <2> HIDE DEF sims
  <2>2. /\ sim' \in [Gens -> [Tariffs -> SimRecs]]
        /\ \A h \in Gens : sim'[h] = IF h = gen THEN sims ELSE sim[h]
    BY <1>0, <1>1, <2>1 DEF TariffInv, SimTypes
  <2> QED BY <2>1, <2>2 DEF TariffInv, SimTypes
<1>9. OuterTypes'
  BY <1>0, <1>6, EventTyped DEF RefreshNow, TariffInv, OuterTypes
<1> QED BY <1>0, <1>2, <1>3, <1>4, <1>7, <1>8, <1>9 DEF TariffInv, Stored

LEMMA LandsKeeps ==
  ASSUME TariffInv, Lands
  PROVE  TariffInv'
<1>1. Landing' /\ Stored(disk)'
  BY StoredMonth DEF Lands, Landing, TariffInv, Stored
<1> QED BY <1>1 DEF Lands, TariffInv, OuterTypes, CycleTypes, FetchTypes, SimTypes, ForcedIsNew

LEMMA NewMonthKeeps ==
  ASSUME TariffInv, NewMonth
  PROVE  TariffInv'
<1>1. month' \in Months /\ events' \in 0 .. MaxEvents
  BY EventTyped, TariffAssumption DEF NewMonth, TariffInv, OuterTypes, Months
<1> QED BY <1>1 DEF NewMonth, TariffInv, OuterTypes, Stored, CycleTypes, FetchTypes,
                    SimTypes, Landing, ForcedIsNew

LEMMA CacheAgesKeeps ==
  ASSUME TariffInv, CacheAges
  PROVE  TariffInv'
<1>1. disk \in Caches /\ disk.month \in Months
  BY CacheFields, Constants DEF CacheAges, TariffInv, Stored
<1>2. disk' \in Caches /\ disk'.month \in Months
  BY <1>1, Aged DEF CacheAges
<1>3. Stored(disk)' /\ events' \in 0 .. MaxEvents
  BY <1>2, StoredMonth, EventTyped DEF CacheAges, TariffInv
<1> QED BY <1>3 DEF CacheAges, TariffInv, OuterTypes, CycleTypes, FetchTypes, SimTypes,
                    Landing, ForcedIsNew

LEMMA ReloadKeeps ==
  ASSUME TariffInv, Reload
  PROVE  TariffInv'
<1>1. gen' \in Gens /\ data' = None /\ events' \in 0 .. MaxEvents
      /\ UNCHANGED <<month, disk, force, cycle, fetch, sim, landing>>
  BY TariffAssumption, EventTyped DEF Reload, TariffInv, OuterTypes, Gens
<1> QED BY <1>1 DEF TariffInv, OuterTypes, Stored, CycleTypes, FetchTypes, SimTypes, Landing,
                    ForcedIsNew

-----------------------------------------------------------------------------
(***************************************************************************)
(* The invariant holds at first and is kept.                               *)
(***************************************************************************)
LEMMA TariffInit == Init => TariffInv
<1> SUFFICES ASSUME Init PROVE TariffInv
  OBVIOUS
<1>1. OuterTypes
  <2>1. 0 \in 0 .. MaxEvents
    BY TariffAssumption
  <2> QED BY <2>1, Constants DEF Init, OuterTypes
<1>2. Stored(disk)
  BY TariffAssumption DEF Init, Stored
<1>3. CycleTypes
  BY Constants DEF Init, CycleTypes
<1>4. FetchTypes /\ Landing /\ ForcedIsNew
  BY Constants DEF Init, FetchTypes, Landing, ForcedIsNew
<1>5. SimTypes
  BY Constants DEF Init, SimTypes
<1> QED BY <1>1, <1>2, <1>3, <1>4, <1>5 DEF TariffInv

LEMMA TariffNext == TariffInv /\ [Next]_vars => TariffInv'
<1> SUFFICES ASSUME TariffInv, [Next]_vars PROVE TariffInv'
  OBVIOUS
<1>1. ASSUME NEW c \in Cycles, CycleStep(c) \/ RefreshNow(c) PROVE TariffInv'
  BY <1>1, CycleStartsKeeps, CycleReadsKeeps, CacheUsedKeeps, CacheRejectedKeeps, RefreshNowKeeps
  DEF CycleStep
<1>2. ASSUME NEW g \in Gens, FetchStep(g) PROVE TariffInv'
  BY <1>2, FetchFailedKeeps, RatesFetchedKeeps, CacheWrittenKeeps, FetchEndsKeeps
  DEF FetchStep
<1>3. ASSUME NEW g \in Gens, NEW t \in Tariffs, SimStep(g, t) PROVE TariffInv'
  BY <1>3, SkippedKeeps, SimulatedKeeps, PersistReadKeeps, PersistWrittenKeeps DEF SimStep
<1>4. CASE Lands \/ NewMonth \/ CacheAges \/ Reload
  BY <1>4, LandsKeeps, NewMonthKeeps, CacheAgesKeeps, ReloadKeeps
<1>5. CASE UNCHANGED vars
  BY <1>5 DEF vars, TariffInv, OuterTypes, Stored, CycleTypes, FetchTypes, SimTypes,
              Landing, ForcedIsNew
<1> QED BY <1>1, <1>2, <1>3, <1>4, <1>5 DEF Next

(***************************************************************************)
(* The types of the tariff coordinator and of the cache file.              *)
(***************************************************************************)
THEOREM TariffTyping == Spec => []TypeOK
<1>1. TariffInv => TypeOK
  BY Constants DEF TariffInv, OuterTypes, Stored, CycleTypes, FetchTypes, SimTypes, Landing,
                   TypeOK, CycleRecs, FetchRecs, FetchSteps, SimRecs, SimSteps
<1> QED BY <1>1, TariffInit, TariffNext, PTL DEF Spec

(***************************************************************************)
(* A forced refresh that is pending is never answered by an older fetch,   *)
(* whichever of overlapping cycles gets to _force_refresh first.           *)
(***************************************************************************)
THEOREM ForceGetsNewFetch == Spec => []ForcedIsNew
<1>1. TariffInv => ForcedIsNew
  BY DEF TariffInv
<1> QED BY <1>1, TariffInit, TariffNext, PTL DEF Spec
=============================================================================
