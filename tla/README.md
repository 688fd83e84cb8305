# A TLA+ model of HomeAssistant-BatteryChargeCalculator

The repository is a Home Assistant integration that plans, every half-hour, whether a home battery
should charge, export or idle, and drives a GivEnergy inverter over MQTT accordingly. This directory
models its control: what happens between the awaits of its asyncio code, which interleavings are
possible, and what the plan and the inverter do in each of them; and around that core the ML service,
the tariff comparison, the configuration flows and the algorithms the plans and comparisons rest on.

Files: one module per component, `MC*.tla`/`MC*.cfg` for TLC, `*_proofs.tla` and `IntegerLemmas.tla`
for TLAPS, and `PROJECT.json` (machine-readable: components, runs, which source lines each definition
models, the hazards the properties are for, and a mutated definition that breaks each property).

```
tlc -workers 2 -config MCBatteryCoordinator.cfg MCBatteryCoordinator.tla
tlapm BatteryCoordinator_proofs.tla
```

## The system

Paths are relative to `src/custom_components/battery_charge_calculator/` unless they start with
`ml-service/`.

| component | state | operations | talks to |
|---|---|---|---|
| Battery charge coordinator (`coordinators.py`) | `timeslots`, forecast and costs, Axle cache, timers | `_async_setup`, `_async_update_data` (every minute), `octopus_state_change_listener` (a planning run), hourly `_conditional_replan` | all of the below |
| Axle cache (`coordinators.py`, `axle_windows.py`) | windows, their signature, `windows_changed`, last success, source status, suppression reason | refresh, change detection, freshness, forced slots | Axle client |
| Axle client (`axle_client.py`) | none | one request, at most two retries | Axle's HTTPS endpoint |
| GivEnergy controller (`givenergy.py`) | cached state of charge | subscription, `enable`/`disable` `Charge`/`Export` | inverter, through MQTT and GivTCP |
| Genetic evaluator (`genetic_evaluator.py`) | slots, forced actions, population | battery step, schedule cost, search | called by a planning run |
| Octopus client (`octopus_agile.py`) | tariff codes with a validity | rates, standing charge, today's consumption | Octopus API |
| Power calculator (`power_calculator.py`) | none | demand from temperature and time | called by a planning run |
| Lifecycle (`__init__.py`) | `hass.data` entries, services | set-up, unload, reload, migration | creates the coordinators |
| Config and options flow (`config_flow.py`) | the flow's accumulated data | steps | options, then a reload |
| Sensors (`sensor.py`, `sensors/`) | none of their own | views | coordinators |
| ML client (`ml/ml_service_client.py`) | readiness, last status | configure, predict, retrain, status | ML service |
| ML service (`ml-service/app`) | service state, model, `_is_training` | configure, start, predict, train, persist | model files, data sources |
| Tariff comparison (`tariff_comparison/`) | result, disk cache, `_force_refresh`, fetch and simulation tasks | monthly fetch, simulation per tariff, refresh now | Octopus API, recorder, disk |

Interactions that matter. Everything in Home Assistant runs on one asyncio loop, with an executor for
disk access. A **planning run** is a coroutine of a dozen awaits (standing charge, import and export
rates, consumption, weather, solar, ML prediction) followed by one stretch without awaits that reads the
Axle windows and assigns the plan. It is started by set-up, by an update cycle whose poll found other
Axle windows (which then waits for it), by the hourly check and by the `trigger_planning` service. No
lock is held, so several may be under way; they share the Octopus client and its cache of tariff codes.
The **update cycle** polls Axle, maybe waits for a planning run, and sends commands for the slot that is
active. The **inverter** keeps a forced mode for 30 minutes per command, whatever happens to Home
Assistant. The **ML service** is a second process with its own loop: handlers of `/configure` and
`/retrain` create training tasks that queue for one lock, and both write the model in memory and the
model file. The **tariff comparison** has cycles, one background fetch and a simulation per fixed tariff;
all of them read and write one cache file, and a reload leaves those of the old coordinator running.

What is hard: overlapping planning runs and late commits; the windows changing while a run waits; the
flag `windows_changed` cleared before the replan it orders; replans that fail and are only logged; two
messages to end the forced modes, without acknowledgement; restarts that lose everything but the
inverter's timers; slots matched with both ends included; a handler that replaces the model a training
has just published; read-modify-write of the cache file across awaits while the month turns; a set-up
that fails half-way and is retried; totals differenced across missing readings.

What makes each part correct:

- coordinator: plan and commands follow the Axle windows; planning is atomic; set-up and cycles end;
- inverter control: a forced mode ends soon after the slot that asked for it;
- Axle cache: freshness bounds, no lost change of windows; Axle client: bounded retries;
- evaluator: the battery stays within bounds, energy is accounted for, the plan shown is the best one;
- Octopus client: the rate grid is gapless, rates belong to the tariff they are read under;
- ML service: one training at a time, a model served has been stored, no restart loses it;
- ML training: energy is neither lost nor counted twice, invented readings do not train a model;
- tariff comparison: a result is of the month it is shown for, and the comparison comes to each month;
- lifecycle: a loaded entry's data, services and subscription are of one planner, and an unload ends the
  subscription of the planner it unloads;
- config flow: settings survive any order of forms, migrations and reopened flows.

## Modules

**`HalfHour`** is the grid. Time is counted in ticks, `SlotLen` to a half-hour, and a slot is a number.
`CeilSlot` is `ceil_dt`, `Matches` is `date_comapre` (closed at both ends), `Overlaps` is
`_axle_overlap_hours > 0` (half-open).

**`GivEnergy`** has `soc` (is the cached state of charge a number?) and `mode` (ticks left of forced
charge and export, with the slot that asked, kept as history). `Enable` and `Disable` are the four
commands with the inverter's reaction; when `Lossy`, a command may vanish. `Elapse` is the inverter's
timer, external to the repository.

**`AxleSource`** is `_axle_cache`: `windows`, `changed`, `lastSuccess`, `status`, `suppression`.
`Polled` is a refresh that returns (with an event, with none, or after `AxleClientError`, which keeps
the old windows); `Diagnose` what `_async_update_data` records at its end. Axle reports one event, so
at most one window is cached.

**`BatteryCoordinator`** composes them with the planner. One atomic step is the code between two
awaits. `Update` is the process that runs set-up and update cycles, one after the other; `upc` says
where it is. `Tasks` run hourly checks and service calls. `run[r]` is where process `r` is inside
`octopus_state_change_listener`:

| code | action |
|---|---|
| entry, `ceil_dt` | `Begin`, part of the caller's step |
| Octopus requests, rates end at `until` | `RatesFetched` |
| forecast, then `get_inverter_soc_kwh` | `ForecastFetched` (guard `soc`) |
| early returns and swallowed exceptions | `Abandon` |
| pass 2, `evaluate`, assignment | `Commit`; `DropPlan` when `evaluate` returns `None` |
| `async_refresh_status` | `StatusRefreshed` (only with an ML client) |
| return to the caller | `Return`, part of the last step |
| `_async_setup` | `Boot`, `SetupPolled`, `SetupFailed`; `SetupRetried` is `ConfigEntryNotReady` |
| `_async_update_data` | `StartCycle`, `CyclePolled`, `CycleFailed`, `Dispatch` (part of a step), `Release` |
| hourly check, `trigger_planning` | `PlanningTimer`, `TriggerPlanning` |
| time, SOC message, restart or reload | `Tick`, `SocReport`, `Restart` |

A plan is a function from slots to actions. The optimiser is a choice from `Schedules`, overlaid with
"export" in forced slots, which is what `_apply_forced_actions` guarantees; prices, energies and costs
are left out. `plan` may only be empty or of two slots or more: a single slot makes the search raise.
`lost` and `decided` are history variables; nothing in the code's part of the model reads them.

**`AtomicPlanner`** is the abstract specification: a clock, the known windows and the plan, with
`Replan` in one step for the windows of that step. `BatteryCoordinator` implements it
(`PlansAtomically`), with the identity as refinement mapping.

**`MlEstimator`** is the service's estimator: `Configure`, `LoadModel`, `Loaded`, `SurfaceMigrated` and
`Resaved` are the stretches of a `/configure` handler, `EnterPipeline` to `Publish` those of a training,
with the lock as `holder` and `queue`. A model is the training it came from and the training its power
surface was computed from. **`MlClient`** adds the integration's client (`ConfigureReplied`,
`StatusRefreshed`, `TriggerRetrain`, `Prediction`), `Reload` of the integration and `Restart` of the
container. **`ModelStore`** is its abstract specification: store a newer model, store an old one again,
serve one that has been stored. The service implements it with `served` the model in memory, `kept` the
file and `stored` its history (`StoresModels`).

**`TariffCoordinator`** is the comparison. `cycle[c]` is where an update cycle is (waiting for the executor to
read the file, deciding) and whose it is, `force[g]`, `fetch[g]` and `sim[g][t]` are the flag and the
background tasks of coordinator `g`, `disk` the cache file, `gen` the coordinator in use, `data` the month of
the consumption it shows. A cycle chooses its month (`CycleStarts`), reads (`CycleReads`), and `CacheUsed` or
`CacheRejected` decides on what was read; a fetch ends in `CacheWritten`; a simulation reads the file again,
adds its result and writes it (`PersistRead`, `PersistWritten`). Rates and results are the month they are of.
Months turn (`NewMonth`), the file ages, `RefreshNow` cancels the tasks and forces a fetch; a write the
executor has begun for a cancelled task stays in `landing` and may land at any later time (`Lands`). `Reload`
starts a new coordinator beside the cycles and tasks of the old one, which go on.

The modules of components that keep to themselves:

| module | code | what moves |
|---|---|---|
| `ConfigFlow` | `config_flow.py`, migration in `__init__.py` | set-up and options flow step by step, refused and reopened forms, the saved entry |
| `Lifecycle` | `__init__.py` | stages of a set-up, its failures and retries, unload, reload, options changed at any stage |
| `AxleClient` | `axle_client.py` | attempts, answers, delays, elapsed time of one fetch |
| `OctopusTariffs` | `octopus_agile.py`, the requests of a planning run | tariff codes of the account, their cache, overlapping runs, the clock |
| `RateSlots` | `_expand_to_30min_slots` | the half-hour grid of rates a plan is made from |
| `BatteryLevel` | `_evaluate_single_slot`, `evaluate_schedule` | battery and energies of each slot, for every schedule and forecast |
| `ScheduleSearch` | `evaluate`, `create_population` | population, shared timeslots, ranking, breeding, last ranking |
| `RateReplay` | comparison client, calculator, simulator | rates of a window, the rate before it, the map of half-hours, prices found by replay and simulation |
| `StandingCharges` | `calculate_tariff_cost`, `_build_simulation_monthly` | charges of a month added one after another, days counted |
| `GivEnergyHistory` | `sources/givenergy_history.py` | days and pages requested, daily totals differenced |
| `TrainingData` | `data_pipeline.py` | stages that exclude rows of the history, the quality gate |

Where the code takes a decision from numbers that no property tells apart (statistics of outliers, the
random search, prices of a plan), the model takes every decision. Energies, rates and times are small
integers.

**`MCBatteryCoordinator`**, **`MCMlClient`** and **`MCTariffCoordinator`** give the constants their values.
**`MCComponents`** puts the eleven modules of the table into one run: `part` says which of them moves, so
each is explored by itself (`TrainingData` extends `GivEnergyHistory`). The `*_proofs` modules hold the
theorems, `IntegerLemmas` what several of them cite. Definitions that precede the one they resemble (`CommitUnforced`, `PublishFirst`,
`ValidAnyMonth`, `DaysActiveFrom`, ...) are plausible mistakes, kept to show that a property notices them.

## Properties and runs

Coordinator (`coordinator`, `coordinator_faults`, `coordinator_liveness`):

| property | says |
|---|---|
| `TypeOK` | types, and that planning runs stay on the grid the schedules cover |
| `PlanFollowsWindows` | plan and forecast are those the cached windows ask for, unless a change is pending, being handled, or its replan failed |
| `AxleExportObeyed` | no cycle decides to charge or idle in a half-hour of an export window, with the same exception for a failed replan |
| `ForcedModeBounded` | a forced mode ends at the latest one command's length after the slot that asked for it |
| `PlansAtomically` | refinement of `AtomicPlanner` |
| `CycleEnds` | set-up and every cycle end |
| `PlanCatchesUp` | after a poll has changed the windows there comes to be a plan that follows them, unless the replan a cycle ordered fails or the coordinator is replaced |

ML service (`ml_service`):

| property | says |
|---|---|
| `TypeOK` | types, and that a task waits for the lock exactly when it is queued |
| `TrainingExclusive` | at most one training is past the lock, and `_is_training` says so |
| `ServedIsSaved` | the model in memory has been on disk |
| `ReadyHasModel` | the status is ready only while there is a model |
| `StoresModels` | refinement of `ModelStore` |
| `NoModelLost` | no step, crash included, leaves the disk without a model once it had one |
| `RegressionOnlyByMigration` | the file goes back to an older model only at the end of a migration |
| `TrainingEnds` | every queued training ends |

Tariff comparison (`tariff`):

| property | says |
|---|---|
| `ForcedIsNew` | while a forced refresh of a coordinator is pending, it has no older fetch that could pass for its answer |
| `UpToDate` | the file, and the consumption the sensor shows, each come to be of the last complete month, again and again |
| `SimulatedAgain` | a fixed tariff with rates has a result again and again, whatever drops or overwrites it |

The other components (`components`):

| property | says |
|---|---|
| `ComponentsTypeOK` | types of all of them |
| `ComparedIffEnabled` | a saved entry compares tariffs exactly when the comparison is enabled, and the account's own is one of them |
| `AxleKept` | Axle settings the user entered, under old names or new, are never replaced by defaults |
| `AsShownKeeps` | walking through the options and submitting each form as shown changes nothing but what its comment names |
| `OneCoordinator` | the planner in `hass.data` and behind the services of a loaded entry is that of its last set-up, and hears the inverter |
| `OnlyHalfwayLeft` | only the planner of the set-up that goes on or is loaded, and those of failed set-ups, hear the inverter |
| `FetchBounded` | retries stop at the bound, early only on a final answer, and the time of a fetch is bounded |
| `TariffInForce` | overlapping runs never ask for the rates of a tariff that had ended when they asked |
| `DailyRatesRepeat` | in a tariff that repeats daily, unpublished half-hours get the rate of their time of day |
| `LevelInReach` | the battery is never below empty, nor above its capacity by more than one slot's demand or what it started with |
| `SoldIsThere` | energy sold left the battery or came from the sun in that slot |
| `OnlyDemandUnpaid` | nothing but the demand of the house while the battery charges goes unpaid |
| `PlanIsShown` | the slots end up showing a cheapest schedule of the last population, forced actions included |
| `PricedInForce` | replay and simulation price a half-hour at the rate in force or the last one before a gap; only the first half-hour of the window may get the rate before it |
| `DaysChargedOnce` | no day of a standing charge is counted twice; less than a day of each is lost |
| `EnergyKept` | whichever readings are missing, the series has the energy of a day up to its last reading, and none twice |
| `OwnEnergyTrained` | where physics has demand, a row that trains a model holds the energy of its half-hour, unless it is the first kept one |

The runs:

- `coordinator`: every interleaving of set-up, cycles, one other task, and all poll results, with an
  ML client. Ticks 0 to 4 of a grid of two ticks per slot, slots 0 to 3; an export window [3,5) that
  begins in mid-slot and covers slots 1 and 2, an import window [2,4) that forces nothing.
- `coordinator_faults`: publishes lost or raising, a set-up that fails and is retried, one restart;
  without ML client, up to tick 3.
- `coordinator_liveness`: the liveness properties under `FairSpec`, up to tick 2.
- `ml_service`: two trainings and one handler, with and without an old model on disk, one restart of the
  container and one reload of the integration.
- `tariff`: one fixed tariff with export, two months, a complete file of the first, one reload, two
  events (month, age, forced refresh).
- `components`: the eleven modules that keep to themselves.
- `suppression`, `startup_plan`, `ml_correction`, `ml_restart`, `tariff_rates` and `tariff_month` are
  expected to fail, see Findings.

## Bounds

*Coordinator.* Two planning runs (one of `Update`, one of a task) are enough for every pair of overlapping
commits; a third behaves as the second does, since runs share nothing but the plan. Four ticks let a
run begin in one slot and commit in the next, a plan expire (`ExpiryMargin` of 2 ticks) and the export
window open. `FreshLimit` 1 and `StaleLimit` 2 give all three source statuses. `RateEnds` has one
value: the first slot varies instead. One restart meets every state of the inverter's timers. The
proofs need none of these bounds. `MaxTime` and `MaxRestarts` bound the clock and the restarts in the
guards of `Tick` and `Restart` only.

*ML service.* Two trainings make a queue behind the lock and a training that follows another; one handler
can be overtaken at each of its awaits by both. Two model ids beside none let an old model, found on disk,
be replaced. One restart meets every stage of handler, save and publication.

*Tariff comparison.* The hazards are of two months and two generations of tasks: `MaxMonth` 1, `MaxReloads`
1. `MaxEvents` 2 lets the month turn and a refresh be forced, or the file age, in either order. One fixed
tariff keeps liveness within reach of a run of a minute, so that one simulation overwriting the result of
another is not in it. `Tariffs = {go, flux}`, `Fixed = {go}`, `MaxReloads = 0` and `MaxEvents = 1` explore
that: the same properties hold (84 000 states, two minutes).

*Components.* The battery holds 6 units, may start with 10, and moves 2 in a slot against demands and surpluses of up to 3, so
that both ends of it are met within 3 slots and by a part of a slot. The search has 3 slots, one forced,
and a population of 4 bred once: the least with two parents, which is where crossover, mutation and the last
ranking come apart. Three agreements (a change of import tariff, an export tariff that begins later), two
overlapping runs, a time to live of 2 and a clock up to 5 put an agreement's end before and after the
cache's. Windows of 4 half-hours over 2 days, 2 days of 3 readings on pages of 1, days of 4 half-hours
over 2 days and months of 3 days of 2 ticks have each a boundary of every kind, and something on both
sides of it. Four set-ups allow a failed one, its retry and two reloads. Axle's timings are 4, 2 and 1
units with 2 retries. The bounds are in the cfg files; the theorems need none of them.

## Fairness

*Coordinator.* Weak fairness of the steps the event loop has ready (set-up, retry of set-up, start of a
cycle, second message) and of the planning run of `Update`, whose requests all end or time out.
Strong fairness of a poll that returns an answer or `AxleClientError`: Axle does not send events that
do not parse for ever. Without it a set-up would be retried for ever. No fairness for tasks, service
calls, SOC messages, time or restarts. The liveness run has no lost publishes: a publish that raises
in every first refresh keeps set-up from ending.

*ML service.* Weak fairness of what the service's loop or its executor has ready: a stretch of a handler, of
a training; of the client's set-up steps. Strong fairness of a status request that is answered (the
integration asks after every planning run, and the network is not down for ever). None for retrain
requests, reloads and restarts.

*Tariff comparison.* Weak fairness of cycles (the coordinator's interval) and of the background tasks'
steps. Strong fairness of a fetch that gets all rates, of a write that succeeds and of a simulation that
does, each of the coordinator in use only: Octopus is not out of reach, the disk full and every day
unsimulable for ever. Weak fairness of a write the executor has begun for a cancelled task. None for
months, forced refreshes, the age of the file and reloads.

## Proofs

TLAPS proves what follows for every value of the constants, from the named assumptions on them only.

Coordinator, with no bound on time, slots, tasks or restarts (`SlotLenAssumption`,
`InverterAssumption`, `AxleAssumption`, `CoordinatorAssumption`):

1. `TypeCorrect`: `Spec => []TypeOK`.
2. `ForcedModesEnd`: `ForcedModeBounded`, inductive with `TypeOK`: a command is only sent for a slot
   that matches now, which is not past its end, and each tick moves the clock and the timer together.
3. `PlanFollowsAxle`: `PlanFollowsWindows` is not inductive. It says nothing while a cycle waits for its
   replan, but that replan may have committed already (it is asking the ML service for its status), and
   the step that returns sends commands at once. `FollowInv` adds that case, that no change is pending
   during the wait, and that no window is cached when Axle is not polled (`PlanFollows`).
4. `ExportObeyed`: `AxleExportObeyed` from `FollowInv`: each dispatch uses the plan in force in a state
   where it follows the windows, the plan of the commit that ends the wait, or no plan.
5. `PlanningIsAtomic`: refinement of `AtomicPlanner`, with `RunsInGrid` (a run's first slot is never
   after the next half-hour, as `CeilSlot` is monotone). The abstract module states with its own
   definition which slots Axle is owed; `OwedOverlaps` relates the two.

ML service (`EstimatorAssumption`, `ClientAssumption`): the inductive invariant is `MlInv`. Beside types
it says that the holder of the lock is the one training in the pipeline (`Locked`), that nobody is queued
twice (`Queued`), and of every model in memory, on disk or in a handler's hands that it is none or has been on
disk (`ModelsKnown`): a training that is about to publish has saved, a migration that is about to save
holds a model. `TrainingExclusive`, `ServedIsSaved` and `ReadyHasModel` follow; `NoModelLost` and
`RegressionOnlyByMigration` are action properties from the two ways the file changes (`DiskSteps`).
`ServiceIsAStore` is the refinement, with `NewestUnsaved`: the model about to be saved has never been on disk.

Tariff comparison: `TariffInv` adds to the types what is known of the months a fetch, a simulation, a cycle
and a late write are of (`Landing`), and `ForcedIsNew` itself: the cycle that takes the flag is the one that
starts the fetch, and only `RefreshNow`, which cancels the fetch, sets the flag. `ForceGetsNewFetch` follows.

The remaining proofs are in four modules, by what their components share. `IntegerLemmas` has the facts
about integers they all need: a bounded set has a least and a greatest element (so `Min` and `Max` are what
they should be), induction over a *set* of numbers, and that a function defined by recursion on the numbers
exists and is unique. All follow from the well-foundedness of `<` by `WFMin`, which takes a set and no operator.

- `Components_proofs`. `FlowInv` (the collected options keep the two facts as well as the saved entry
  does) gives `ComparedIffEnabled` and `AxleKept`; `AsShownInv` (as long as every form was submitted as
  shown, the collected options are the entry's but for what the heat-loss and Axle forms fill in, and the
  flow is on the path the entry's own values choose) gives `AsShownKeeps`. `LifeInv` (which coordinator each
  stage of a set-up has registered and subscribed) gives `OneCoordinator` and `OnlyHalfwayLeft`. `FetchInv` bounds the time
  spent by the attempts that have ended and the delays between them, `2^n - 1` base delays after `n`, for
  `FetchBounded`.
- `Evaluator_proofs`. `LevelInReach`, `SoldIsThere` and `OnlyDemandUnpaid` for any capacity and any demand;
  `PlanIsShown` for any slots, actions, population, number of generations and costs. `SearchInv` says what is
  shown once the search is done; the step to it needs that ranking is a rearrangement: the number of schedules
  that go before one is its place, and every place is taken once (a bijection of a finite set, by
  cardinalities), so that the first of the ranking is as cheap as any.
- `Rates_proofs`. `TariffInForce`, from `OctopusAssumption` (agreements of a kind follow each other, the time
  to live is positive) with `OctopusInv`: a cached code is the one in force at some time after which it holds,
  and so is one a run has taken. `DaysChargedOnce` for any length of the day and the month: each added
  charge is less than a day short of its part of the month, and the parts of charges that follow each
  other add up. `DailyRatesRepeat` (`SlotInv`: the bands are those of a stretch of at least a day, so every
  time of day has one). `PricedInForce` (`RateInv`: the rows are the bands of the window and, before them,
  the last rate before it; the pointer has only passed rows that have ended; every half-hour walked has a
  rate that is due). Rows are kept by *place*, a number that orders them by their start with the
  rate before the window between those that start earlier and those that start with it: a stable sort by
  `valid_from`, as the code has it, without the induction over sequences a sorting function would need.
- `TrainingData_proofs`. `EnergyKept` (`HistInv`: each reading received is the day's total up to it; the sum of
  the series up to a reading is that reading, by induction over the half-hours of a day) and
  `OwnEnergyTrained` (`CleanInv`: from the exclusion of gaps on, a row after the first follows its
  neighbour's reading, so has only its own energy; the later stages only take rows away).

`MCComponents` is proved as it is run: `ComponentsAlone` shows that every component behaves in it as it does
alone, so `ComponentsTypeCorrect` and `ComponentsSafe` put the theorems of all ten state machines together.

So every safety invariant and action property of the passing runs is a theorem, and the bounds of the cfg
files limit only the runs. Each inductive invariant was checked with TLC before it was proved.

Only model-checked: the liveness properties `CycleEnds`, `PlanCatchesUp`, `TrainingEnds`, `UpToDate` and
`SimulatedAgain`, since fairness and ENABLED are out of the prover's reach. What the violation runs check is
false, and the run is the argument.

## Findings

- `suppression`: `README.md:27` and `README.md:39` say dispatch is suppressed inside an Axle window and
  while the source is unavailable in mode `closed`. The code only records a `suppression_reason`; export
  windows become forced slots of the plan instead. The same holds of the one-time neutralisation of
  `README.md:35`: no code reads that option.
- `startup_plan`: `_docs/how-it-works.md:106` says a fresh plan is always generated on startup. When the
  retained state of charge has not arrived yet, or a request fails, set-up ends without one, and the
  hourly check is the next to try.
- `ml_correction`: `_predict_single` reads fields that `TrainedModel` does not have, so a service that is
  ready answers every prediction with the physics value (`estimator.py:213`).
- `ml_restart`: after a restart of the container nothing loads the saved model until the integration is
  set up again, though `_docs/machine-learning.md:140` says it survives.
- `tariff_rates`: rates cached for one month are taken to cover every later month
  (`tariff_comparison/__init__.py:1248`) and half-hourly tariffs then have no costs.
- `tariff_month`: a simulation that outlives the fetch of a new month is stamped with the new month and
  shown with it (`tariff_comparison/__init__.py:1153`), which the comment at 605 means to prevent.

Met while modelling, true of the code and visible in the modules, but not the subject of a run:

- Planning: `recalculation_time` and its reason are set before planning is tried (`coordinators.py:293`);
  an account without an export tariff asks for the rates of no product and planning fails
  (`OctopusTariffs`); half-hours without a published rate take the oldest band at their time of day
  (`RateSlots`).
- Evaluator: a slot that charges pays for the charge and not for the demand of the house
  (`genetic_evaluator.py:208`; `OnlyDemandUnpaid` bounds it), and may leave the battery above its
  capacity by that demand (`LevelInReach`).
- ML service: a handler that found no file can replace a model published meanwhile by none
  (`estimator.py:117`); heating type "none" leaves the fit without a target, so training always fails; a
  retrain request is accepted and ignored when the service is not configured.
- Training data: missing readings are filled with 0 although a docstring says carried forward; the first
  kept row may hold the energy of missing readings before it (`OwnEnergyTrained` excludes it); a local
  time that occurs twice is taken as its second occurrence (`givenergy_history.py:64`), so that readings of
  an autumn night are dropped as duplicates (168); with both sources
  selected, a failure of GivEnergy falls back to Octopus import without notice.
- Tariff comparison: a failure of the shared export tariff counts once per tariff
  (`tariff_comparison/__init__.py:529`); the request for the rate before a window pages through the whole
  history; two simulations that end together may lose one result, which a later cycle repairs
  (`SimulatedAgain`); half-hours before a tariff's first rate replay at 0 and simulate at the first rate;
  a standing charge that changes at a local midnight in summer loses a day (`calculator.py:155`).
- Config flow and life cycle: the options flow does not keep the meter numbers (`config_flow.py:658`) and
  preselects the heat-loss method by what is stored (795); options saved during a set-up take effect at
  the next reload (`__init__.py:90`); a coordinator of a failed set-up stays subscribed
  (`OnlyHalfwayLeft`); an unload leaves the services, the tariff coordinator and its tasks as they are
  (`__init__.py:95`; `Reload` of `TariffCoordinator` explores what those tasks still write).

## Not modelled

Of the coordinator: two overlapping update cycles (they need the scheduling of Home Assistant's
`DataUpdateCoordinator`, of which the model assumes that a refresh is over before the next starts);
`async_set_updated_data` as a wake-up; the deviation test of the hourly check (any deviation is
possible); tasks of a coordinator that a reload has replaced (they no longer reach the modelled state);
daylight saving; windows with a start but no end (dropped by `normalize_windows`, the same as no event).

Of the other components: prices in `BatteryLevel` and energies in `ScheduleSearch` (the schedule's cost
joins them); which earlier slots the ideal schedule charges in; today's consumption from Octopus; what a
push of the tariff comparison writes into one sensor entry, and its search for the export tariff;
monthly sums beside standing charges, weather and solar history; of the ML service its
authentication, TLS and liveness probe, features and fitting, and the histories of Octopus and
Open-Meteo.

Assumed of the data: GivEnergy's readings of a day come in order, do not decrease and have one time each
(`GivEnergyHistory`; where the clock goes back the code drops one of two); the standing charges of a tariff
follow each other (`StandingCharges`; the request does not say which payment method, `client.py:361`, and
rows of two methods would overlap and be charged twice).

Left out as a whole: the power calculator (real-valued interpolation without state), the sensors
(read-only views), the repository's scripts (not part of the running system).

## What could come next

1. A composition of `OctopusTariffs` and `RateSlots` with the planner, for what a plan is priced with
   when an agreement ends during a planning run.
2. Overlapping update cycles with an explicit model of `DataUpdateCoordinator`.
3. The cost of a schedule over `BatteryLevel`, to join it with `ScheduleSearch`.
4. How long a lost change of windows stays unrepaired, with the state of charge and its forecast.
5. The history from Octopus meters, beside the one from GivEnergy.
