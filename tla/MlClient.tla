------------------------------ MODULE MlClient ------------------------------
(***************************************************************************)
(* The ML service together with Home Assistant's client for it: POST       *)
(* /configure once per set-up of the integration, GET /status after set-up *)
(* and after each planning run, POST /predict while the cached status says *)
(* that a model is ready, POST /retrain monthly or by a service call.      *)
(* Each request may fail; a request that times out in the client goes on   *)
(* in the service.                                                         *)
(***************************************************************************)
EXTENDS MlEstimator

CONSTANT MaxReloads      \* bound on restarts and reloads of the integration

ASSUME ClientAssumption == MaxReloads \in Nat /\ Starters # {}

VARIABLES ha,            \* where the integration is
          call,          \* the handler of the last POST /configure
          ready,         \* _is_ready
          reloads        \* reloads so far

clientVars == <<ha, call, ready, reloads>>
vars == <<estimatorVars, clientVars>>

TypeOK ==
  /\ EstimatorTypeOK
  /\ ha \in {"start", "configuring", "status", "running"}
  /\ call \in Starters /\ ready \in BOOLEAN
  /\ reloads \in 0 .. MaxReloads

Init ==
  /\ EstimatorInit
  /\ ha = "start" /\ (call = CHOOSE c \in Starters : TRUE) /\ ready = FALSE
  /\ reloads = 0
-----------------------------------------------------------------------------
(***************************************************************************)
(* async_start of the client.  When it raises, set-up goes on.             *)
(***************************************************************************)
CallConfigure ==
  /\ ha = "start"
  /\ \E c \in Starters : Configure(c) /\ call' = c
  /\ ha' = "configuring"
  /\ UNCHANGED <<ready, reloads>>

ConfigureReplied ==
  /\ ha = "configuring" /\ start[call].pc = "idle"
  /\ ha' = "status"
  /\ UNCHANGED <<estimatorVars, call, ready, reloads>>

ConfigureFailed ==
  /\ ha \in {"start", "configuring"}
  /\ ha' = "running"
  /\ UNCHANGED <<estimatorVars, call, ready, reloads>>

StatusRefreshed ==
  /\ ha \in {"status", "running"} /\ ha' = "running"
  /\ ready' = (model # NoModel)
  /\ UNCHANGED <<estimatorVars, call, reloads>>

StatusFailed ==
  /\ ha \in {"status", "running"} /\ ha' = "running"
  /\ ready' = FALSE
  /\ UNCHANGED <<estimatorVars, call, reloads>>

(***************************************************************************)
(* POST /predict, which changes nothing: what the planning run gets.       *)
(* predict_batch returns the physics value of every slot whose inference   *)
(* raises, and inference reads model.primary_model.                        *)
(***************************************************************************)
TrainedModelFields ==
  {"estimator", "model_type", "feature_columns", "trained_at",
   "n_training_samples", "training_rmse", "blend_weight",
   "trained_with_octopus_feature", "slot_residual_std", "r2_score",
   "doy_daily_kwh", "power_surface"}

Prediction ==
  IF ready /\ model # NoModel /\ "primary_model" \in TrainedModelFields
    THEN "corrected" ELSE "physics"

TriggerRetrain ==
  /\ Retrain
  /\ UNCHANGED clientVars

(***************************************************************************)
(* A restart of the service breaks the request in progress; a restart or   *)
(* reload of the integration makes a new client.                           *)
(***************************************************************************)
Restart ==
  /\ ServiceRestart
  /\ ha' = IF ha = "configuring" THEN "running" ELSE ha
  /\ UNCHANGED <<call, ready, reloads>>

Reload ==
  /\ reloads < MaxReloads /\ reloads' = reloads + 1
  /\ ha' = "start" /\ ready' = FALSE
  /\ UNCHANGED <<estimatorVars, call>>

ClientStep ==
  \/ CallConfigure \/ ConfigureReplied \/ ConfigureFailed
  \/ StatusRefreshed \/ StatusFailed \/ TriggerRetrain

ServiceStep ==
  \/ \E c \in Starters : StarterStep(c)
  \/ \E t \in Trainers : TrainerStep(t)

Next ==
  \/ ClientStep
  \/ ServiceStep /\ UNCHANGED clientVars
  \/ Restart \/ Reload

Spec == Init /\ [][Next]_vars

(***************************************************************************)
(* The loop and the executor run what is ready, and every request a        *)
(* training makes ends or times out.  Set-up goes on by itself, and        *)
(* a status request that can be answered eventually is.                    *)
(***************************************************************************)
Progress(t) == TrainerStep(t) /\ UNCHANGED clientVars

FairSpec ==
  /\ Spec
  /\ \A c \in Starters : WF_vars(StarterStep(c) /\ UNCHANGED clientVars)
  /\ \A t \in Trainers : WF_vars(Progress(t))
  /\ WF_vars(CallConfigure \/ ConfigureReplied \/ ConfigureFailed)
  /\ SF_vars(StatusRefreshed)
-----------------------------------------------------------------------------
(***************************************************************************)
(* One training at a time: whatever is queued, at most one task is past    *)
(* the lock, and _is_training says so for as long as there is one.         *)
(***************************************************************************)
Training == {t \in Trainers : job[t].pc \in InPipeline}

TrainingExclusive ==
  /\ \A t, u \in Training : t = u
  /\ isTraining <=> Training # {}

(***************************************************************************)
(* A model that answers predictions is one that a restart could find: it   *)
(* has been on disk before it was published.                               *)
(***************************************************************************)
ServedIsSaved == model # NoModel => model.id \in saved

(***************************************************************************)
(* The status says ready only while there is a model, although handlers    *)
(* and trainings replace model and state without looking at each other.    *)
(***************************************************************************)
ReadyHasModel == state = "ready" => model # NoModel

(***************************************************************************)
(* Neither a crash nor two writers ever leave the service without a model  *)
(* once there was one on disk.                                             *)
(***************************************************************************)
NoModelLost == [][disk # NoModel => disk' # NoModel]_vars

(***************************************************************************)
(* A step that makes the file older is the end of a migration.             *)
(***************************************************************************)
MigrationOnlyRegresses ==
  disk'.id < disk.id =>
    \E c \in Starters : start[c].pc = "resave" /\ start'[c].pc = "idle"

(***************************************************************************)
(* The file goes back to an older model in one way only: the migration of  *)
(* a model without a surface saves it after a training has saved its own.  *)
(***************************************************************************)
RegressionOnlyByMigration == [][MigrationOnlyRegresses]_vars

(***************************************************************************)
(* Seen from outside, the service is a store of models: each is on disk    *)
(* before it is served, is newer than all before it, and the disk is never *)
(* without one again.                                                      *)
(***************************************************************************)
Store == INSTANCE ModelStore WITH served <- model.id, kept <- disk.id, stored <- saved

StoresModels == Store!Spec

(***************************************************************************)
(* A training that has been queued is eventually over, however many are    *)
(* queued before it and whatever their outcome.                            *)
(***************************************************************************)
TrainingEnds ==
  \A t \in Trainers : job[t].pc = "waiting" ~> job[t].pc = "free"

(***************************************************************************)
(* routes/predict.py:36: "Return ML-corrected kWh values for each slot",   *)
(* while the client and the service have a model.                          *)
(***************************************************************************)
Corrected == ready /\ model # NoModel => Prediction = "corrected"

(***************************************************************************)
(* _docs/machine-learning.md:140: the trained model survives a restart of  *)
(* the container.                                                          *)
(***************************************************************************)
ServedAfterRestart == restarts > 0 /\ disk # NoModel ~> model # NoModel
=============================================================================
