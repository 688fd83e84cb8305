---------------------------- MODULE MlEstimator ----------------------------
(***************************************************************************)
(* The ML service's estimator: POST /configure with async_start, POST      *)
(* /retrain, the training pipeline, and the model file.                    *)
(*                                                                         *)
(* The service is one asyncio loop with an executor: between two awaits a  *)
(* handler or a training is atomic, an executor job runs beside the loop.  *)
(* A model is the training it came from (id, 0 for none) and the training  *)
(* its power surface was computed from (0 for no surface).                 *)
(***************************************************************************)
EXTENDS Naturals, Sequences, FiniteSets

CONSTANTS Trainers,      \* tasks running _run_training_pipeline
          Starters,      \* handlers of POST /configure
          OnDisk,        \* the models a first start may find on disk
          Aged,          \* ids of models older than _MODEL_MAX_AGE_DAYS
          Physics,       \* whether heating_type gives a physics calculator
          MaxModels,     \* bound on the ids of trained models
          MaxRestarts    \* bound on restarts of the service

NoModel == [id |-> 0, surface |-> 0]
Models == [id : 0 .. MaxModels, surface : 0 .. MaxModels]

ASSUME EstimatorAssumption ==
  /\ MaxModels \in Nat /\ MaxRestarts \in Nat
  /\ OnDisk \subseteq Models /\ \A m \in OnDisk : m.id # 0
  /\ Physics \in BOOLEAN

VARIABLES state,         \* _state
          isTraining,    \* _is_training
          holder,        \* {} or {the task that holds _training_lock}
          queue,         \* tasks waiting for the lock, first come first
          model,         \* _model
          disk,          \* what load_model would read
          job,           \* per training: where it is, the model it made
          start,         \* per handler: where it is, the model it loaded
          fresh,         \* the highest id in use
          saved,         \* history: ids that have ever been on disk
          restarts       \* restarts so far

loopVars == <<state, isTraining, holder, queue>>
estimatorVars == <<loopVars, model, disk, job, start, fresh, saved, restarts>>

States == {"not_configured", "configured", "training", "ready",
           "training_failed", "no_data"}
Free == [pc |-> "free", new |-> NoModel]
Idle == [pc |-> "idle", seen |-> NoModel]
InPipeline == {"work", "save", "publish"}

EstimatorTypeOK ==
  /\ state \in States /\ isTraining \in BOOLEAN
  /\ holder \subseteq Trainers /\ queue \in Seq(Trainers)
  /\ model \in Models /\ disk \in Models
  /\ job \in [Trainers -> [pc : {"free", "created", "waiting"} \cup InPipeline,
                           new : Models]]
  /\ start \in [Starters -> [pc : {"idle", "load", "loaded", "surface", "resave"},
                             seen : Models]]
  /\ \A t \in Trainers : job[t].pc = "waiting" <=> \E i \in DOMAIN queue : queue[i] = t
  /\ fresh \in 0 .. MaxModels /\ saved \subseteq 0 .. MaxModels
  /\ restarts \in 0 .. MaxRestarts

EstimatorInit ==
  /\ state = "not_configured" /\ isTraining = FALSE
  /\ holder = {} /\ queue = << >>
  /\ model = NoModel /\ disk \in OnDisk \cup {NoModel}
  /\ job = [t \in Trainers |-> Free] /\ start = [c \in Starters |-> Idle]
  /\ fresh = disk.id /\ saved = {disk.id} /\ restarts = 0
-----------------------------------------------------------------------------
(***************************************************************************)
(* asyncio.create_task(_run_training_pipeline()): nothing here looks       *)
(* whether a training is queued or running.  The first form forgets to     *)
(* queue for the lock.                                                     *)
(***************************************************************************)
SpawnUnqueued == \E t \in Trainers : /\ job[t].pc = "free"
                                     /\ job' = [job EXCEPT ![t].pc = "waiting"]

Spawn == \E t \in Trainers : /\ job[t].pc = "free"
                             /\ job' = [job EXCEPT ![t].pc = "created"]

NeedsRetrain(m) == m = NoModel \/ m.id \in Aged

(***************************************************************************)
(* The end of async_start, with m the model then in memory, is the end of  *)
(* the handler too.                                                        *)
(***************************************************************************)
Answer(c, m) ==
  /\ start' = [start EXCEPT ![c] = Idle]
  /\ \/ NeedsRetrain(m) /\ Spawn
     \/ ~NeedsRetrain(m) /\ UNCHANGED job

Configure(c) ==
  /\ start[c].pc = "idle"
  /\ state' = IF state \in {"training", "ready"} THEN state ELSE "configured"
  /\ start' = [start EXCEPT ![c].pc = "load"]
  /\ UNCHANGED <<isTraining, holder, queue, model, disk, job, fresh, saved, restarts>>

(***************************************************************************)
(* load_model runs in the executor; the loop may do other things before    *)
(* the handler is resumed with its result, which replaces _model and       *)
(* _state whatever they have become.  The first form does not look whether *)
(* there is a model.                                                       *)
(***************************************************************************)
LoadModel(c) ==
  /\ start[c].pc = "load"
  /\ start' = [start EXCEPT ![c] = [pc |-> "loaded", seen |-> disk]]
  /\ UNCHANGED <<loopVars, model, disk, job, fresh, saved, restarts>>

LoadedAsReady(c) ==
  LET m == start[c].seen
  IN /\ start[c].pc = "loaded"
     /\ model' = m /\ state' = "ready"
     /\ Answer(c, m)
     /\ UNCHANGED <<isTraining, holder, queue, disk, fresh, saved, restarts>>

Loaded(c) ==
  LET m == start[c].seen
  IN /\ start[c].pc = "loaded"
     /\ model' = m
     /\ state' = IF m # NoModel THEN "ready" ELSE "configured"
     /\ IF m # NoModel /\ m.surface = 0
          THEN start' = [start EXCEPT ![c].pc = "surface"] /\ UNCHANGED job
          ELSE Answer(c, m)
     /\ UNCHANGED <<isTraining, holder, queue, disk, fresh, saved, restarts>>

(***************************************************************************)
(* The migration of models without a surface.  The surface is computed for *)
(* the model that was loaded and then attached to the one in _model, which *)
(* a training or another handler may have replaced; that one is saved.     *)
(* Any exception is logged and ends the migration.                         *)
(***************************************************************************)
SurfaceMigrated(c) ==
  /\ start[c].pc = "surface"
  /\ \/ /\ model # NoModel
        /\ model' = [model EXCEPT !.surface = start[c].seen.id]
        /\ start' = [start EXCEPT ![c] = [pc |-> "resave", seen |-> model']]
        /\ UNCHANGED job
     \/ Answer(c, model) /\ UNCHANGED model
  /\ UNCHANGED <<loopVars, disk, fresh, saved, restarts>>

Resaved(c) ==
  /\ start[c].pc = "resave"
  /\ \/ disk' = start[c].seen /\ saved' = saved \cup {disk'.id}
     \/ UNCHANGED <<disk, saved>>
  /\ Answer(c, model)
  /\ UNCHANGED <<loopVars, model, fresh, restarts>>

(***************************************************************************)
(* POST /retrain.                                                          *)
(***************************************************************************)
Retrain ==
  /\ \/ isTraining /\ UNCHANGED job
     \/ ~isTraining /\ Spawn
  /\ UNCHANGED <<loopVars, model, disk, start, fresh, saved, restarts>>
-----------------------------------------------------------------------------
(***************************************************************************)
(* The pipeline.  The configuration is looked at before the lock is        *)
(* awaited; the lock is first come, first served.  The first form of       *)
(* Acquire trains without the lock.                                        *)
(***************************************************************************)
EnterPipeline(t) ==
  /\ job[t].pc = "created"
  /\ IF state = "not_configured"
       THEN job' = [job EXCEPT ![t] = Free] /\ UNCHANGED queue
       ELSE /\ job' = [job EXCEPT ![t].pc = "waiting"]
            /\ queue' = Append(queue, t)
  /\ UNCHANGED <<state, isTraining, holder, model, disk, start, fresh, saved, restarts>>

AcquireUnlocked(t) ==
  /\ job[t].pc = "waiting" /\ queue # << >> /\ Head(queue) = t
  /\ holder' = {t} /\ queue' = Tail(queue)
  /\ isTraining' = TRUE /\ state' = "training"
  /\ job' = [job EXCEPT ![t].pc = "work"]
  /\ UNCHANGED <<model, disk, start, fresh, saved, restarts>>

Acquire(t) ==
  /\ job[t].pc = "waiting" /\ queue # << >> /\ Head(queue) = t
  /\ holder = {}
  /\ holder' = {t} /\ queue' = Tail(queue)
  /\ isTraining' = TRUE /\ state' = "training"
  /\ job' = [job EXCEPT ![t].pc = "work"]
  /\ UNCHANGED <<model, disk, start, fresh, saved, restarts>>

Release(t) ==
  /\ holder' = {} /\ isTraining' = FALSE
  /\ job' = [job EXCEPT ![t] = Free]
  /\ UNCHANGED <<queue, start, fresh, restarts>>

(***************************************************************************)
(* The awaits up to save_model read nothing that another task writes: the  *)
(* history sources, the fit and the surface.  No consumption ends the      *)
(* training and the model in memory stays.  The fit is of actual minus     *)
(* physics: without a physics calculator that column is NaN and fit always *)
(* raises.  An exception of the surface is only logged.                    *)
(***************************************************************************)
NoData(t) ==
  /\ job[t].pc = "work"
  /\ state' = "no_data" /\ Release(t)
  /\ UNCHANGED <<model, disk, saved>>

Trained(t) ==
  /\ job[t].pc = "work" /\ Physics
  /\ fresh < MaxModels /\ fresh' = fresh + 1
  /\ \E s \in {0, fresh'} :
       job' = [job EXCEPT ![t] = [pc |-> "save", new |-> [id |-> fresh', surface |-> s]]]
  /\ UNCHANGED <<loopVars, model, disk, start, saved, restarts>>

(***************************************************************************)
(* An exception of a source, of the quality gate, of fit or of save_model. *)
(***************************************************************************)
TrainingFailed(t) ==
  /\ job[t].pc \in {"work", "save"}
  /\ state' = "training_failed" /\ Release(t)
  /\ UNCHANGED <<model, disk, saved>>

(***************************************************************************)
(* save_model writes a temporary file and replaces the model file; the     *)
(* loop learns of it later.  The first form publishes before it saves, the *)
(* second saves the model in memory.                                       *)
(***************************************************************************)
PublishFirst(t) ==
  /\ job[t].pc = "save"
  /\ model' = job[t].new
  /\ job' = [job EXCEPT ![t].pc = "publish"]
  /\ UNCHANGED <<loopVars, disk, start, fresh, saved, restarts>>

SavedOldModel(t) ==
  /\ job[t].pc = "save"
  /\ disk' = model /\ saved' = saved \cup {disk'.id}
  /\ job' = [job EXCEPT ![t].pc = "publish"]
  /\ UNCHANGED <<loopVars, model, start, fresh, restarts>>

Saved(t) ==
  /\ job[t].pc = "save"
  /\ disk' = job[t].new /\ saved' = saved \cup {disk'.id}
  /\ job' = [job EXCEPT ![t].pc = "publish"]
  /\ UNCHANGED <<loopVars, model, start, fresh, restarts>>

(***************************************************************************)
(* The training's last stretch.  The first form leaves the lock locked.    *)
(***************************************************************************)
PublishLocked(t) ==
  /\ job[t].pc = "publish"
  /\ model' = job[t].new
  /\ state' = "ready"
  /\ isTraining' = FALSE /\ job' = [job EXCEPT ![t] = Free]
  /\ UNCHANGED <<holder, queue, start, fresh, restarts, disk, saved>>

Publish(t) ==
  /\ job[t].pc = "publish"
  /\ model' = job[t].new
  /\ state' = "ready" /\ Release(t)
  /\ UNCHANGED <<disk, saved>>

(***************************************************************************)
(* The container restarts: memory is lost, the model file is not, because  *)
(* it is only ever replaced as a whole.  The first form is what a save in  *)
(* place could leave behind.                                               *)
(***************************************************************************)
RestartTornFile ==
  /\ restarts < MaxRestarts /\ restarts' = restarts + 1
  /\ state' = "not_configured" /\ isTraining' = FALSE
  /\ holder' = {} /\ queue' = << >>
  /\ model' = NoModel
  /\ job' = [t \in Trainers |-> Free] /\ start' = [c \in Starters |-> Idle]
  /\ disk' = IF \E t \in Trainers : job[t].pc = "save" THEN NoModel ELSE disk
  /\ UNCHANGED <<fresh, saved>>

ServiceRestart ==
  /\ restarts < MaxRestarts /\ restarts' = restarts + 1
  /\ state' = "not_configured" /\ isTraining' = FALSE
  /\ holder' = {} /\ queue' = << >>
  /\ model' = NoModel
  /\ job' = [t \in Trainers |-> Free] /\ start' = [c \in Starters |-> Idle]
  /\ UNCHANGED <<disk, fresh, saved>>

StarterStep(c) == LoadModel(c) \/ Loaded(c) \/ SurfaceMigrated(c) \/ Resaved(c)

TrainerStep(t) ==
  \/ EnterPipeline(t) \/ Acquire(t) \/ NoData(t) \/ Trained(t)
  \/ TrainingFailed(t) \/ Saved(t) \/ Publish(t)
=============================================================================
