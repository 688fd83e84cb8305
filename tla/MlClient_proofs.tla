--------------------------- MODULE MlClient_proofs ---------------------------
(***************************************************************************)
(* What the ML service keeps to, for any number of handlers, trainings,    *)
(* models and restarts.                                                    *)
(***************************************************************************)
EXTENDS MlClient, TLAPS

JobSteps == {"free", "created", "waiting"} \cup InPipeline
StartSteps == {"idle", "load", "loaded", "surface", "resave"}
Jobs == [pc : JobSteps, new : Models]
Starts == [pc : StartSteps, seen : Models]

(***************************************************************************)
(* The type invariant in parts, the queue apart.                           *)
(***************************************************************************)
LoopTypes ==
  /\ state \in States /\ isTraining \in BOOLEAN
  /\ holder \subseteq Trainers /\ restarts \in 0 .. MaxRestarts

ModelTypes ==
  /\ model \in Models /\ disk \in Models
  /\ job \in [Trainers -> Jobs] /\ start \in [Starters -> Starts]
  /\ fresh \in 0 .. MaxModels /\ saved \subseteq 0 .. MaxModels

(***************************************************************************)
(* Nobody waits twice for the lock.                                        *)
(***************************************************************************)
Queued ==
  /\ queue \in Seq(Trainers)
  /\ \A i, j \in DOMAIN queue : queue[i] = queue[j] => i = j
  /\ \A t \in Trainers : job[t].pc = "waiting" <=> \E i \in DOMAIN queue : queue[i] = t

ClientTypes ==
  /\ ha \in {"start", "configuring", "status", "running"}
  /\ call \in Starters /\ ready \in BOOLEAN /\ reloads \in 0 .. MaxReloads

(***************************************************************************)
(* The holder of the lock is the task in the pipeline.                     *)
(***************************************************************************)
Locked == TrainingExclusive /\ holder = Training

(***************************************************************************)
(* Every model that is loaded, served or on disk is none, or one that has  *)
(* been on disk; the one a training is about to save is the newest there   *)
(* is, and what it is about to publish it has saved.                       *)
(***************************************************************************)
Genuine(m) == m = NoModel \/ (m.id \in saved /\ m.id # 0)

JobsKnown ==
  \A t \in Trainers :
    /\ job[t].pc = "save" => job[t].new.id = fresh /\ fresh # 0
    /\ job[t].pc = "publish" => job[t].new.id \in saved /\ job[t].new.id # 0

ModelsKnown ==
  /\ saved \subseteq 0 .. fresh
  /\ Genuine(model) /\ Genuine(disk)
  /\ \A c \in Starters : Genuine(start[c].seen)
  /\ \A c \in Starters : start[c].pc = "resave" => start[c].seen # NoModel
  /\ JobsKnown /\ ReadyHasModel

ServiceInv == LoopTypes /\ ModelTypes /\ Queued /\ Locked /\ ModelsKnown

MlInv == ServiceInv /\ ClientTypes

-----------------------------------------------------------------------------
(***************************************************************************)
(* The constants in the records.                                           *)
(***************************************************************************)
LEMMA ModelConstants ==
  /\ NoModel \in Models /\ NoModel.id = 0 /\ NoModel.surface = 0
  /\ Free \in Jobs /\ Free.pc = "free" /\ Free.new = NoModel
  /\ Idle \in Starts /\ Idle.pc = "idle" /\ Idle.seen = NoModel
<1>1. 0 \in 0 .. MaxModels
  BY EstimatorAssumption
<1>2. NoModel \in Models /\ NoModel.id = 0 /\ NoModel.surface = 0
  BY <1>1 DEF NoModel, Models
<1> HIDE DEF NoModel
<1>3. Free \in Jobs /\ Free.pc = "free" /\ Free.new = NoModel
  BY <1>2 DEF Free, Jobs, JobSteps
<1>4. Idle \in Starts /\ Idle.pc = "idle" /\ Idle.seen = NoModel
  BY <1>2 DEF Idle, Starts, StartSteps
<1> QED BY <1>2, <1>3, <1>4

LEMMA ModelFields ==
  ASSUME NEW m \in Models
  PROVE  /\ m.id \in 0 .. MaxModels /\ m.surface \in 0 .. MaxModels
         /\ \A i \in 0 .. MaxModels, s \in 0 .. MaxModels :
              [id |-> i, surface |-> s] \in Models /\ [id |-> i, surface |-> s].id = i
         /\ \A s \in 0 .. MaxModels : /\ [m EXCEPT !.surface = s] \in Models
                                      /\ [m EXCEPT !.surface = s].id = m.id
  BY DEF Models

(***************************************************************************)
(* What a new step of one training or one handler leaves of the others.    *)
(***************************************************************************)
LEMMA JobStep ==
  ASSUME ModelTypes, NEW t \in Trainers, NEW p \in JobSteps
  PROVE  /\ [job EXCEPT ![t].pc = p] \in [Trainers -> Jobs]
         /\ \A u \in Trainers :
              /\ [job EXCEPT ![t].pc = p][u].new = job[u].new
              /\ [job EXCEPT ![t].pc = p][u].pc = IF u = t THEN p ELSE job[u].pc
  BY DEF ModelTypes, Jobs

LEMMA JobNew ==
  ASSUME ModelTypes, NEW t \in Trainers, NEW p \in JobSteps, NEW m \in Models
  PROVE  /\ [job EXCEPT ![t] = [pc |-> p, new |-> m]] \in [Trainers -> Jobs]
         /\ \A u \in Trainers :
              [job EXCEPT ![t] = [pc |-> p, new |-> m]][u] =
                IF u = t THEN [pc |-> p, new |-> m] ELSE job[u]
  BY DEF ModelTypes, Jobs

LEMMA StartStep ==
  ASSUME ModelTypes, NEW c \in Starters, NEW p \in StartSteps
  PROVE  /\ [start EXCEPT ![c].pc = p] \in [Starters -> Starts]
         /\ \A d \in Starters :
              /\ [start EXCEPT ![c].pc = p][d].seen = start[d].seen
              /\ [start EXCEPT ![c].pc = p][d].pc = IF d = c THEN p ELSE start[d].pc
  BY DEF ModelTypes, Starts

LEMMA StartNew ==
  ASSUME ModelTypes, NEW c \in Starters, NEW p \in StartSteps, NEW m \in Models
  PROVE  /\ [start EXCEPT ![c] = [pc |-> p, seen |-> m]] \in [Starters -> Starts]
         /\ \A d \in Starters :
              [start EXCEPT ![c] = [pc |-> p, seen |-> m]][d] =
                IF d = c THEN [pc |-> p, seen |-> m] ELSE start[d]
  BY DEF ModelTypes, Starts
-----------------------------------------------------------------------------
(***************************************************************************)
(* A step in which at most one training is created.                        *)
(***************************************************************************)
JobsKept ==
  /\ job' \in [Trainers -> Jobs]
  /\ \A u \in Trainers :
       /\ job'[u].new = job[u].new
       /\ job'[u].pc = job[u].pc \/ (job[u].pc = "free" /\ job'[u].pc = "created")

LEMMA SpawnKeeps == ModelTypes /\ (Spawn \/ UNCHANGED job) => JobsKept
<1> SUFFICES ASSUME ModelTypes, Spawn \/ UNCHANGED job PROVE JobsKept
  OBVIOUS
<1>1. CASE Spawn
  <2>1. PICK t \in Trainers : job[t].pc = "free" /\ job' = [job EXCEPT ![t].pc = "created"]
    BY <1>1 DEF Spawn
  <2>2. "created" \in JobSteps
    BY DEF JobSteps
  <2>3. /\ job' \in [Trainers -> Jobs]
        /\ \A u \in Trainers : /\ job'[u].new = job[u].new
                               /\ job'[u].pc = IF u = t THEN "created" ELSE job[u].pc
    <3> HIDE DEF JobSteps
    <3> QED BY <2>1, <2>2, JobStep
  <2> QED BY <2>1, <2>3 DEF JobsKept
<1>2. CASE UNCHANGED job
  BY <1>2 DEF JobsKept, ModelTypes
<1> QED BY <1>1, <1>2

LEMMA AnswerKeeps ==
  ASSUME ModelTypes, NEW c \in Starters, NEW m \in Models, Answer(c, m)
  PROVE  /\ JobsKept /\ start' \in [Starters -> Starts]
         /\ \A d \in Starters : start'[d] = IF d = c THEN Idle ELSE start[d]
<1>1. JobsKept
  BY SpawnKeeps DEF Answer
<1>2. start' = [start EXCEPT ![c] = Idle]
  BY DEF Answer
<1> QED BY <1>1, <1>2, ModelConstants DEF ModelTypes

LEMMA KeptLocked == Locked /\ JobsKept /\ UNCHANGED <<isTraining, holder>> => Locked'
<1> SUFFICES ASSUME Locked, JobsKept, UNCHANGED <<isTraining, holder>> PROVE Locked'
  OBVIOUS
<1>1. Training' = Training
  BY DEF JobsKept, Training, InPipeline
<1> QED BY <1>1 DEF Locked, TrainingExclusive

LEMMA KeptQueued == Queued /\ JobsKept /\ UNCHANGED queue => Queued'
<1> SUFFICES ASSUME Queued, JobsKept, UNCHANGED queue PROVE Queued'
  OBVIOUS
<1>1. \A u \in Trainers : job'[u].pc = "waiting" <=> job[u].pc = "waiting"
  BY DEF JobsKept
<1> QED BY <1>1 DEF Queued

LEMMA KeptJobsKnown ==
  ASSUME JobsKnown, JobsKept, saved \subseteq saved', fresh' = fresh
  PROVE  JobsKnown'
  BY DEF JobsKnown, JobsKept

(***************************************************************************)
(* A handler's start record is typed and holds a genuine model.            *)
(***************************************************************************)
LEMMA SeenKnown ==
  ASSUME ModelTypes, ModelsKnown, NEW c \in Starters
  PROVE  start[c].seen \in Models /\ Genuine(start[c].seen) /\ start[c].pc \in StartSteps
  BY DEF ModelTypes, ModelsKnown, Starts

-----------------------------------------------------------------------------
(***************************************************************************)
(* The steps of the handlers: LockUnmoved is what they leave alone.        *)
(***************************************************************************)
LockUnmoved == UNCHANGED <<isTraining, holder, queue, fresh, restarts>>

HandlerKept ==
  /\ LockUnmoved /\ JobsKept /\ state' \in States
  /\ ModelTypes' /\ ModelsKnown'

LEMMA ConfigureKeeps ==
  ASSUME LoopTypes, ModelTypes, ModelsKnown, NEW c \in Starters, Configure(c)
  PROVE  HandlerKept
<1>1. JobsKept
  BY SpawnKeeps DEF Configure
<1>2. "load" \in StartSteps
  BY DEF StartSteps
<1>3. /\ start' \in [Starters -> Starts]
      /\ \A d \in Starters : /\ start'[d].seen = start[d].seen
                             /\ start'[d].pc = IF d = c THEN "load" ELSE start[d].pc
  <2> HIDE DEF StartSteps
  <2> QED BY <1>2, StartStep DEF Configure
<1>4. ModelTypes'
  BY <1>1, <1>3 DEF Configure, ModelTypes, JobsKept
<1>5. JobsKnown'
  BY <1>1, KeptJobsKnown DEF Configure, ModelsKnown
<1>6. ReadyHasModel' /\ state' \in States
  BY DEF Configure, ModelsKnown, ReadyHasModel, LoopTypes, States
<1>7. ModelsKnown'
  BY <1>3, <1>5, <1>6 DEF Configure, ModelsKnown, Genuine
<1> QED BY <1>1, <1>4, <1>6, <1>7 DEF HandlerKept, LockUnmoved, Configure

LEMMA LoadModelKeeps ==
  ASSUME LoopTypes, ModelTypes, ModelsKnown, NEW c \in Starters, LoadModel(c)
  PROVE  HandlerKept
<1>1. JobsKept
  BY SpawnKeeps DEF LoadModel
<1>2. "loaded" \in StartSteps /\ disk \in Models
  BY DEF StartSteps, ModelTypes
<1>3. /\ start' \in [Starters -> Starts]
      /\ \A d \in Starters :
           start'[d] = IF d = c THEN [pc |-> "loaded", seen |-> disk] ELSE start[d]
  <2> HIDE DEF StartSteps
  <2> QED BY <1>2, StartNew DEF LoadModel
<1>4. ModelTypes'
  BY <1>1, <1>3 DEF LoadModel, ModelTypes, JobsKept
<1>5. JobsKnown'
  BY <1>1, KeptJobsKnown DEF LoadModel, ModelsKnown
<1>6. ReadyHasModel' /\ state' \in States
  BY DEF LoadModel, loopVars, ModelsKnown, ReadyHasModel, LoopTypes
<1>7. ModelsKnown'
  BY <1>3, <1>5, <1>6 DEF LoadModel, ModelsKnown, Genuine
<1> QED BY <1>1, <1>4, <1>6, <1>7 DEF HandlerKept, LockUnmoved, LoadModel, loopVars

LEMMA LoadedKeeps ==
  ASSUME LoopTypes, ModelTypes, ModelsKnown, NEW c \in Starters, Loaded(c)
  PROVE  HandlerKept
<1> DEFINE m == start[c].seen
<1>0. m \in Models /\ Genuine(m) /\ model' = m
  BY SeenKnown DEF Loaded
<1>1. /\ JobsKept /\ start' \in [Starters -> Starts]
      /\ \A d \in Starters : /\ start'[d].seen \in {start[d].seen, NoModel}
                             /\ start'[d].pc = "resave" => start'[d] = start[d]
  <2>1. CASE m # NoModel /\ m.surface = 0
    <3>1. start' = [start EXCEPT ![c].pc = "surface"] /\ UNCHANGED job
      BY <2>1 DEF Loaded
    <3>2. "surface" \in StartSteps
      BY DEF StartSteps
    <3>3. /\ start' \in [Starters -> Starts]
          /\ \A d \in Starters : start'[d].seen = start[d].seen
          /\ \A d \in Starters : d # c => start'[d] = start[d]
          /\ start'[c].pc = "surface"
      <4> HIDE DEF StartSteps, m
      <4>1. /\ start' \in [Starters -> Starts]
            /\ \A d \in Starters :
                 /\ start'[d].seen = start[d].seen
                 /\ start'[d].pc = IF d = c THEN "surface" ELSE start[d].pc
        BY <3>1, <3>2, StartStep
      <4>2. \A d \in Starters : d # c => start'[d] = start[d]
        BY <3>1 DEF ModelTypes
      <4> QED BY <4>1, <4>2
    <3>4. \A d \in Starters : /\ start'[d].seen \in {start[d].seen, NoModel}
                             /\ start'[d].pc = "resave" => start'[d] = start[d]
      <4> HIDE DEF m
      <4> QED BY <3>3
    <3>5. JobsKept
      BY <3>1, SpawnKeeps
    <3> QED BY <3>3, <3>4, <3>5
  <2>2. CASE ~(m # NoModel /\ m.surface = 0)
    <3>1. Answer(c, m)
      BY <2>2 DEF Loaded
    <3> QED BY <3>1, <1>0, AnswerKeeps, ModelConstants
  <2> QED BY <2>1, <2>2
<1>4. ModelTypes'
  BY <1>0, <1>1 DEF Loaded, ModelTypes, JobsKept
<1>5. JobsKnown'
  BY <1>1, KeptJobsKnown DEF Loaded, ModelsKnown
<1>6. ReadyHasModel' /\ state' \in States
  BY <1>0 DEF Loaded, ReadyHasModel, States
<1>7. ModelsKnown'
  BY <1>0, <1>1, <1>5, <1>6 DEF Loaded, ModelsKnown, Genuine
<1> QED BY <1>1, <1>4, <1>6, <1>7 DEF HandlerKept, LockUnmoved, Loaded

LEMMA SurfaceMigratedKeeps ==
  ASSUME LoopTypes, ModelTypes, ModelsKnown, NEW c \in Starters, SurfaceMigrated(c)
  PROVE  HandlerKept
<1>0. /\ start[c].seen.id \in 0 .. MaxModels /\ model \in Models
      /\ UNCHANGED <<loopVars, disk, fresh, saved, restarts>>
  BY SeenKnown, ModelFields DEF SurfaceMigrated, ModelTypes
<1>1. CASE /\ model # NoModel
           /\ model' = [model EXCEPT !.surface = start[c].seen.id]
           /\ start' = [start EXCEPT ![c] = [pc |-> "resave", seen |-> model']]
           /\ UNCHANGED job
  <2>1. model' \in Models /\ model'.id = model.id
    BY <1>0, <1>1, ModelFields
  <2>2. Genuine(model) /\ model # NoModel /\ model.id # 0
    BY <1>1 DEF ModelsKnown, Genuine
  <2>3. model' # NoModel /\ Genuine(model')
    <3> HIDE DEF NoModel
    <3> QED BY <2>1, <2>2, ModelConstants DEF Genuine
  <2>4. "resave" \in StartSteps
    BY DEF StartSteps
  <2>5. /\ start' \in [Starters -> Starts]
        /\ \A d \in Starters :
             start'[d] = IF d = c THEN [pc |-> "resave", seen |-> model'] ELSE start[d]
    <3> HIDE DEF StartSteps
    <3>1. start' = [start EXCEPT ![c] = [pc |-> "resave", seen |-> model']]
      BY <1>1
    <3> QED BY <3>1, <2>1, <2>4, StartNew
  <2>6. JobsKept
    BY <1>1, SpawnKeeps
  <2>7. ModelTypes'
    BY <1>0, <2>1, <2>5, <2>6 DEF ModelTypes, JobsKept
  <2>8. JobsKnown'
    BY <1>0, <2>6, KeptJobsKnown DEF ModelsKnown
  <2>9. ReadyHasModel'
    BY <2>3 DEF ReadyHasModel
  <2>10. ModelsKnown'
    BY <1>0, <2>3, <2>5, <2>8, <2>9 DEF ModelsKnown, Genuine
  <2> QED BY <1>0, <2>6, <2>7, <2>10 DEF HandlerKept, LockUnmoved, LoopTypes, loopVars
<1>2. CASE Answer(c, model) /\ UNCHANGED model
  <2>1. /\ JobsKept /\ start' \in [Starters -> Starts]
        /\ \A d \in Starters : start'[d] = IF d = c THEN Idle ELSE start[d]
    BY <1>0, <1>2, AnswerKeeps
  <2>2. ModelTypes'
    BY <1>0, <1>2, <2>1 DEF ModelTypes, JobsKept
  <2>3. JobsKnown'
    BY <1>0, <2>1, KeptJobsKnown DEF ModelsKnown
  <2>4. ReadyHasModel'
    BY <1>0, <1>2 DEF ModelsKnown, ReadyHasModel, loopVars
  <2>5. ModelsKnown'
    BY <1>0, <1>2, <2>1, <2>3, <2>4, ModelConstants DEF ModelsKnown, Genuine
  <2> QED BY <1>0, <2>1, <2>2, <2>5 DEF HandlerKept, LockUnmoved, LoopTypes, loopVars
<1> QED BY <1>1, <1>2 DEF SurfaceMigrated

LEMMA ResavedKeeps ==
  ASSUME LoopTypes, ModelTypes, ModelsKnown, NEW c \in Starters, Resaved(c)
  PROVE  HandlerKept
<1>0. /\ Answer(c, model) /\ model \in Models
      /\ UNCHANGED <<loopVars, model, fresh, restarts>>
  BY DEF Resaved, ModelTypes
<1>1. /\ JobsKept /\ start' \in [Starters -> Starts]
      /\ \A d \in Starters : start'[d] = IF d = c THEN Idle ELSE start[d]
  BY <1>0, AnswerKeeps
<1>2. start[c].seen \in Models /\ start[c].seen.id \in saved /\ start[c].seen.id # 0
  BY SeenKnown DEF Resaved, ModelsKnown, Genuine
<1>3. /\ disk' \in Models /\ saved' = saved
      /\ Genuine(disk')
  BY <1>2 DEF Resaved, ModelTypes, ModelsKnown, Genuine
<1>4. ModelTypes'
  BY <1>0, <1>1, <1>3 DEF ModelTypes, JobsKept
<1>5. JobsKnown'
  BY <1>0, <1>1, <1>3, KeptJobsKnown DEF ModelsKnown
<1>6. ReadyHasModel'
  BY <1>0 DEF ModelsKnown, ReadyHasModel, loopVars
<1>7. ModelsKnown'
  BY <1>0, <1>1, <1>3, <1>5, <1>6, ModelConstants DEF ModelsKnown, Genuine
<1> QED BY <1>0, <1>1, <1>4, <1>7 DEF HandlerKept, LockUnmoved, LoopTypes, loopVars

LEMMA RetrainKeeps ==
  ASSUME LoopTypes, ModelTypes, ModelsKnown, Retrain
  PROVE  HandlerKept
<1>0. UNCHANGED <<loopVars, model, disk, start, fresh, saved, restarts>>
  BY DEF Retrain
<1>1. JobsKept
  BY SpawnKeeps DEF Retrain
<1>2. ModelTypes'
  BY <1>0, <1>1 DEF ModelTypes, JobsKept
<1>3. JobsKnown'
  BY <1>0, <1>1, KeptJobsKnown DEF ModelsKnown
<1>4. ModelsKnown'
  BY <1>0, <1>3 DEF ModelsKnown, Genuine, ReadyHasModel, loopVars
<1> QED BY <1>0, <1>1, <1>2, <1>4 DEF HandlerKept, LockUnmoved, LoopTypes, loopVars

-----------------------------------------------------------------------------
(***************************************************************************)
(* The queue for the lock, when a task is appended and when one leaves.    *)
(***************************************************************************)
LEMMA AppendedQueue ==
  ASSUME NEW q \in Seq(Trainers), NEW t \in Trainers,
         \A i, j \in DOMAIN q : q[i] = q[j] => i = j,
         \A i \in DOMAIN q : q[i] # t
  PROVE  /\ Append(q, t) \in Seq(Trainers)
         /\ \A i, j \in DOMAIN Append(q, t) : Append(q, t)[i] = Append(q, t)[j] => i = j
         /\ \A u \in Trainers : (\E i \in DOMAIN Append(q, t) : Append(q, t)[i] = u)
                               <=> u = t \/ \E i \in DOMAIN q : q[i] = u
<1> DEFINE r == Append(q, t)
<1>1. /\ r \in Seq(Trainers) /\ Len(q) \in Nat
      /\ DOMAIN q = 1 .. Len(q) /\ DOMAIN r = 1 .. Len(q) + 1
      /\ \A i \in 1 .. Len(q) : r[i] = q[i]
      /\ r[Len(q) + 1] = t
  OBVIOUS
<1> HIDE DEF r
<1>2. \A i, j \in DOMAIN r : r[i] = r[j] => i = j
  BY <1>1
<1>3. ASSUME NEW u \in Trainers
      PROVE  (\E i \in DOMAIN r : r[i] = u) <=> u = t \/ \E i \in DOMAIN q : q[i] = u
  BY <1>1
<1> QED BY <1>1, <1>2, <1>3 DEF r

LEMMA ShortenedQueue ==
  ASSUME NEW q \in Seq(Trainers), q # << >>,
         \A i, j \in DOMAIN q : q[i] = q[j] => i = j
  PROVE  /\ Tail(q) \in Seq(Trainers) /\ Head(q) \in Trainers
         /\ \A i, j \in DOMAIN Tail(q) : Tail(q)[i] = Tail(q)[j] => i = j
         /\ \A u \in Trainers : (\E i \in DOMAIN Tail(q) : Tail(q)[i] = u)
                               <=> u # Head(q) /\ \E i \in DOMAIN q : q[i] = u
<1> DEFINE r == Tail(q)
<1>1. /\ r \in Seq(Trainers) /\ Len(q) \in Nat /\ Len(q) > 0
      /\ DOMAIN q = 1 .. Len(q) /\ DOMAIN r = 1 .. Len(q) - 1
      /\ \A i \in 1 .. Len(q) - 1 : r[i] = q[i + 1]
      /\ Head(q) = q[1] /\ Head(q) \in Trainers
  OBVIOUS
<1> HIDE DEF r
<1>2. \A i, j \in DOMAIN r : r[i] = r[j] => i = j
  BY <1>1
<1>3. ASSUME NEW u \in Trainers
      PROVE  (\E i \in DOMAIN r : r[i] = u) <=> u # Head(q) /\ \E i \in DOMAIN q : q[i] = u
  <2>1. ASSUME NEW i \in DOMAIN r, r[i] = u
        PROVE  u # Head(q) /\ \E j \in DOMAIN q : q[j] = u
    <3>1. i + 1 \in DOMAIN q /\ 1 \in DOMAIN q /\ q[i + 1] = u /\ i + 1 # 1
      BY <1>1, <2>1
    <3> QED BY <3>1, <1>1
  <2>2. ASSUME u # Head(q), NEW j \in DOMAIN q, q[j] = u
        PROVE  \E i \in DOMAIN r : r[i] = u
    <3>1. j - 1 \in DOMAIN r /\ r[j - 1] = u
      BY <1>1, <2>2
    <3> QED BY <3>1
  <2> QED BY <2>1, <2>2
<1> QED BY <1>1, <1>2, <1>3 DEF r

-----------------------------------------------------------------------------
(***************************************************************************)
(* The steps of a training.  It is alone in the pipeline.                  *)
(***************************************************************************)
LEMMA AloneInPipeline ==
  ASSUME Locked, NEW t \in Trainers, job[t].pc \in InPipeline
  PROVE  /\ Training = {t} /\ holder = {t} /\ isTraining
         /\ \A u \in Trainers : u # t => job[u].pc \notin InPipeline
  BY DEF Locked, Training, TrainingExclusive

LEMMA ReleaseKeeps ==
  ASSUME LoopTypes, ModelTypes, Queued, Locked, JobsKnown,
         NEW t \in Trainers, job[t].pc \in InPipeline, Release(t),
         saved \subseteq saved'
  PROVE  /\ holder' \subseteq Trainers /\ isTraining' \in BOOLEAN
         /\ job' \in [Trainers -> Jobs] /\ Queued' /\ Locked' /\ JobsKnown'
<1>1. /\ job' \in [Trainers -> Jobs]
      /\ \A u \in Trainers : job'[u] = IF u = t THEN Free ELSE job[u]
  BY ModelConstants DEF Release, ModelTypes
<1>2. \A u \in Trainers : job'[u].pc \notin InPipeline
  BY <1>1, AloneInPipeline, ModelConstants DEF InPipeline
<1>3. Locked'
  BY <1>2 DEF Locked, Training, TrainingExclusive, Release
<1>4. job[t].pc # "waiting" /\ Free.pc # "waiting"
  BY ModelConstants DEF InPipeline
<1>5. Queued'
  BY <1>1, <1>4 DEF Queued, Release
<1>6. JobsKnown'
  BY <1>2 DEF JobsKnown, InPipeline
<1> QED BY <1>1, <1>3, <1>5, <1>6 DEF Release

LEMMA EnterPipelineKeeps ==
  ASSUME ServiceInv, NEW t \in Trainers, EnterPipeline(t)
  PROVE  ServiceInv'
<1> USE DEF ServiceInv
<1>0. /\ job[t].pc = "created"
      /\ UNCHANGED <<state, isTraining, holder, model, disk, start, fresh, saved, restarts>>
  BY DEF EnterPipeline
<1>1. CASE state = "not_configured"
  <2>1. job' = [job EXCEPT ![t] = Free] /\ UNCHANGED queue
    BY <1>1 DEF EnterPipeline
  <2>2. /\ job' \in [Trainers -> Jobs]
        /\ \A u \in Trainers : job'[u] = IF u = t THEN Free ELSE job[u]
    BY <2>1, ModelConstants DEF ModelTypes
  <2>3. /\ \A u \in Trainers : job'[u].pc \in InPipeline <=> job[u].pc \in InPipeline
        /\ \A u \in Trainers : job'[u].pc = "waiting" <=> job[u].pc = "waiting"
        /\ \A u \in Trainers : job'[u].pc \in InPipeline => job'[u] = job[u]
    BY <1>0, <2>2, ModelConstants DEF InPipeline
  <2>4. Queued'
    BY <2>1, <2>3 DEF Queued
  <2>5. Locked'
    BY <1>0, <2>3 DEF Locked, Training, TrainingExclusive
  <2>6. ModelsKnown'
    BY <1>0, <2>3 DEF ModelsKnown, JobsKnown, InPipeline, Genuine, ReadyHasModel
  <2> QED BY <1>0, <2>2, <2>4, <2>5, <2>6 DEF LoopTypes, ModelTypes
<1>2. CASE state # "not_configured"
  <2>1. job' = [job EXCEPT ![t].pc = "waiting"] /\ queue' = Append(queue, t)
    BY <1>2 DEF EnterPipeline
  <2>2. "waiting" \in JobSteps
    BY DEF JobSteps
  <2>3. /\ job' \in [Trainers -> Jobs]
        /\ \A u \in Trainers : /\ job'[u].new = job[u].new
                               /\ job'[u].pc = IF u = t THEN "waiting" ELSE job[u].pc
    BY <2>1, <2>2, JobStep
  <2>4. /\ \A u \in Trainers : job'[u].pc \in InPipeline <=> job[u].pc \in InPipeline
        /\ \A u \in Trainers : job'[u].pc \in InPipeline =>
                                   job'[u].pc = job[u].pc /\ job'[u].new = job[u].new
    BY <1>0, <2>3 DEF InPipeline
  <2>5. \A i \in DOMAIN queue : queue[i] # t
    BY <1>0 DEF Queued
  <2>6. Queued'
    <3>1. queue \in Seq(Trainers) /\ \A i, j \in DOMAIN queue : queue[i] = queue[j] => i = j
      BY DEF Queued
    <3>2. /\ queue' \in Seq(Trainers)
          /\ \A i, j \in DOMAIN queue' : queue'[i] = queue'[j] => i = j
          /\ \A u \in Trainers : (\E i \in DOMAIN queue' : queue'[i] = u)
                                <=> u = t \/ \E i \in DOMAIN queue : queue[i] = u
      BY <2>1, <2>5, <3>1, AppendedQueue
    <3>3. \A u \in Trainers :
            job'[u].pc = "waiting" <=> u = t \/ \E i \in DOMAIN queue : queue[i] = u
      BY <2>3 DEF Queued
    <3> QED BY <3>2, <3>3 DEF Queued
  <2>7. Locked'
    BY <1>0, <2>4 DEF Locked, Training, TrainingExclusive
  <2>8. ModelsKnown'
    BY <1>0, <2>4 DEF ModelsKnown, JobsKnown, InPipeline, Genuine, ReadyHasModel
  <2> QED BY <1>0, <2>3, <2>6, <2>7, <2>8 DEF LoopTypes, ModelTypes
<1> QED BY <1>1, <1>2

LEMMA AcquireKeeps ==
  ASSUME ServiceInv, NEW t \in Trainers, Acquire(t)
  PROVE  ServiceInv'
<1> USE DEF ServiceInv
<1>0. /\ job[t].pc = "waiting" /\ queue # << >> /\ Head(queue) = t /\ holder = {}
      /\ holder' = {t} /\ queue' = Tail(queue) /\ isTraining' = TRUE /\ state' = "training"
      /\ job' = [job EXCEPT ![t].pc = "work"]
      /\ UNCHANGED <<model, disk, start, fresh, saved, restarts>>
  BY DEF Acquire
<1>1. "work" \in JobSteps
  BY DEF JobSteps, InPipeline
<1>2. /\ job' \in [Trainers -> Jobs]
      /\ \A u \in Trainers : /\ job'[u].new = job[u].new
                             /\ job'[u].pc = IF u = t THEN "work" ELSE job[u].pc
  BY <1>0, <1>1, JobStep
<1>3. \A u \in Trainers : job[u].pc \notin InPipeline
  BY <1>0 DEF Locked, Training
<1>4. \A u \in Trainers : job'[u].pc \in InPipeline <=> u = t
  BY <1>2, <1>3 DEF InPipeline
<1>5. Locked'
  BY <1>0, <1>4 DEF Locked, Training, TrainingExclusive
<1>6. Queued'
  <2>1. queue \in Seq(Trainers) /\ \A i, j \in DOMAIN queue : queue[i] = queue[j] => i = j
    BY DEF Queued
  <2>2. /\ queue' \in Seq(Trainers)
        /\ \A i, j \in DOMAIN queue' : queue'[i] = queue'[j] => i = j
        /\ \A u \in Trainers : (\E i \in DOMAIN queue' : queue'[i] = u)
                              <=> u # t /\ \E i \in DOMAIN queue : queue[i] = u
    BY <1>0, <2>1, ShortenedQueue
  <2>3. \A u \in Trainers :
          job'[u].pc = "waiting" <=> u # t /\ \E i \in DOMAIN queue : queue[i] = u
    BY <1>2 DEF Queued
  <2> QED BY <2>2, <2>3 DEF Queued
<1>7. \A u \in Trainers : job'[u].pc \notin {"save", "publish"}
  BY <1>2, <1>4 DEF InPipeline
<1>8. ModelsKnown'
  BY <1>0, <1>7 DEF ModelsKnown, JobsKnown, Genuine, ReadyHasModel
<1>9. LoopTypes' /\ ModelTypes'
  BY <1>0, <1>2 DEF LoopTypes, ModelTypes, States
<1> QED BY <1>5, <1>6, <1>8, <1>9

LEMMA NoDataKeeps ==
  ASSUME ServiceInv, NEW t \in Trainers, NoData(t) \/ TrainingFailed(t)
  PROVE  ServiceInv'
<1> USE DEF ServiceInv
<1>0. /\ job[t].pc \in InPipeline /\ state' \in {"no_data", "training_failed"} /\ Release(t)
      /\ UNCHANGED <<model, disk, saved, start, fresh, restarts>>
  BY DEF NoData, TrainingFailed, InPipeline, Release
<1>1. /\ holder' \subseteq Trainers /\ isTraining' \in BOOLEAN
      /\ job' \in [Trainers -> Jobs] /\ Queued' /\ Locked' /\ JobsKnown'
  BY <1>0, ReleaseKeeps DEF ModelsKnown
<1>2. LoopTypes' /\ ModelTypes'
  BY <1>0, <1>1 DEF LoopTypes, ModelTypes, States
<1>3. ModelsKnown'
  BY <1>0, <1>1 DEF ModelsKnown, Genuine, ReadyHasModel
<1> QED BY <1>1, <1>2, <1>3

LEMMA PublishKeeps ==
  ASSUME ServiceInv, NEW t \in Trainers, Publish(t)
  PROVE  ServiceInv'
<1> USE DEF ServiceInv
<1>0. /\ job[t].pc \in InPipeline /\ state' = "ready" /\ Release(t)
      /\ model' = job[t].new
      /\ UNCHANGED <<disk, saved, start, fresh, restarts>>
  BY DEF Publish, InPipeline, Release
<1>1. /\ holder' \subseteq Trainers /\ isTraining' \in BOOLEAN
      /\ job' \in [Trainers -> Jobs] /\ Queued' /\ Locked' /\ JobsKnown'
  BY <1>0, ReleaseKeeps DEF ModelsKnown
<1>2. model' \in Models /\ model'.id \in saved /\ model'.id # 0
  BY <1>0 DEF Publish, ModelTypes, Jobs, ModelsKnown, JobsKnown
<1>3. model' # NoModel /\ Genuine(model')
  <2> HIDE DEF NoModel
  <2> QED BY <1>2, ModelConstants DEF Genuine
<1>4. LoopTypes' /\ ModelTypes'
  BY <1>0, <1>1, <1>2 DEF LoopTypes, ModelTypes, States
<1>5. ModelsKnown'
  BY <1>0, <1>1, <1>3 DEF ModelsKnown, Genuine, ReadyHasModel
<1> QED BY <1>1, <1>4, <1>5

LEMMA TrainedKeeps ==
  ASSUME ServiceInv, NEW t \in Trainers, Trained(t)
  PROVE  ServiceInv'
<1> USE DEF ServiceInv
<1>0. /\ job[t].pc = "work" /\ fresh' = fresh + 1 /\ fresh < MaxModels
      /\ UNCHANGED <<loopVars, model, disk, start, saved, restarts>>
  BY DEF Trained
<1>1. PICK s \in {0, fresh'} :
        job' = [job EXCEPT ![t] = [pc |-> "save", new |-> [id |-> fresh', surface |-> s]]]
  BY DEF Trained
<1>2. fresh' \in 0 .. MaxModels /\ s \in 0 .. MaxModels /\ fresh' # 0 /\ fresh \in Nat
  BY <1>0, EstimatorAssumption DEF ModelTypes
<1> DEFINE m == [id |-> fresh', surface |-> s]
<1>3. m \in Models /\ m.id = fresh'
  BY <1>2 DEF Models
<1>4. "save" \in JobSteps
  BY DEF JobSteps, InPipeline
<1>5. /\ job' \in [Trainers -> Jobs]
      /\ \A u \in Trainers : job'[u] = IF u = t THEN [pc |-> "save", new |-> m] ELSE job[u]
  <2>1. job' = [job EXCEPT ![t] = [pc |-> "save", new |-> m]]
    BY <1>1
  <2> HIDE DEF m
  <2> QED BY <2>1, <1>3, <1>4, JobNew
<1>6. \A u \in Trainers : u # t => job[u].pc \notin InPipeline
  BY <1>0, AloneInPipeline DEF InPipeline
<1> HIDE DEF m
<1>7. Locked'
  <2>1. Training' = Training
    BY <1>0, <1>5 DEF Training, InPipeline
  <2> QED BY <2>1, <1>0 DEF Locked, TrainingExclusive, loopVars
<1>8. Queued'
  BY <1>0, <1>5 DEF Queued, loopVars
<1>9. JobsKnown'
  BY <1>2, <1>3, <1>5, <1>6 DEF JobsKnown, InPipeline
<1>10. saved' \subseteq 0 .. fresh'
  BY <1>0, <1>2 DEF ModelsKnown
<1>11. ModelsKnown'
  BY <1>0, <1>9, <1>10 DEF ModelsKnown, Genuine, ReadyHasModel, loopVars
<1>12. LoopTypes' /\ ModelTypes'
  BY <1>0, <1>2, <1>5 DEF LoopTypes, ModelTypes, loopVars
<1> QED BY <1>7, <1>8, <1>11, <1>12

LEMMA SavedKeeps ==
  ASSUME ServiceInv, NEW t \in Trainers, Saved(t)
  PROVE  ServiceInv'
<1> USE DEF ServiceInv
<1>0. /\ job[t].pc = "save" /\ disk' = job[t].new /\ saved' = saved \cup {disk'.id}
      /\ job' = [job EXCEPT ![t].pc = "publish"]
      /\ UNCHANGED <<loopVars, model, start, fresh, restarts>>
  BY DEF Saved
<1>1. disk' \in Models /\ disk'.id = fresh /\ fresh # 0 /\ fresh \in 0 .. MaxModels
  BY <1>0 DEF ModelTypes, Jobs, ModelsKnown, JobsKnown
<1>2. "publish" \in JobSteps
  BY DEF JobSteps, InPipeline
<1>3. /\ job' \in [Trainers -> Jobs]
      /\ \A u \in Trainers : /\ job'[u].new = job[u].new
                             /\ job'[u].pc = IF u = t THEN "publish" ELSE job[u].pc
  BY <1>0, <1>2, JobStep
<1>4. Locked'
  <2>1. Training' = Training
    BY <1>0, <1>3 DEF Training, InPipeline
  <2> QED BY <2>1, <1>0 DEF Locked, TrainingExclusive, loopVars
<1>5. Queued'
  <2>1. \A u \in Trainers : job'[u].pc = "waiting" <=> job[u].pc = "waiting"
    BY <1>0, <1>3
  <2> QED BY <1>0, <2>1 DEF Queued, loopVars
<1>6. JobsKnown'
  BY <1>0, <1>1, <1>3 DEF ModelsKnown, JobsKnown
<1>7. saved' \subseteq 0 .. fresh' /\ saved' \subseteq 0 .. MaxModels /\ saved \subseteq saved'
  BY <1>0, <1>1 DEF ModelsKnown, ModelTypes
<1>8. ModelsKnown'
  BY <1>0, <1>1, <1>6, <1>7 DEF ModelsKnown, Genuine, ReadyHasModel, loopVars
<1>9. LoopTypes' /\ ModelTypes'
  BY <1>0, <1>1, <1>3, <1>7 DEF LoopTypes, ModelTypes, loopVars
<1> QED BY <1>4, <1>5, <1>8, <1>9

LEMMA ServiceRestartKeeps ==
  ASSUME ServiceInv, ServiceRestart
  PROVE  ServiceInv'
<1> USE DEF ServiceInv
<1>0. /\ restarts < MaxRestarts /\ restarts' = restarts + 1
      /\ state' = "not_configured" /\ isTraining' = FALSE
      /\ holder' = {} /\ queue' = << >> /\ model' = NoModel
      /\ job' = [t \in Trainers |-> Free] /\ start' = [c \in Starters |-> Idle]
      /\ UNCHANGED <<disk, fresh, saved>>
  BY DEF ServiceRestart
<1>1. /\ job' \in [Trainers -> Jobs] /\ start' \in [Starters -> Starts]
      /\ \A t \in Trainers : job'[t].pc = "free"
      /\ \A c \in Starters : start'[c].pc = "idle" /\ start'[c].seen = NoModel
  BY <1>0, ModelConstants
<1>2. Locked'
  BY <1>0, <1>1 DEF Locked, TrainingExclusive, Training, InPipeline
<1>3. Queued'
  BY <1>0, <1>1 DEF Queued
<1>4. ModelsKnown'
  BY <1>0, <1>1 DEF ModelsKnown, JobsKnown, Genuine, ReadyHasModel
<1>5. LoopTypes'
  <2>1. restarts' \in 0 .. MaxRestarts
    BY <1>0, EstimatorAssumption DEF LoopTypes
  <2> QED BY <1>0, <2>1 DEF LoopTypes, States
<1>6. ModelTypes'
  BY <1>0, <1>1, ModelConstants DEF ModelTypes
<1> QED BY <1>2, <1>3, <1>4, <1>5, <1>6

-----------------------------------------------------------------------------
(***************************************************************************)
(* The invariant of service and client.                                    *)
(***************************************************************************)
LEMMA MlInit == Init => MlInv
<1> SUFFICES ASSUME Init PROVE MlInv
  OBVIOUS
<1>0. /\ state = "not_configured" /\ isTraining = FALSE
      /\ holder = {} /\ queue = << >>
      /\ model = NoModel /\ disk \in OnDisk \cup {NoModel}
      /\ job = [t \in Trainers |-> Free] /\ start = [c \in Starters |-> Idle]
      /\ fresh = disk.id /\ saved = {disk.id} /\ restarts = 0
  BY DEF Init, EstimatorInit
<1>1. /\ job \in [Trainers -> Jobs] /\ start \in [Starters -> Starts]
      /\ \A t \in Trainers : job[t].pc = "free"
      /\ \A c \in Starters : start[c].pc = "idle" /\ start[c].seen = NoModel
  BY <1>0, ModelConstants
<1>2. disk \in Models /\ disk.id \in 0 .. MaxModels /\ (disk = NoModel \/ disk.id # 0)
  BY <1>0, EstimatorAssumption, ModelConstants DEF Models
<1>3. Locked
  BY <1>0, <1>1 DEF Locked, TrainingExclusive, Training, InPipeline
<1>4. Queued
  BY <1>0, <1>1 DEF Queued
<1>5. ModelsKnown
  BY <1>0, <1>1, <1>2 DEF ModelsKnown, JobsKnown, Genuine, ReadyHasModel
<1>6. LoopTypes
  <2>1. 0 \in 0 .. MaxRestarts
    BY EstimatorAssumption
  <2> QED BY <1>0, <2>1 DEF LoopTypes, States
<1>7. ModelTypes
  BY <1>0, <1>1, <1>2, ModelConstants DEF ModelTypes
<1>8. ClientTypes
  <2>1. 0 \in 0 .. MaxReloads
    BY ClientAssumption
  <2>2. call \in Starters
    <3>1. call = CHOOSE c \in Starters : TRUE
      BY DEF Init
    <3>2. \E c \in Starters : TRUE
      BY ClientAssumption
    <3> QED BY <3>1, <3>2
  <2> QED BY <2>1, <2>2 DEF Init, ClientTypes
<1> QED BY <1>3, <1>4, <1>5, <1>6, <1>7, <1>8 DEF MlInv, ServiceInv

LEMMA HandlersKeep ==
  ASSUME ServiceInv,
         \/ \E c \in Starters : Configure(c) \/ StarterStep(c)
         \/ Retrain
  PROVE  ServiceInv'
<1>1. HandlerKept
  BY ConfigureKeeps, LoadModelKeeps, LoadedKeeps, SurfaceMigratedKeeps, ResavedKeeps,
     RetrainKeeps
  DEF StarterStep, ServiceInv
<1>2. Locked' /\ Queued'
  BY <1>1, KeptLocked, KeptQueued DEF HandlerKept, LockUnmoved, ServiceInv
<1>3. LoopTypes'
  BY <1>1 DEF HandlerKept, LockUnmoved, LoopTypes, ServiceInv
<1> QED BY <1>1, <1>2, <1>3 DEF HandlerKept, ServiceInv

LEMMA TrainersKeep ==
  ASSUME ServiceInv, NEW t \in Trainers, TrainerStep(t)
  PROVE  ServiceInv'
  BY EnterPipelineKeeps, AcquireKeeps, NoDataKeeps, TrainedKeeps, SavedKeeps, PublishKeeps
  DEF TrainerStep

LEMMA StutterKeeps == ServiceInv /\ UNCHANGED estimatorVars => ServiceInv'
  BY DEF ServiceInv, estimatorVars, loopVars, LoopTypes, ModelTypes, Queued, Locked,
         TrainingExclusive, Training, ModelsKnown, JobsKnown, Genuine, ReadyHasModel

LEMMA MlNext == MlInv /\ [Next]_vars => MlInv'
<1> SUFFICES ASSUME ServiceInv, ClientTypes, [Next]_vars PROVE ServiceInv' /\ ClientTypes'
  BY DEF MlInv
<1>1. CASE CallConfigure
  <2>1. \E c \in Starters : Configure(c) /\ call' = c
    BY <1>1 DEF CallConfigure
  <2> QED BY <1>1, <2>1, HandlersKeep DEF CallConfigure, ClientTypes
<1>2. CASE ConfigureReplied \/ ConfigureFailed \/ StatusRefreshed \/ StatusFailed
  BY <1>2, StutterKeeps
  DEF ConfigureReplied, ConfigureFailed, StatusRefreshed, StatusFailed, ClientTypes
<1>3. CASE TriggerRetrain
  BY <1>3, HandlersKeep DEF TriggerRetrain, clientVars, ClientTypes
<1>4. CASE ServiceStep /\ UNCHANGED clientVars
  <2>1. ServiceInv'
    BY <1>4, HandlersKeep, TrainersKeep DEF ServiceStep
  <2> QED BY <1>4, <2>1 DEF clientVars, ClientTypes
<1>5. CASE Restart
  BY <1>5, ServiceRestartKeeps DEF Restart, ClientTypes
<1>6. CASE Reload
  <2>1. reloads' \in 0 .. MaxReloads
    BY <1>6, ClientAssumption DEF Reload, ClientTypes
  <2> QED BY <1>6, <2>1, StutterKeeps DEF Reload, ClientTypes
<1>7. CASE UNCHANGED vars
  BY <1>7, StutterKeeps DEF vars, clientVars, ClientTypes
<1> QED BY <1>1, <1>2, <1>3, <1>4, <1>5, <1>6, <1>7 DEF Next, ClientStep

-----------------------------------------------------------------------------
(***************************************************************************)
(* The types of service and client (the attributes of MLEstimator and the  *)
(* client's _is_ready), and that a task waits for the lock just when it is *)
(* queued.                                                                 *)
(***************************************************************************)
THEOREM MlTyping == Spec => []TypeOK
<1>1. MlInv => TypeOK
  BY DEF MlInv, ServiceInv, LoopTypes, ModelTypes, Queued, ClientTypes, TypeOK,
         EstimatorTypeOK, Jobs, JobSteps, Starts, StartSteps
<1> QED BY <1>1, MlInit, MlNext, PTL DEF Spec

(***************************************************************************)
(* However many trainings are queued by set-ups, restarts and retrain      *)
(* requests, at most one is past _training_lock, and _is_training says so. *)
(***************************************************************************)
THEOREM OneTraining == Spec => []TrainingExclusive
<1>1. MlInv => TrainingExclusive
  BY DEF MlInv, ServiceInv, Locked
<1> QED BY <1>1, MlInit, MlNext, PTL DEF Spec

(***************************************************************************)
(* A model that is served has been on disk, though trainings and loading   *)
(* handlers overwrite _model whatever it has become.                       *)
(***************************************************************************)
THEOREM ServedWasSaved == Spec => []ServedIsSaved
<1>1. MlInv => ServedIsSaved
  BY DEF MlInv, ServiceInv, ModelsKnown, Genuine, ServedIsSaved
<1> QED BY <1>1, MlInit, MlNext, PTL DEF Spec

(***************************************************************************)
(* GET /status never says ready without a model.                           *)
(***************************************************************************)
THEOREM ReadyIsTrue == Spec => []ReadyHasModel
<1>1. MlInv => ReadyHasModel
  BY DEF MlInv, ServiceInv, ModelsKnown
<1> QED BY <1>1, MlInit, MlNext, PTL DEF Spec

(***************************************************************************)
(* What each step does to the model file: only the end of a migration can  *)
(* make it older, and nothing removes it.                                  *)
(***************************************************************************)
LEMMA DiskSteps ==
  ASSUME MlInv, [Next]_vars, disk' # disk
  PROVE  \/ \E t \in Trainers : job[t].pc = "save" /\ disk' = job[t].new
         \/ \E c \in Starters : /\ start[c].pc = "resave" /\ start'[c].pc = "idle"
                                /\ disk' = start[c].seen
<1>1. CASE \E t \in Trainers : Saved(t)
  BY <1>1 DEF Saved
<1>2. CASE \E c \in Starters : Resaved(c)
  <2>1. PICK c \in Starters : Resaved(c)
    BY <1>2
  <2>2. start[c].pc = "resave" /\ disk' = start[c].seen /\ start' = [start EXCEPT ![c] = Idle]
    BY <2>1 DEF Resaved, Answer
  <2>3. start'[c].pc = "idle"
    BY <2>2, ModelConstants DEF MlInv, ServiceInv, ModelTypes
  <2> QED BY <2>2, <2>3
<1> QED
  BY <1>1, <1>2
  DEF Next, ClientStep, ServiceStep, StarterStep, TrainerStep, CallConfigure, Configure,
      ConfigureReplied, ConfigureFailed, StatusRefreshed, StatusFailed, TriggerRetrain,
      Retrain, Restart, Reload, ServiceRestart, LoadModel, Loaded, SurfaceMigrated,
      EnterPipeline, Acquire, NoData, Trained, TrainingFailed, Publish, vars, estimatorVars

(***************************************************************************)
(* Neither a restart of the container nor two writers lose the model file. *)
(***************************************************************************)
THEOREM ModelKept == Spec => NoModelLost
<1>1. MlInv /\ [Next]_vars => [disk # NoModel => disk' # NoModel]_vars
  <2> SUFFICES ASSUME MlInv, [Next]_vars, disk # NoModel PROVE disk' # NoModel
    OBVIOUS
  <2>1. CASE disk' = disk
    BY <2>1
  <2>2. CASE \E t \in Trainers : job[t].pc = "save" /\ disk' = job[t].new
    BY <2>2, ModelConstants DEF MlInv, ServiceInv, ModelsKnown, JobsKnown
  <2>3. CASE \E c \in Starters : start[c].pc = "resave" /\ disk' = start[c].seen
    BY <2>3 DEF MlInv, ServiceInv, ModelsKnown
  <2> QED BY <2>1, <2>2, <2>3, DiskSteps
<1> QED BY <1>1, MlInit, MlNext, PTL DEF Spec, NoModelLost

(***************************************************************************)
(* The model file goes back to an older training only when the migration   *)
(* of a model without a surface saves what it had taken from memory.       *)
(***************************************************************************)
THEOREM OnlyMigrationGoesBack == Spec => RegressionOnlyByMigration
<1>1. MlInv /\ [Next]_vars => [MigrationOnlyRegresses]_vars
  <2> SUFFICES ASSUME MlInv, [Next]_vars, disk'.id < disk.id
               PROVE  \E c \in Starters : start[c].pc = "resave" /\ start'[c].pc = "idle"
    BY DEF MigrationOnlyRegresses
  <2>1. disk.id <= fresh /\ disk.id \in Nat /\ fresh \in Nat
    BY EstimatorAssumption, ModelConstants
    DEF MlInv, ServiceInv, ModelsKnown, Genuine, ModelTypes, Models
  <2>2. disk' # disk
    BY <2>1
  <2>3. ASSUME NEW t \in Trainers, job[t].pc = "save", disk' = job[t].new PROVE FALSE
    <3>1. disk'.id = fresh
      BY <2>3 DEF MlInv, ServiceInv, ModelsKnown, JobsKnown
    <3> QED BY <3>1, <2>1
  <2> QED BY <2>2, <2>3, DiskSteps
<1> QED BY <1>1, MlInit, MlNext, PTL DEF Spec, RegressionOnlyByMigration

-----------------------------------------------------------------------------
(***************************************************************************)
(* The model a training is about to save is newer than all that have been  *)
(* on disk.                                                                *)
(***************************************************************************)
NewestUnsaved == \A t \in Trainers : job[t].pc = "save" => fresh \notin saved

(***************************************************************************)
(* Only a training that comes to an end goes on to save a model.           *)
(***************************************************************************)
LEMMA OthersSaveNothing ==
  ASSUME MlInv, [Next]_vars, \A t \in Trainers : ~Trained(t)
  PROVE  /\ fresh' = fresh
         /\ \A u \in Trainers : job'[u].pc = "save" => job[u].pc = "save"
<1> USE DEF MlInv, ServiceInv
<1>1. CASE \E c \in Starters : Configure(c) \/ StarterStep(c)
  <2>1. HandlerKept
    BY <1>1, ConfigureKeeps, LoadModelKeeps, LoadedKeeps, SurfaceMigratedKeeps, ResavedKeeps
    DEF StarterStep
  <2> QED BY <2>1 DEF HandlerKept, LockUnmoved, JobsKept
<1>2. CASE Retrain
  <2>1. HandlerKept
    BY <1>2, RetrainKeeps
  <2> QED BY <2>1 DEF HandlerKept, LockUnmoved, JobsKept
<1>3. ASSUME NEW t \in Trainers, NoData(t) \/ TrainingFailed(t) \/ Publish(t)
      PROVE  fresh' = fresh /\ \A u \in Trainers : job'[u].pc = "save" => job[u].pc = "save"
  <2>1. Release(t)
    BY <1>3 DEF NoData, TrainingFailed, Publish
  <2>2. \A u \in Trainers : job'[u] = IF u = t THEN Free ELSE job[u]
    BY <2>1 DEF Release, ModelTypes
  <2> QED BY <2>1, <2>2, ModelConstants DEF Release
<1>4. ASSUME NEW t \in Trainers, EnterPipeline(t) \/ Acquire(t) \/ Saved(t)
      PROVE  fresh' = fresh /\ \A u \in Trainers : job'[u].pc = "save" => job[u].pc = "save"
  <2>1. CASE job' = [job EXCEPT ![t] = Free]
    <3>1. \A u \in Trainers : job'[u] = IF u = t THEN Free ELSE job[u]
      BY <2>1 DEF ModelTypes
    <3> QED BY <1>4, <3>1, ModelConstants DEF EnterPipeline, Acquire, Saved
  <2>2. ASSUME NEW p \in {"waiting", "work", "publish"}, job' = [job EXCEPT ![t].pc = p]
        PROVE  \A u \in Trainers : job'[u].pc = "save" => job[u].pc = "save"
    <3>1. p \in JobSteps /\ p # "save"
      BY DEF JobSteps, InPipeline
    <3> HIDE DEF JobSteps
    <3> QED BY <2>2, <3>1, JobStep
  <2>3. /\ fresh' = fresh
        /\ \/ job' = [job EXCEPT ![t] = Free]
           \/ \E p \in {"waiting", "work", "publish"} : job' = [job EXCEPT ![t].pc = p]
    BY <1>4 DEF EnterPipeline, Acquire, Saved
  <2> QED BY <2>1, <2>2, <2>3
<1>5. CASE ServiceRestart
  <2>1. fresh' = fresh /\ \A u \in Trainers : job'[u] = Free
    BY <1>5 DEF ServiceRestart
  <2> QED BY <2>1, ModelConstants
<1>6. CASE UNCHANGED <<job, fresh>>
  BY <1>6
<1>7. \/ \E c \in Starters : Configure(c) \/ StarterStep(c)
      \/ Retrain
      \/ \E t \in Trainers : NoData(t) \/ TrainingFailed(t) \/ Publish(t)
      \/ \E t \in Trainers : EnterPipeline(t) \/ Acquire(t) \/ Saved(t)
      \/ ServiceRestart
      \/ UNCHANGED <<job, fresh>>
  BY DEF Next, ClientStep, ServiceStep, TrainerStep, CallConfigure, ConfigureReplied,
         ConfigureFailed, StatusRefreshed, StatusFailed, TriggerRetrain, Restart, Reload,
         vars, estimatorVars
<1> QED BY <1>1, <1>2, <1>3, <1>4, <1>5, <1>6, <1>7

LEMMA OnlySavesStore ==
  ASSUME [Next]_vars, \A t \in Trainers : ~Saved(t), \A c \in Starters : ~Resaved(c)
  PROVE  disk' = disk /\ saved' = saved
  BY DEF Next, ClientStep, ServiceStep, StarterStep, TrainerStep, CallConfigure, Configure,
         ConfigureReplied, ConfigureFailed, StatusRefreshed, StatusFailed, TriggerRetrain,
         Retrain, Restart, Reload, ServiceRestart, LoadModel, Loaded, SurfaceMigrated,
         EnterPipeline, Acquire, NoData, Trained, TrainingFailed, Publish, vars, estimatorVars

LEMMA StoreStep ==
  ASSUME MlInv, NewestUnsaved, [Next]_vars
  PROVE  NewestUnsaved' /\ [Store!Next]_(Store!vars)
<1> USE DEF MlInv, ServiceInv
<1>0. /\ fresh \in Nat /\ saved \subseteq 0 .. fresh
      /\ (model'.id = 0 \/ model'.id \in saved')
  <2>1. ModelsKnown'
    BY MlNext
  <2> QED BY <2>1, EstimatorAssumption, ModelConstants DEF ModelTypes, ModelsKnown, Genuine
<1>1. ASSUME NEW t \in Trainers, Saved(t)
      PROVE  NewestUnsaved' /\ Store!Store
  <2>1. /\ job[t].pc = "save" /\ disk' = job[t].new /\ saved' = saved \cup {disk'.id}
        /\ job' = [job EXCEPT ![t].pc = "publish"] /\ UNCHANGED <<model, fresh>>
    BY <1>1 DEF Saved
  <2>2. disk'.id = fresh /\ fresh \notin saved
    BY <2>1 DEF NewestUnsaved, ModelsKnown, JobsKnown
  <2>3. \A m \in saved : m < fresh
    BY <1>0, <2>2
  <2>4. \A u \in Trainers : job'[u].pc # "save"
    <3>1. "publish" \in JobSteps
      BY DEF JobSteps, InPipeline
    <3>2. \A u \in Trainers : job'[u].pc = IF u = t THEN "publish" ELSE job[u].pc
      <4> HIDE DEF JobSteps
      <4> QED BY <2>1, <3>1, JobStep
    <3> QED BY <2>1, <3>2, AloneInPipeline DEF InPipeline
  <2>5. NewestUnsaved'
    BY <2>4 DEF NewestUnsaved
  <2> QED BY <1>0, <2>1, <2>2, <2>3, <2>5 DEF Store!Store
<1>2. ASSUME NEW c \in Starters, Resaved(c)
      PROVE  saved' = saved /\ [Store!Next]_(Store!vars)
  <2>1. start[c].seen.id \in saved /\ start[c].seen.id # 0
    BY <1>2, SeenKnown DEF Resaved, ModelsKnown, Genuine
  <2>2. CASE disk' = start[c].seen /\ saved' = saved \cup {disk'.id}
    <3>1. saved' = saved
      BY <2>1, <2>2
    <3> QED BY <1>2, <2>1, <2>2, <3>1 DEF Resaved, Store!Next, Store!StoreAgain
  <2>3. CASE UNCHANGED <<disk, saved>>
    BY <1>2, <2>3 DEF Resaved, Store!vars
  <2> QED BY <1>2, <2>2, <2>3 DEF Resaved
<1>3. CASE \E t \in Trainers : Trained(t)
  <2>1. PICK t \in Trainers : Trained(t)
    BY <1>3
  <2>2. fresh' = fresh + 1 /\ UNCHANGED <<model, disk, saved>>
    BY <2>1 DEF Trained
  <2>3. fresh' \notin saved'
    BY <1>0, <2>2
  <2> QED BY <2>2, <2>3 DEF NewestUnsaved, Store!vars
<1>4. CASE \A t \in Trainers : ~Trained(t) /\ ~Saved(t)
  <2>1. /\ fresh' = fresh
        /\ \A u \in Trainers : job'[u].pc = "save" => job[u].pc = "save"
    BY <1>4, OthersSaveNothing
  <2>2. saved' = saved /\ [Store!Next]_(Store!vars)
    <3>1. CASE \E c \in Starters : Resaved(c)
      BY <1>2, <3>1
    <3>2. CASE \A c \in Starters : ~Resaved(c)
      <4>1. disk' = disk /\ saved' = saved
        BY <1>4, <3>2, OnlySavesStore
      <4> QED BY <1>0, <4>1 DEF Store!Next, Store!Serve
    <3> QED BY <3>1, <3>2
  <2> QED BY <2>1, <2>2 DEF NewestUnsaved
<1> QED BY <1>1, <1>3, <1>4 DEF Store!Next

(***************************************************************************)
(* The service implements the store of models: what handlers, trainings,   *)
(* saves and restarts do to the model served and the model file is to      *)
(* store a newer model, to store an old one again, or to serve one that    *)
(* has been stored.                                                        *)
(***************************************************************************)
THEOREM ServiceIsAStore == Spec => StoresModels
<1>1. Init => MlInv /\ NewestUnsaved /\ Store!Init
  <2> SUFFICES ASSUME Init PROVE MlInv /\ NewestUnsaved /\ Store!Init
    OBVIOUS
  <2>1. MlInv
    BY MlInit
  <2>2. /\ model = NoModel /\ saved = {disk.id}
        /\ job = [t \in Trainers |-> Free]
    BY DEF Init, EstimatorInit
  <2>3. disk.id \in Nat
    BY <2>1, EstimatorAssumption DEF MlInv, ServiceInv, ModelTypes, Models
  <2> QED BY <2>1, <2>2, <2>3, ModelConstants DEF NewestUnsaved, Store!Init
<1>2. MlInv /\ NewestUnsaved /\ [Next]_vars
        => (MlInv /\ NewestUnsaved)' /\ [Store!Next]_(Store!vars)
  BY MlNext, StoreStep
<1> QED BY <1>1, <1>2, PTL DEF Spec, StoresModels, Store!Spec
=============================================================================
