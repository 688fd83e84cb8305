--------------------------- MODULE ScheduleSearch ---------------------------
(***************************************************************************)
(* GeneticEvaluator.evaluate: the search for a schedule.  A population is  *)
(* ranked by cost, its better half bred, for a number of generations; the  *)
(* cheapest schedule of the last one is the plan.  Every evaluation writes *)
(* the actions and costs of the schedule evaluated into the same           *)
(* timeslots, which in the end are the plan.  Random choices are any       *)
(* choice, and costs are whatever SearchCost says.                         *)
(***************************************************************************)
EXTENDS Integers, Sequences, FiniteSets

CONSTANTS NumSlots,      \* num_slots
          Actions,       \* charge_options
          Free,          \* slots whose import price is not positive
          Favoured,      \* slots whose export price is above the import price
          ForcedTo,      \* set_forced_actions: from forced slots to actions
          SearchCost(_), \* the cost of a schedule
          PopulationSize, \* population_size
          Generations    \* generations

ScheduleSet == [1 .. NumSlots -> Actions]

ASSUME SearchAssumption ==
  /\ NumSlots \in Nat /\ NumSlots >= 2 /\ PopulationSize \in Nat /\ PopulationSize >= 4
  /\ Generations \in Nat \ {0}
  /\ Free \cup Favoured \subseteq 1 .. NumSlots
  /\ {"charge", "export", "discharge"} \subseteq Actions
  /\ DOMAIN ForcedTo \subseteq 1 .. NumSlots
  /\ \A i \in DOMAIN ForcedTo : ForcedTo[i] \in Actions
  /\ \A s \in ScheduleSet : SearchCost(s) \in Int

VARIABLES searchPc,      \* where evaluate is
          population,    \* population
          children,      \* children
          generation,    \* the loop counter
          shown          \* the schedule the timeslots were last evaluated for

searchVars == <<searchPc, population, children, generation, shown>>

NoSchedule == [i \in {} |-> "discharge"]
Indexes(s) == DOMAIN s

SearchTypeOK ==
  /\ searchPc \in {"idle", "create", "rank", "breed", "last rank", "done", "none"}
  /\ {population, children} \subseteq Seq(ScheduleSet)
  /\ Len(population) <= PopulationSize /\ Len(children) <= PopulationSize
  /\ generation \in 0 .. Generations
  /\ shown \in ScheduleSet \cup {NoSchedule}

SearchInit ==
  /\ searchPc = "idle" /\ population = <<>> /\ children = <<>>
  /\ generation = 0 /\ shown = NoSchedule
-----------------------------------------------------------------------------
(***************************************************************************)
(* _apply_forced_actions.                                                  *)
(***************************************************************************)
Constrained(s) == [i \in 1 .. NumSlots |-> IF i \in DOMAIN ForcedTo THEN ForcedTo[i] ELSE s[i]]

(***************************************************************************)
(* create_population: the ideal schedule and the export schedule, then     *)
(* random ones, no schedule twice; after many repetitions it makes do with *)
(* what there is.  The ideal schedule charges in free slots and in earlier *)
(* ones the battery needs; which those are is left open.                   *)
(***************************************************************************)
IdealSchedules ==
  {Constrained([i \in 1 .. NumSlots |-> IF i \in Free \cup c THEN "charge" ELSE "discharge"])
     : c \in SUBSET (1 .. NumSlots)}

ExportIdeal ==
  Constrained([i \in 1 .. NumSlots |->
                 IF i \in Free THEN "charge" ELSE IF i \in Favoured THEN "export"
                 ELSE "discharge"])

RandomSchedules ==
  {s \in ScheduleSet : \A i \in 1 .. NumSlots :
     IF i \in DOMAIN ForcedTo THEN s[i] = ForcedTo[i] ELSE i \in Free => s[i] = "charge"}

Contains(p, s) == \E i \in Indexes(p) : p[i] = s

Evaluate ==
  /\ searchPc = "idle"
  /\ \E ideal \in IdealSchedules :
       population' = IF ideal = ExportIdeal THEN <<ideal>> ELSE <<ideal, ExportIdeal>>
  /\ searchPc' = "create"
  /\ UNCHANGED <<children, generation, shown>>

CreateOne ==
  /\ searchPc = "create" /\ Len(population) < PopulationSize
  /\ \E s \in RandomSchedules :
       ~Contains(population, s) /\ population' = Append(population, s)
  /\ UNCHANGED <<searchPc, children, generation, shown>>

PopulationCreated ==
  /\ searchPc = "create"
  /\ searchPc' = IF Len(population) < 2 THEN "none" ELSE "rank"
  /\ UNCHANGED <<population, children, generation, shown>>

(***************************************************************************)
(* sorted(population, key = evaluate_schedule) evaluates every schedule in *)
(* the order it had; the sort is stable.                                   *)
(***************************************************************************)
Before(p, i, j) == \/ SearchCost(Constrained(p[i])) < SearchCost(Constrained(p[j]))
                   \/ SearchCost(Constrained(p[i])) = SearchCost(Constrained(p[j])) /\ i < j

Ranked(p) ==
  [k \in Indexes(p) |->
     p[CHOOSE i \in Indexes(p) : Cardinality({j \in Indexes(p) : Before(p, j, i)}) = k - 1]]

Rank ==
  /\ searchPc = "rank"
  /\ population' = Ranked(population)
  /\ shown' = Constrained(population[Len(population)])
  /\ children' = <<>>
  /\ searchPc' = "breed"
  /\ UNCHANGED generation

(***************************************************************************)
(* One child: the start of one parent, the end of another, perhaps one     *)
(* action of a slot that is not forced changed.                            *)
(***************************************************************************)
Parents == 1 .. (IF PopulationSize \div 2 < Len(population) THEN PopulationSize \div 2
                 ELSE Len(population))

Crossed(p, q, c) == [i \in 1 .. NumSlots |-> IF i <= c THEN p[i] ELSE q[i]]

MutationSlots == (1 .. NumSlots) \ DOMAIN ForcedTo

Bred(child) == children' = Append(children, Constrained(child))

Breed ==
  /\ searchPc = "breed" /\ Len(children) < PopulationSize
  /\ \E p, q \in Parents, c \in 1 .. NumSlots - 1 :
       /\ p # q
       /\ LET child == Crossed(population[p], population[q], c)
          IN \/ Bred(child)
             \/ \E i \in MutationSlots, a \in Actions : Bred([child EXCEPT ![i] = a])
  /\ UNCHANGED <<searchPc, population, generation, shown>>

NextGeneration ==
  /\ searchPc = "breed" /\ Len(children) = PopulationSize
  /\ population' = children /\ generation' = generation + 1
  /\ searchPc' = IF generation' = Generations THEN "last rank" ELSE "rank"
  /\ UNCHANGED <<children, shown>>

(***************************************************************************)
(* The last ranking leaves another schedule in the timeslots than the one  *)
(* it puts first, which is evaluated once more; the first form relies on   *)
(* the ranking.                                                            *)
(***************************************************************************)
LastRankOnly ==
  /\ searchPc = "last rank"
  /\ population' = Ranked(population)
  /\ shown' = Constrained(population[Len(population)])
  /\ searchPc' = "done"
  /\ UNCHANGED <<children, generation>>

LastRank ==
  /\ searchPc = "last rank"
  /\ population' = Ranked(population)
  /\ shown' = Constrained(population'[1])
  /\ searchPc' = "done"
  /\ UNCHANGED <<children, generation>>

SearchOver ==
  /\ searchPc \in {"done", "none"}
  /\ searchPc' = "idle" /\ population' = <<>> /\ children' = <<>>
  /\ generation' = 0 /\ shown' = NoSchedule

SearchNext ==
  \/ Evaluate \/ CreateOne \/ PopulationCreated \/ Rank \/ Breed
  \/ NextGeneration \/ LastRank \/ SearchOver

SearchSpec == SearchInit /\ [][SearchNext]_searchVars
-----------------------------------------------------------------------------
(***************************************************************************)
(* However schedules were crossed, mutated and evaluated over the same     *)
(* timeslots, the plan they show in the end is a cheapest schedule of the  *)
(* last population, with every forced action in it.                        *)
(***************************************************************************)
PlanIsShown ==
  searchPc = "done" =>
    /\ \A i \in DOMAIN ForcedTo : shown[i] = ForcedTo[i]
    /\ \A i \in Indexes(population) :
         SearchCost(shown) <= SearchCost(Constrained(population[i]))
=============================================================================
