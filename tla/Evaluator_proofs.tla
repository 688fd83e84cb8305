-------------------------- MODULE Evaluator_proofs --------------------------
(***************************************************************************)
(* The genetic evaluator: what the battery simulation of a schedule keeps  *)
(* to, for every capacity, charging power, demand and surplus, and that    *)
(* the search shows the plan it found best, for every cost of the          *)
(* schedules.                                                              *)
(***************************************************************************)
EXTENDS BatteryLevel, ScheduleSearch, IntegerLemmas, FiniteSetTheorems

-----------------------------------------------------------------------------
(***************************************************************************)
(* The battery over a schedule.                                            *)
(***************************************************************************)

(***************************************************************************)
(* The types of the bounds, in the words the backends need.                *)
(***************************************************************************)
LEMMA NetsAreBounded ==
  ASSUME NEW net \in Nets
  PROVE  /\ net \in Int /\ net <= MaxDemand
         /\ Capacity \in Nat /\ MaxPerSlot \in Nat /\ MaxDemand \in Nat /\ MaxSurplus \in Nat
  BY BatteryAssumption DEF Nets

LEMMA SlotTyped ==
  ASSUME NEW b \in Int, NEW net \in Nets, NEW u \in Int, NEW v \in Int
  PROVE  [before |-> b, net |-> net, bought |-> u, sold |-> v]
           \in [before : Int, net : Nets, bought : Int, sold : Int]
  OBVIOUS

LEMMA NoSlotTyped == NoSlot \in [before : Int, net : Nets, bought : Int, sold : Int]
  BY BatteryAssumption DEF NoSlot, Nets

(***************************************************************************)
(* SoldIsThere by cases, for a slot whose fields are known.                *)
(***************************************************************************)
LEMMA SoldByCases ==
  ASSUME NEW b \in Int, NEW c \in Int, NEW net \in Int, NEW v \in Int,
         \/ v <= 0 \/ v <= b - c \/ v <= -net \/ (b - c >= 0 /\ v <= b - c - net)
  PROVE  v <= AtLeast0(b - c) + AtLeast0(-net)
  BY DEF AtLeast0

(***************************************************************************)
(* The battery and the slots stay integers in every schedule (the types of *)
(* evaluate_schedule).                                                     *)
(***************************************************************************)
THEOREM LevelTyping == LevelSpec => []LevelTypeOK
<1>1. LevelInit => LevelTypeOK
  BY NoSlotTyped DEF LevelInit, LevelTypeOK
<1>2. LevelTypeOK /\ [LevelNext]_levelVars => LevelTypeOK'
  <2> SUFFICES ASSUME LevelTypeOK, [LevelNext]_levelVars PROVE LevelTypeOK'
    OBVIOUS
  <2>0. battery \in Int /\ Capacity \in Nat /\ MaxPerSlot \in Nat
    BY BatteryAssumption DEF LevelTypeOK
  <2>1. CASE EvaluationStarts
    <3>1. battery' \in Int
      BY <2>0, <2>1 DEF EvaluationStarts
    <3>2. 0 \in Nets
      BY BatteryAssumption DEF Nets
    <3>3. slot' \in [before : Int, net : Nets, bought : Int, sold : Int]
      BY <2>1, <3>1, <3>2, SlotTyped DEF EvaluationStarts
    <3> QED BY <3>1, <3>3 DEF LevelTypeOK
  <2>2. ASSUME NEW net \in Nets, Charge(net) PROVE LevelTypeOK'
    <3>1. net \in Int BY NetsAreBounded
    <3>2. ChargeAmount(net) \in Int
      BY <2>0, <3>1 DEF ChargeAmount, AtLeast0, Lesser
    <3>3. battery' \in Int
      BY <2>0, <2>2, <3>1, <3>2 DEF Charge, AtLeast0, Lesser
    <3>4. slot'.bought \in Int /\ slot'.sold \in Int
      BY <2>0, <2>2, <3>1, <3>2 DEF Charge, AtLeast0, Lesser
    <3>5. slot' = [before |-> battery, net |-> net, bought |-> slot'.bought,
                   sold |-> slot'.sold]
      BY <2>2 DEF Charge
    <3> QED BY <2>0, <3>3, <3>4, <3>5, SlotTyped DEF LevelTypeOK
  <2>3. ASSUME NEW net \in Nets, Export(net) PROVE LevelTypeOK'
    <3>1. net \in Int BY NetsAreBounded
    <3>3. battery' \in Int
      BY <2>0, <2>3, <3>1 DEF Export, AtLeast0, Lesser
    <3>4. slot'.bought \in Int /\ slot'.sold \in Int
      BY <2>0, <2>3, <3>1 DEF Export, AtLeast0, Lesser
    <3>5. slot' = [before |-> battery, net |-> net, bought |-> slot'.bought,
                   sold |-> slot'.sold]
      BY <2>3 DEF Export
    <3> QED BY <2>0, <3>3, <3>4, <3>5, SlotTyped DEF LevelTypeOK
  <2>4. ASSUME NEW net \in Nets, Discharge(net) PROVE LevelTypeOK'
    <3>1. net \in Int BY NetsAreBounded
    <3>3. battery' \in Int
      BY <2>0, <2>4, <3>1 DEF Discharge, AtLeast0, Lesser
    <3>4. slot'.bought \in Int /\ slot'.sold \in Int
      BY <2>0, <2>4, <3>1 DEF Discharge, AtLeast0, Lesser
    <3>5. slot' = [before |-> battery, net |-> net, bought |-> slot'.bought,
                   sold |-> slot'.sold]
      BY <2>4 DEF Discharge
    <3> QED BY <2>0, <3>3, <3>4, <3>5, SlotTyped DEF LevelTypeOK
  <2>5. CASE UNCHANGED levelVars
    BY <2>5 DEF levelVars, LevelTypeOK
  <2> QED BY <2>1, <2>2, <2>3, <2>4, <2>5 DEF LevelNext
<1> QED BY <1>1, <1>2, PTL DEF LevelSpec

(***************************************************************************)
(* However charging, exporting and discharging follow each other, the      *)
(* battery of _evaluate_single_slot stays between empty and the capacity   *)
(* plus the net demand of one slot, or what it started with if that was    *)
(* more.  With the types this is inductive.                                *)
(***************************************************************************)
THEOREM LevelStaysInReach == LevelSpec => []LevelInReach
<1>1. LevelInit => LevelInReach
  BY BatteryAssumption DEF LevelInit, LevelInReach
<1>2. LevelTypeOK /\ LevelInReach /\ [LevelNext]_levelVars => LevelInReach'
  <2> SUFFICES ASSUME LevelTypeOK, LevelInReach, [LevelNext]_levelVars PROVE LevelInReach'
    OBVIOUS
  <2>0. /\ battery \in Int /\ 0 <= battery
        /\ battery <= Capacity + MaxDemand \/ battery <= MaxStart
        /\ Capacity \in Nat /\ MaxPerSlot \in Nat /\ MaxDemand \in Nat /\ MaxStart \in Nat
    BY BatteryAssumption DEF LevelTypeOK, LevelInReach
  <2>1. CASE EvaluationStarts
    BY <2>0, <2>1 DEF EvaluationStarts, LevelInReach
  <2>2. ASSUME NEW net \in Nets, Charge(net) PROVE LevelInReach'
    <3>1. net \in Int /\ net <= MaxDemand BY NetsAreBounded
    <3> DEFINE charged == battery + ChargeAmount(net)
               toBattery == Lesser(-net, AtLeast0(Capacity - charged))
    <3>2. /\ charged \in Int /\ 0 <= charged
          /\ charged <= Capacity + MaxDemand \/ charged <= MaxStart
      BY <2>0, <3>1 DEF ChargeAmount, AtLeast0, Lesser
    <3>3. battery' = IF net < 0 THEN Lesser(charged + toBattery, Capacity) ELSE charged
      BY <2>2 DEF Charge
    <3>4. net < 0 => toBattery \in Int /\ 0 <= toBattery
      <4> HIDE DEF charged
      <4> QED BY <2>0, <3>1, <3>2 DEF AtLeast0, Lesser
    <3> HIDE DEF charged, toBattery
    <3> QED BY <2>0, <3>1, <3>2, <3>3, <3>4 DEF Lesser, LevelInReach
  <2>3. ASSUME NEW net \in Nets, Export(net) PROVE LevelInReach'
    <3>1. net \in Int BY NetsAreBounded
    <3> QED BY <2>0, <2>3, <3>1 DEF Export, AtLeast0, Lesser, LevelInReach
  <2>4. ASSUME NEW net \in Nets, Discharge(net) PROVE LevelInReach'
    <3>1. net \in Int BY NetsAreBounded
    <3> QED BY <2>0, <2>4, <3>1 DEF Discharge, Lesser, LevelInReach
  <2>5. CASE UNCHANGED levelVars
    BY <2>5 DEF levelVars, LevelInReach
  <2> QED BY <2>1, <2>2, <2>3, <2>4, <2>5 DEF LevelNext
<1> QED BY <1>1, <1>2, LevelTyping, PTL DEF LevelSpec

(***************************************************************************)
(* No slot is credited for energy that was not there: what it sold left    *)
(* the battery or came from the sun in that slot.  It rests on the battery *)
(* never being below empty.                                                *)
(***************************************************************************)
THEOREM SoldWasThere == LevelSpec => []SoldIsThere
<1>1. LevelInit => SoldIsThere
  BY DEF LevelInit, NoSlot, SoldIsThere, AtLeast0
<1>2. LevelTypeOK /\ LevelInReach /\ SoldIsThere /\ [LevelNext]_levelVars => SoldIsThere'
  <2> SUFFICES ASSUME LevelTypeOK, LevelInReach, SoldIsThere, [LevelNext]_levelVars
               PROVE  SoldIsThere'
    OBVIOUS
  <2>0. battery \in Int /\ 0 <= battery /\ Capacity \in Nat /\ MaxPerSlot \in Nat
    BY BatteryAssumption DEF LevelTypeOK, LevelInReach
  <2>1. CASE EvaluationStarts
    <3>1. battery' \in Int /\ slot'.sold = 0 /\ slot'.net = 0 /\ slot'.before = battery'
      BY <2>0, <2>1 DEF EvaluationStarts
    <3>2. slot'.sold <= AtLeast0(slot'.before - battery') + AtLeast0(-slot'.net)
      <4>1. slot'.before \in Int /\ slot'.net \in Int /\ slot'.sold \in Int /\ slot'.sold <= 0
        BY <3>1
      <4> QED BY <4>1, <3>1, SoldByCases
    <3> QED BY <3>2 DEF SoldIsThere
  <2>2. ASSUME NEW net \in Nets, Charge(net) PROVE SoldIsThere'
    <3>1. net \in Int BY NetsAreBounded
    <3> DEFINE charged == battery + ChargeAmount(net)
               toBattery == Lesser(-net, AtLeast0(Capacity - charged))
    <3>2. charged \in Int
      BY <2>0, <3>1 DEF ChargeAmount, AtLeast0, Lesser
    <3>3. /\ slot'.before = battery /\ slot'.net = net
          /\ slot'.sold = IF net < 0 THEN -net - toBattery ELSE 0
      BY <2>2 DEF Charge
    <3>4. net < 0 => toBattery \in Int /\ 0 <= toBattery
      <4> HIDE DEF charged
      <4> QED BY <2>0, <3>1, <3>2 DEF AtLeast0, Lesser
    <3>5. battery' \in Int
      <4>1. battery' = IF net < 0 THEN Lesser(charged + toBattery, Capacity) ELSE charged
        BY <2>2 DEF Charge
      <4> HIDE DEF charged, toBattery
      <4> QED BY <4>1, <2>0, <3>1, <3>2, <3>4 DEF Lesser
    <3> HIDE DEF charged, toBattery
    <3>6. slot'.sold <= AtLeast0(battery - battery') + AtLeast0(-net)
      <4>1. slot'.sold \in Int /\ (slot'.sold <= 0 \/ slot'.sold <= -net)
        BY <3>1, <3>3, <3>4
      <4> QED BY <4>1, <2>0, <3>1, <3>5, SoldByCases
    <3> QED BY <3>3, <3>6 DEF SoldIsThere
  <2>3. ASSUME NEW net \in Nets, Export(net) PROVE SoldIsThere'
    <3>1. net \in Int BY NetsAreBounded
    <3> DEFINE out == AtLeast0(Lesser(MaxPerSlot - net, battery))
    <3>2. out \in Int /\ 0 <= out
      BY <2>0, <3>1 DEF AtLeast0, Lesser
    <3>3. /\ slot'.before = battery /\ slot'.net = net
          /\ slot'.sold = out - net /\ battery' = battery - out
      BY <2>3 DEF Export
    <3> HIDE DEF out
    <3>4. slot'.sold <= AtLeast0(battery - battery') + AtLeast0(-net)
      <4>1. /\ slot'.sold \in Int /\ battery' \in Int
            /\ battery - battery' >= 0 /\ slot'.sold <= battery - battery' - net
        BY <2>0, <3>1, <3>2, <3>3
      <4> QED BY <4>1, <2>0, <3>1, SoldByCases
    <3> QED BY <3>3, <3>4 DEF SoldIsThere
  <2>4. ASSUME NEW net \in Nets, Discharge(net) PROVE SoldIsThere'
    <3>1. net \in Int BY NetsAreBounded
    <3> DEFINE left == battery - Lesser(battery, net)
    <3>2. left \in Int /\ 0 <= left /\ left <= battery + AtLeast0(-net)
      BY <2>0, <3>1 DEF AtLeast0, Lesser
    <3>3. /\ slot'.before = battery /\ slot'.net = net
          /\ slot'.sold = AtLeast0(left - Capacity) /\ battery' = Lesser(left, Capacity)
      BY <2>4 DEF Discharge
    <3> HIDE DEF left
    <3>4. slot'.sold <= AtLeast0(battery - battery') + AtLeast0(-net)
      <4>1. slot'.sold \in Int /\ battery' \in Int
        BY <2>0, <3>2, <3>3 DEF AtLeast0, Lesser
      <4>2. left = battery - Lesser(battery, net)
        BY DEF left
      <4>3. left <= Capacity => slot'.sold <= 0
        BY <2>0, <3>2, <3>3 DEF AtLeast0
      <4>4. left > Capacity /\ net >= 0 => slot'.sold <= battery - battery'
        BY <2>0, <3>1, <3>2, <3>3, <4>2 DEF AtLeast0, Lesser
      <4>5. left > Capacity /\ net < 0 => /\ battery <= Capacity => slot'.sold <= -net
                                          /\ battery > Capacity =>
                                               /\ battery - battery' >= 0
                                               /\ slot'.sold <= battery - battery' - net
        BY <2>0, <3>1, <3>2, <3>3, <4>2 DEF AtLeast0, Lesser
      <4>6. \/ slot'.sold <= 0 \/ slot'.sold <= battery - battery' \/ slot'.sold <= -net
            \/ (battery - battery' >= 0 /\ slot'.sold <= battery - battery' - net)
        BY <4>3, <4>4, <4>5, <2>0, <3>1, <3>2
      <4> QED BY <4>1, <4>6, <2>0, <3>1, SoldByCases
    <3> QED BY <3>3, <3>4 DEF SoldIsThere
  <2>5. CASE UNCHANGED levelVars
    BY <2>5 DEF levelVars, SoldIsThere
  <2> QED BY <2>1, <2>2, <2>3, <2>4, <2>5 DEF LevelNext
<1> QED BY <1>1, <1>2, LevelTyping, LevelStaysInReach, PTL DEF LevelSpec

(***************************************************************************)
(* A slot that starts an evaluation is balanced.                           *)
(***************************************************************************)
LEMMA UnpaidByCases ==
  ASSUME NEW b \in Int, NEW c \in Int, b = c, NEW net \in Int, NEW u \in Int, NEW v \in Int,
         net = 0, u = 0, v = 0
  PROVE  ~(c + net + v - b - u > 0)
  OBVIOUS

(***************************************************************************)
(* Whatever the forecast and the schedule, the only energy a slot has      *)
(* without paying for it is the demand of the house while it charges.      *)
(***************************************************************************)
THEOREM OnlyTheHouseUnpaid == LevelSpec => []OnlyDemandUnpaid
<1>1. LevelInit => OnlyDemandUnpaid
  BY DEF LevelInit, NoSlot, OnlyDemandUnpaid, Unpaid
<1>2. LevelTypeOK /\ LevelInReach /\ OnlyDemandUnpaid /\ [LevelNext]_levelVars
        => OnlyDemandUnpaid'
  <2> SUFFICES ASSUME LevelTypeOK, LevelInReach, OnlyDemandUnpaid, [LevelNext]_levelVars
               PROVE  OnlyDemandUnpaid'
    OBVIOUS
  <2>0. battery \in Int /\ 0 <= battery /\ Capacity \in Nat /\ MaxPerSlot \in Nat
    BY BatteryAssumption DEF LevelTypeOK, LevelInReach
  <2>1. CASE EvaluationStarts
    <3>1. /\ battery' \in Int /\ slot'.before = battery' /\ slot'.net = 0
          /\ slot'.bought = 0 /\ slot'.sold = 0
      BY <2>0, <2>1 DEF EvaluationStarts
    <3>2. /\ slot'.before \in Int /\ slot'.net \in Int /\ slot'.bought \in Int
          /\ slot'.sold \in Int
      BY <3>1
    <3> QED
      BY <3>1, <3>2, UnpaidByCases DEF OnlyDemandUnpaid, Unpaid
  <2>2. ASSUME NEW net \in Nets, Charge(net) PROVE OnlyDemandUnpaid'
    <3>1. net \in Int BY NetsAreBounded
    <3> DEFINE amount == ChargeAmount(net)
               over == AtLeast0(battery + MaxPerSlot - Capacity + net)
               toBattery == Lesser(-net, AtLeast0(Capacity - (battery + amount)))
    <3>2. amount \in Int /\ 0 <= amount /\ over \in Int /\ 0 <= over
      BY <2>0, <3>1 DEF ChargeAmount, AtLeast0, Lesser
    <3>3. /\ slot'.before = battery /\ slot'.net = net /\ slot'.bought = amount + over
          /\ slot'.sold = IF net < 0 THEN -net - toBattery ELSE 0
      BY <2>2 DEF Charge
    <3>4. battery' = IF net < 0 THEN Lesser(battery + amount + toBattery, Capacity)
                     ELSE battery + amount
      BY <2>2 DEF Charge
    <3> HIDE DEF amount, over
    <3>5. net < 0 => toBattery \in Int
      BY <2>0, <3>1, <3>2 DEF AtLeast0, Lesser
    <3> HIDE DEF toBattery
    <3>6. CASE net < 0
      <4>1. battery' \in Int /\ battery' <= battery + amount + toBattery
        BY <2>0, <3>2, <3>4, <3>5, <3>6 DEF Lesser
      <4>2. battery' + net + (-net - toBattery) - battery - (amount + over) <= 0
        BY <2>0, <3>1, <3>2, <3>5, <3>6, <4>1
      <4> QED
        BY <2>0, <3>1, <3>2, <3>3, <3>5, <3>6, <4>1, <4>2 DEF OnlyDemandUnpaid, Unpaid
    <3>7. CASE ~(net < 0)
      <4>1. battery' = battery + amount /\ slot'.sold = 0
        BY <3>3, <3>4, <3>7
      <4> QED
        BY <2>0, <3>1, <3>2, <3>3, <4>1 DEF OnlyDemandUnpaid, Unpaid
    <3> QED BY <3>6, <3>7
  <2>3. ASSUME NEW net \in Nets, Export(net) PROVE OnlyDemandUnpaid'
    <3>1. net \in Int BY NetsAreBounded
    <3> DEFINE out == AtLeast0(Lesser(MaxPerSlot - net, battery))
               rest == AtLeast0(MaxPerSlot - out)
    <3>2. out \in Int
      BY <2>0, <3>1 DEF AtLeast0, Lesser
    <3>3. /\ slot'.before = battery /\ slot'.net = net /\ slot'.bought = rest
          /\ slot'.sold = out - net /\ battery' = battery - out
      BY <2>3 DEF Export
    <3> HIDE DEF out
    <3>4. rest \in Int /\ 0 <= rest
      BY <2>0, <3>2 DEF AtLeast0
    <3> HIDE DEF rest
    <3> QED
      BY <2>0, <3>1, <3>2, <3>3, <3>4 DEF OnlyDemandUnpaid, Unpaid
  <2>4. ASSUME NEW net \in Nets, Discharge(net) PROVE OnlyDemandUnpaid'
    <3>1. net \in Int BY NetsAreBounded
    <3> DEFINE met == Lesser(battery, net)
               left == battery - met
    <3>2. met \in Int /\ (met = net \/ (met = battery /\ battery < net))
      BY <2>0, <3>1 DEF Lesser
    <3>3. /\ slot'.before = battery /\ slot'.net = net
          /\ slot'.bought = IF left > Capacity THEN 0 ELSE AtLeast0(net - battery)
          /\ slot'.sold = AtLeast0(left - Capacity) /\ battery' = Lesser(left, Capacity)
      BY <2>4 DEF Discharge
    <3> HIDE DEF met
    <3>4. CASE left > Capacity
      <4>1. slot'.bought = 0 /\ slot'.sold = left - Capacity /\ battery' = Capacity
        BY <2>0, <3>2, <3>3, <3>4 DEF AtLeast0, Lesser
      <4>2. met = net
        BY <2>0, <3>2, <3>4
      <4> QED
        BY <2>0, <3>1, <3>2, <3>3, <4>1, <4>2 DEF OnlyDemandUnpaid, Unpaid
    <3>5. CASE ~(left > Capacity)
      <4>1. /\ slot'.bought = AtLeast0(net - battery) /\ slot'.sold = 0 /\ battery' = left
        BY <2>0, <3>2, <3>3, <3>5 DEF AtLeast0, Lesser
      <4>2. slot'.bought \in Int /\ slot'.bought >= 0 /\ slot'.bought >= net - battery
        BY <2>0, <3>1, <4>1 DEF AtLeast0
      <4> QED
        BY <2>0, <3>1, <3>2, <3>3, <4>1, <4>2 DEF OnlyDemandUnpaid, Unpaid
    <3> QED BY <3>4, <3>5
  <2>5. CASE UNCHANGED levelVars
    BY <2>5 DEF levelVars, OnlyDemandUnpaid, Unpaid
  <2> QED BY <2>1, <2>2, <2>3, <2>4, <2>5 DEF LevelNext
<1> QED BY <1>1, <1>2, LevelTyping, LevelStaysInReach, PTL DEF LevelSpec

-----------------------------------------------------------------------------
(***************************************************************************)
(* The search among the schedules.                                         *)
(***************************************************************************)

(***************************************************************************)
(* Ranking: the number of schedules that go before one is its place, and   *)
(* every place has one.                                                    *)
(***************************************************************************)
LEMMA ConstrainedType ==
    ASSUME NEW s \in ScheduleSet
    PROVE  Constrained(s) \in ScheduleSet /\ SearchCost(Constrained(s)) \in Int
<1>1. Constrained(s) \in ScheduleSet
  BY SearchAssumption DEF Constrained, ScheduleSet
<1>. QED  BY <1>1, SearchAssumption

(***************************************************************************)
(* Going before is a strict total order of the places of a population: by  *)
(* cost, and by place among schedules of one cost, as a stable sort has    *)
(* it.                                                                     *)
(***************************************************************************)
LEMMA BeforeIsOrder ==
    ASSUME NEW p \in Seq(ScheduleSet)
    PROVE  /\ \A i \in 1 .. Len(p) : ~ Before(p, i, i)
           /\ \A i, j \in 1 .. Len(p) : i # j => Before(p, i, j) \/ Before(p, j, i)
           /\ \A i, j, k \in 1 .. Len(p) : Before(p, i, j) /\ Before(p, j, k) => Before(p, i, k)
<1>. DEFINE cost(i) == SearchCost(Constrained(p[i]))
<1>1. ASSUME NEW i \in 1 .. Len(p)  PROVE cost(i) \in Int
  <2>1. p[i] \in ScheduleSet
    OBVIOUS
  <2>. QED  BY <2>1, ConstrainedType
<1>2. \A i, j : Before(p, i, j) <=> cost(i) < cost(j) \/ (cost(i) = cost(j) /\ i < j)
  BY DEF Before
<1>. HIDE DEF cost
<1>3. \A i \in 1 .. Len(p) : i \in Int
  OBVIOUS
<1>. QED  BY <1>1, <1>2, <1>3

(***************************************************************************)
(* Every place of the ranking has a schedule: the numbers of those that go *)
(* before are different for different schedules, and there are as many     *)
(* numbers as schedules.                                                   *)
(***************************************************************************)
LEMMA Places ==
    ASSUME NEW p \in Seq(ScheduleSet), NEW k \in 1 .. Len(p)
    PROVE  \E i \in 1 .. Len(p) : Cardinality({j \in Indexes(p) : Before(p, j, i)}) = k - 1
<1>. DEFINE n == Len(p)
            ahead(i) == {j \in 1 .. n : Before(p, j, i)}
            place == [i \in 1 .. n |-> Cardinality(ahead(i))]
<1>1. n \in Nat /\ DOMAIN p = 1 .. n
  OBVIOUS
<1>. HIDE DEF n
<1>2. IsFiniteSet(1 .. n) /\ Cardinality(1 .. n) = n
  BY <1>1, FS_Interval
<1>3. \A i : IsFiniteSet(ahead(i)) /\ Cardinality(ahead(i)) \in Nat
  BY <1>2, FS_Subset, FS_CardinalityType
<1>4. ASSUME NEW i \in 1 .. n  PROVE Cardinality(ahead(i)) \in 0 .. n - 1
  <2>1. i \notin ahead(i)
    BY BeforeIsOrder DEF n
  <2>2. ahead(i) \subseteq (1 .. n) \ {i}
    BY <2>1
  <2>3. IsFiniteSet((1 .. n) \ {i}) /\ Cardinality((1 .. n) \ {i}) = n - 1
    BY <1>2, FS_RemoveElement
  <2>4. Cardinality(ahead(i)) <= n - 1
    BY <2>2, <2>3, FS_Subset
  <2>. QED  BY <1>1, <1>3, <2>4
<1>5. ASSUME NEW i \in 1 .. n, NEW j \in 1 .. n, Before(p, i, j)
      PROVE  Cardinality(ahead(i)) # Cardinality(ahead(j))
  <2>1. ahead(i) \subseteq ahead(j)
    BY <1>5, BeforeIsOrder DEF n
  <2>2. i \in ahead(j) /\ i \notin ahead(i)
    BY <1>5, BeforeIsOrder DEF n
  <2>3. ahead(i) # ahead(j)
    BY <2>2
  <2>. HIDE DEF ahead
  <2>. QED  BY <1>3, <2>1, <2>3, FS_Subset
<1>6. place \in Injection(1 .. n, 0 .. n - 1)
  <2>1. place \in [1 .. n -> 0 .. n - 1]
    BY <1>4
  <2>2. ASSUME NEW i \in 1 .. n, NEW j \in 1 .. n, place[i] = place[j]  PROVE i = j
    <3>1. ~ Before(p, i, j) /\ ~ Before(p, j, i)
      BY <1>5, <2>2
    <3>. QED  BY <3>1, BeforeIsOrder DEF n
  <2>3. \A i, j \in 1 .. n : place[i] = place[j] => i = j
    BY <2>2
  <2>. HIDE DEF place
  <2>4. DOMAIN place = 1 .. n
    BY <2>1
  <2>. QED  BY <2>1, <2>3, <2>4, Zenon DEF Injection, IsInjective
<1>. HIDE DEF place, ahead
<1>7. IsFiniteSet(0 .. n - 1) /\ Cardinality(0 .. n - 1) = n
  <2>1. n - 1 \in Int /\ n >= 1 /\ 0 \in Int
    BY <1>1 DEF n
  <2>. DEFINE m == n - 1
  <2>. HIDE DEF m
  <2>2. m \in Int /\ ~ (0 > m) /\ (m - 0) + 1 = n
    BY <1>1, <2>1 DEF m
  <2>3. IsFiniteSet(0 .. m) /\ Cardinality(0 .. m) = n
    BY <2>1, <2>2, FS_Interval
  <2>. QED  BY <2>3 DEF m
<1>8. place \in Surjection(1 .. n, 0 .. n - 1)
  BY <1>2, <1>6, <1>7, FS_Injection
<1>9. k - 1 \in 0 .. n - 1
  BY DEF n
<1>10. PICK i \in 1 .. n : place[i] = k - 1
  BY <1>8, <1>9 DEF Surjection
<1>11. place[i] = Cardinality(ahead(i))
  BY DEF place
<1>12. ahead(i) = {j \in Indexes(p) : Before(p, j, i)}
  BY <1>1 DEF Indexes, ahead
<1>13. Cardinality({j \in Indexes(p) : Before(p, j, i)}) = k - 1
  <2>. HIDE DEF ahead
  <2>. QED  BY <1>10, <1>11, <1>12
<1>. QED  BY <1>13 DEF n

(***************************************************************************)
(* A ranked population has its schedules, and a cheapest one first.        *)
(***************************************************************************)
LEMMA RankedType ==
    ASSUME NEW p \in Seq(ScheduleSet)
    PROVE  /\ Ranked(p) \in Seq(ScheduleSet) /\ Len(Ranked(p)) = Len(p)
           /\ \A k \in 1 .. Len(p) : \E i \in 1 .. Len(p) :
                /\ Ranked(p)[k] = p[i]
                /\ Cardinality({j \in Indexes(p) : Before(p, j, i)}) = k - 1
<1>1. Len(p) \in Nat /\ DOMAIN p = 1 .. Len(p) /\ Indexes(p) = 1 .. Len(p)
  BY DEF Indexes
<1>2. ASSUME NEW k \in 1 .. Len(p)
      PROVE  \E i \in 1 .. Len(p) :
               /\ Ranked(p)[k] = p[i]
               /\ Cardinality({j \in Indexes(p) : Before(p, j, i)}) = k - 1
  <2>. DEFINE at(i) == Cardinality({j \in Indexes(p) : Before(p, j, i)}) = k - 1
              c == CHOOSE i \in Indexes(p) : at(i)
  <2>1. \E i \in Indexes(p) : at(i)
    BY <1>1, Places
  <2>2. Ranked(p)[k] = p[c]
    BY <1>1 DEF Ranked
  <2>. HIDE DEF at
  <2>3. c \in Indexes(p) /\ at(c)
    BY <2>1
  <2>. QED  BY <1>1, <2>2, <2>3 DEF at
<1>3. ASSUME NEW k \in 1 .. Len(p)  PROVE Ranked(p)[k] \in ScheduleSet
  <2>1. PICK i \in 1 .. Len(p) : Ranked(p)[k] = p[i]
    BY <1>2
  <2>2. p[i] \in ScheduleSet
    OBVIOUS
  <2>. QED  BY <2>1, <2>2
<1>4. Ranked(p) = [k \in 1 .. Len(p) |-> Ranked(p)[k]]
  BY <1>1 DEF Ranked
<1>5. Ranked(p) \in [1 .. Len(p) -> ScheduleSet]
  BY <1>3, <1>4
<1>6. Ranked(p) \in Seq(ScheduleSet) /\ Len(Ranked(p)) = Len(p)
  BY <1>1, <1>5
<1>. QED  BY <1>2, <1>6

(***************************************************************************)
(* What is first in the ranking is as cheap as any schedule of it.         *)
(***************************************************************************)
LEMMA CheapestFirst ==
    ASSUME NEW p \in Seq(ScheduleSet), Len(p) >= 1, NEW k \in 1 .. Len(p)
    PROVE  SearchCost(Constrained(Ranked(p)[1])) <= SearchCost(Constrained(Ranked(p)[k]))
<1>1. Len(p) \in Nat /\ 1 \in 1 .. Len(p) /\ Indexes(p) = 1 .. Len(p)
  BY DEF Indexes
<1>2. PICK a \in 1 .. Len(p) :
        Ranked(p)[1] = p[a] /\ Cardinality({j \in Indexes(p) : Before(p, j, a)}) = 1 - 1
  BY <1>1, RankedType
<1>3. PICK b \in 1 .. Len(p) : Ranked(p)[k] = p[b]
  BY RankedType
<1>4. {j \in Indexes(p) : Before(p, j, a)} = {}
  <2>. DEFINE ahead == {j \in 1 .. Len(p) : Before(p, j, a)}
  <2>1. IsFiniteSet(1 .. Len(p))
    BY <1>1, FS_Interval
  <2>2. IsFiniteSet(ahead) /\ Cardinality(ahead) = 0
    BY <1>1, <1>2, <2>1, FS_Subset
  <2>3. ahead = {}
    <3>. HIDE DEF ahead
    <3>. QED  BY <2>2, FS_EmptySet
  <2>. QED  BY <1>1, <2>3
<1>5. ~ Before(p, b, a)
  BY <1>1, <1>4
<1>6. SearchCost(Constrained(p[a])) \in Int /\ SearchCost(Constrained(p[b])) \in Int
  <2>1. p[a] \in ScheduleSet /\ p[b] \in ScheduleSet
    OBVIOUS
  <2>. QED  BY <2>1, ConstrainedType
<1>7. SearchCost(Constrained(p[a])) <= SearchCost(Constrained(p[b]))
  BY <1>5, <1>6 DEF Before
<1>. QED  BY <1>2, <1>3, <1>7

(***************************************************************************)
(* The invariant of the search: what each place of evaluate may rely on.   *)
(***************************************************************************)
SearchInv ==
  /\ SearchTypeOK
  /\ searchPc = "idle" =>
       population = <<>> /\ children = <<>> /\ generation = 0 /\ shown = NoSchedule
  /\ searchPc = "create" => generation = 0
  /\ searchPc \in {"rank", "breed", "last rank", "done"} => Len(population) >= 2
  /\ searchPc \in {"rank", "breed"} => generation < Generations
  /\ searchPc = "done" =>
       /\ shown = Constrained(population[1])
       /\ \A i \in Indexes(population) :
            SearchCost(shown) <= SearchCost(Constrained(population[i]))

(***************************************************************************)
(* Appending a schedule, and the last and the first schedule of a          *)
(* population.                                                             *)
(***************************************************************************)
LEMMA AppendType ==
    ASSUME NEW p \in Seq(ScheduleSet), NEW s \in ScheduleSet, Len(p) < PopulationSize
    PROVE  /\ Append(p, s) \in Seq(ScheduleSet)
           /\ Len(Append(p, s)) <= PopulationSize /\ Len(Append(p, s)) >= Len(p)
<1>1. Len(p) \in Nat /\ PopulationSize \in Nat
  BY SearchAssumption
<1>2. Append(p, s) \in Seq(ScheduleSet) /\ Len(Append(p, s)) = Len(p) + 1
  OBVIOUS
<1>. QED  BY <1>1, <1>2

(***************************************************************************)
(* The first and the last schedule of a population are schedules.          *)
(***************************************************************************)
LEMMA EndsType ==
    ASSUME NEW p \in Seq(ScheduleSet), Len(p) >= 2
    PROVE  /\ p[1] \in ScheduleSet /\ p[Len(p)] \in ScheduleSet
           /\ Constrained(p[1]) \in ScheduleSet /\ Constrained(p[Len(p)]) \in ScheduleSet
<1>1. Len(p) \in Nat /\ 1 \in 1 .. Len(p) /\ Len(p) \in 1 .. Len(p)
  OBVIOUS
<1>2. p[1] \in ScheduleSet /\ p[Len(p)] \in ScheduleSet
  BY <1>1
<1>. QED  BY <1>2, ConstrainedType

(***************************************************************************)
(* Crossover and mutation make schedules.                                  *)
(***************************************************************************)
LEMMA ChildType ==
    ASSUME NEW p \in ScheduleSet, NEW q \in ScheduleSet, NEW c \in 1 .. NumSlots - 1
    PROVE  /\ Crossed(p, q, c) \in ScheduleSet
           /\ \A i \in MutationSlots, a \in Actions :
                [Crossed(p, q, c) EXCEPT ![i] = a] \in ScheduleSet
<1>1. Crossed(p, q, c) \in ScheduleSet
  BY SearchAssumption DEF Crossed, ScheduleSet
<1>2. ASSUME NEW i \in MutationSlots, NEW a \in Actions
      PROVE  [Crossed(p, q, c) EXCEPT ![i] = a] \in ScheduleSet
  BY <1>1 DEF MutationSlots, ScheduleSet
<1>. QED  BY <1>1, <1>2

(***************************************************************************)
(* The ideal schedules a population begins with are schedules.             *)
(***************************************************************************)
LEMMA FirstSchedules ==
    /\ IdealSchedules \subseteq ScheduleSet
    /\ ExportIdeal \in ScheduleSet
<1>1. ASSUME NEW c \in SUBSET (1 .. NumSlots)
      PROVE  Constrained([i \in 1 .. NumSlots |->
                            IF i \in Free \cup c THEN "charge" ELSE "discharge"]) \in ScheduleSet
  <2>1. [i \in 1 .. NumSlots |-> IF i \in Free \cup c THEN "charge" ELSE "discharge"]
          \in ScheduleSet
    BY SearchAssumption DEF ScheduleSet
  <2>. QED  BY <2>1, ConstrainedType
<1>2. [i \in 1 .. NumSlots |-> IF i \in Free THEN "charge"
                              ELSE IF i \in Favoured THEN "export" ELSE "discharge"]
        \in ScheduleSet
  BY SearchAssumption DEF ScheduleSet
<1>3. ExportIdeal \in ScheduleSet
  BY <1>2, ConstrainedType DEF ExportIdeal
<1>. QED  BY <1>1, <1>3 DEF IdealSchedules

LEMMA SearchTypes ==
    ASSUME SearchInv
    PROVE  /\ population \in Seq(ScheduleSet) /\ Len(population) \in Nat
           /\ children \in Seq(ScheduleSet) /\ Len(children) \in Nat
           /\ generation \in Nat
<1>1. population \in Seq(ScheduleSet) /\ children \in Seq(ScheduleSet)
  BY DEF SearchInv, SearchTypeOK
<1>2. Len(population) \in Nat /\ Len(children) \in Nat
  BY <1>1
<1>3. generation \in Nat
  <2>1. generation \in 0 .. Generations
    BY DEF SearchInv, SearchTypeOK
  <2>. QED  BY <2>1, SearchAssumption
<1>. QED  BY <1>1, <1>2, <1>3

LEMMA SearchInitial == SearchInit => SearchInv
BY SearchAssumption DEF SearchInit, SearchInv, SearchTypeOK

LEMMA EvaluateKeeps == SearchInv /\ Evaluate => SearchInv'
<1>. SUFFICES ASSUME SearchInv, Evaluate  PROVE SearchInv'
  OBVIOUS
<1>1. PICK ideal \in IdealSchedules :
        population' = IF ideal = ExportIdeal THEN <<ideal>> ELSE <<ideal, ExportIdeal>>
  BY DEF Evaluate
<1>2. ideal \in ScheduleSet /\ ExportIdeal \in ScheduleSet
  BY FirstSchedules
<1>3. population' \in Seq(ScheduleSet) /\ Len(population') <= 2
  BY <1>1, <1>2
<1>4. Len(population') <= PopulationSize
  <2>1. Len(population') \in Nat
    BY <1>3
  <2>. QED  BY <1>3, <2>1, SearchAssumption
<1>. QED  BY <1>3, <1>4 DEF Evaluate, SearchInv, SearchTypeOK

LEMMA CreateOneKeeps == SearchInv /\ CreateOne => SearchInv'
<1>. SUFFICES ASSUME SearchInv, CreateOne  PROVE SearchInv'
  OBVIOUS
<1>1. PICK s \in ScheduleSet : population' = Append(population, s)
  BY DEF CreateOne, RandomSchedules
<1>2. population \in Seq(ScheduleSet) /\ Len(population) < PopulationSize
  BY DEF SearchInv, SearchTypeOK, CreateOne
<1>3. population' \in Seq(ScheduleSet) /\ Len(population') <= PopulationSize
  BY <1>1, <1>2, AppendType
<1>. QED  BY <1>3 DEF CreateOne, SearchInv, SearchTypeOK

LEMMA PopulationCreatedKeeps == SearchInv /\ PopulationCreated => SearchInv'
<1>. SUFFICES ASSUME SearchInv, PopulationCreated  PROVE SearchInv'
  OBVIOUS
<1>1. Len(population) \in Nat
  BY SearchTypes
<1>2. population' = population
  BY DEF PopulationCreated
<1>3. searchPc' = "rank" => Len(population) >= 2
  BY <1>1 DEF PopulationCreated
<1>4. generation' = generation /\ generation = 0
  BY DEF PopulationCreated, SearchInv
<1>5. generation' < Generations
  BY <1>4, SearchAssumption
<1>6. searchPc' \in {"none", "rank"}
  BY DEF PopulationCreated
<1>. QED  BY <1>2, <1>3, <1>5, <1>6 DEF PopulationCreated, SearchInv, SearchTypeOK

LEMMA RankKeeps == SearchInv /\ Rank => SearchInv'
<1>. SUFFICES ASSUME SearchInv, Rank  PROVE SearchInv'
  OBVIOUS
<1>1. population \in Seq(ScheduleSet) /\ Len(population) >= 2 /\ Len(population) \in Nat
  BY SearchTypes DEF SearchInv, Rank
<1>2. population' \in Seq(ScheduleSet) /\ Len(population') = Len(population)
  BY <1>1, RankedType DEF Rank
<1>3. shown' \in ScheduleSet
  BY <1>1, EndsType DEF Rank
<1>4. children' \in Seq(ScheduleSet) /\ Len(children') <= PopulationSize
  BY SearchAssumption DEF Rank
<1>. QED  BY <1>1, <1>2, <1>3, <1>4 DEF Rank, SearchInv, SearchTypeOK

LEMMA BreedKeeps == SearchInv /\ Breed => SearchInv'
<1>. SUFFICES ASSUME SearchInv, Breed  PROVE SearchInv'
  OBVIOUS
<1>1. population \in Seq(ScheduleSet) /\ Len(population) \in Nat
  BY SearchTypes
<1>2. PICK p \in Parents, q \in Parents, c \in 1 .. NumSlots - 1 :
        \/ Bred(Crossed(population[p], population[q], c))
        \/ \E i \in MutationSlots, a \in Actions :
             Bred([Crossed(population[p], population[q], c) EXCEPT ![i] = a])
  BY Zenon DEF Breed
<1>3. p \in 1 .. Len(population) /\ q \in 1 .. Len(population)
  <2>1. PopulationSize \div 2 \in Int
    BY SearchAssumption
  <2>. QED  BY <1>1, <2>1 DEF Parents
<1>4. population[p] \in ScheduleSet /\ population[q] \in ScheduleSet
  BY <1>1, <1>3
<1>5. PICK child \in ScheduleSet : Bred(child)
  BY <1>2, <1>4, ChildType
<1>6. Constrained(child) \in ScheduleSet
  BY ConstrainedType
<1>7. children \in Seq(ScheduleSet) /\ Len(children) < PopulationSize
  BY DEF SearchInv, SearchTypeOK, Breed
<1>8. children' \in Seq(ScheduleSet) /\ Len(children') <= PopulationSize
  BY <1>5, <1>6, <1>7, AppendType DEF Bred
<1>. QED  BY <1>8 DEF Breed, SearchInv, SearchTypeOK

LEMMA NextGenerationKeeps == SearchInv /\ NextGeneration => SearchInv'
<1>. SUFFICES ASSUME SearchInv, NextGeneration  PROVE SearchInv'
  OBVIOUS
<1>1. population' = children /\ children \in Seq(ScheduleSet) /\ Len(children) = PopulationSize
  BY DEF SearchInv, SearchTypeOK, NextGeneration
<1>2. Len(population') >= 2 /\ Len(population') <= PopulationSize
  BY <1>1, SearchAssumption
<1>3. generation' \in 0 .. Generations
      /\ (searchPc' = "rank" => generation' < Generations)
      /\ searchPc' \in {"rank", "last rank"}
  <2>1. generation \in Nat /\ generation < Generations /\ generation' = generation + 1
    BY SearchTypes DEF SearchInv, NextGeneration
  <2>2. searchPc' = IF generation' = Generations THEN "last rank" ELSE "rank"
    BY DEF NextGeneration
  <2>3. Generations \in Nat
    BY SearchAssumption
  <2>4. generation' \in Nat /\ generation' <= Generations
    BY <2>1, <2>3
  <2>5. generation' # Generations => generation' < Generations
    BY <2>3, <2>4
  <2>6. searchPc' = "rank" => generation' < Generations
    <3>1. CASE generation' = Generations
      BY <2>2, <3>1
    <3>. QED  BY <2>5, <3>1
  <2>7. searchPc' \in {"rank", "last rank"}
    BY <2>2
  <2>8. generation' \in 0 .. Generations
    BY <2>3, <2>4
  <2>. QED  BY <2>6, <2>7, <2>8
<1>. QED  BY <1>1, <1>2, <1>3 DEF NextGeneration, SearchInv, SearchTypeOK

LEMMA LastRankKeeps == SearchInv /\ LastRank => SearchInv'
<1>. SUFFICES ASSUME SearchInv, LastRank  PROVE SearchInv'
  OBVIOUS
<1>1. population \in Seq(ScheduleSet) /\ Len(population) >= 2 /\ Len(population) \in Nat
  BY SearchTypes DEF SearchInv, LastRank
<1>2. population' = Ranked(population) /\ shown' = Constrained(population'[1])
  BY DEF LastRank
<1>3. population' \in Seq(ScheduleSet) /\ Len(population') = Len(population)
  BY <1>1, <1>2, RankedType
<1>4. shown' \in ScheduleSet
  BY <1>1, <1>2, <1>3, EndsType
<1>5. ASSUME NEW k \in Indexes(population')
      PROVE  SearchCost(shown') <= SearchCost(Constrained(population'[k]))
  <2>1. k \in 1 .. Len(population)
    BY <1>3 DEF Indexes
  <2>. QED  BY <1>1, <1>2, <2>1, CheapestFirst
<1>6. searchPc' = "done" /\ children' = children /\ generation' = generation
  BY DEF LastRank
<1>7. \A k \in Indexes(population') :
        SearchCost(shown') <= SearchCost(Constrained(population'[k]))
  BY <1>5
<1>. QED  BY <1>1, <1>2, <1>3, <1>4, <1>6, <1>7, Zenon DEF SearchInv, SearchTypeOK

LEMMA SearchStep == SearchInv /\ [SearchNext]_searchVars => SearchInv'
<1>. SUFFICES ASSUME SearchInv, [SearchNext]_searchVars  PROVE SearchInv'
  OBVIOUS
<1>1. CASE SearchOver
  <2>1. Len(<<>>) = 0 /\ <<>> \in Seq(ScheduleSet) /\ 0 <= PopulationSize /\ 0 \in 0 .. Generations
    BY SearchAssumption
  <2>. QED  BY <1>1, <2>1 DEF SearchOver, SearchInv, SearchTypeOK
<1>2. CASE UNCHANGED searchVars
  BY <1>2 DEF searchVars, SearchInv, SearchTypeOK, Indexes
<1>. QED
  BY <1>1, <1>2, EvaluateKeeps, CreateOneKeeps, PopulationCreatedKeeps, RankKeeps, BreedKeeps,
     NextGenerationKeeps, LastRankKeeps DEF SearchNext

LEMMA SearchInvariant == SearchSpec => []SearchInv
BY SearchInitial, SearchStep, PTL DEF SearchSpec

(***************************************************************************)
(* However the population was created and bred, and whatever the costs:    *)
(* every variable of evaluate keeps its type, the population and its       *)
(* children never more than population_size, all of them schedules of all  *)
(* the slots.                                                              *)
(***************************************************************************)
THEOREM SearchTypeCorrect == SearchSpec => []SearchTypeOK
<1>1. SearchInv => SearchTypeOK
  BY DEF SearchInv
<1>. QED  BY <1>1, SearchInvariant, PTL

(***************************************************************************)
(* For every population and every cost: the schedule in the timeslots when *)
(* evaluate is over is a cheapest of the last population and has every     *)
(* forced action in it, although the ranking evaluated others after it.    *)
(***************************************************************************)
THEOREM SearchPlanIsShown == SearchSpec => []PlanIsShown
<1>1. SearchInv => PlanIsShown
  <2>. SUFFICES ASSUME SearchInv, searchPc = "done"  PROVE PlanIsShown
    BY DEF PlanIsShown
  <2>1. shown = Constrained(population[1])
    BY DEF SearchInv
  <2>2. \A i \in DOMAIN ForcedTo : shown[i] = ForcedTo[i]
    BY <2>1, SearchAssumption DEF Constrained
  <2>. QED  BY <2>2 DEF SearchInv, PlanIsShown
<1>. QED  BY <1>1, SearchInvariant, PTL
=============================================================================
