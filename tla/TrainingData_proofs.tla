------------------------ MODULE TrainingData_proofs ------------------------
(***************************************************************************)
(* The history of consumption has the energy of each day, and no model is  *)
(* trained on energy of other half-hours: for any number of days, length   *)
(* of a day and of a page, and whichever readings are missing.             *)
(***************************************************************************)
EXTENDS TrainingData, IntegerLemmas
LOCAL INSTANCE FiniteSetsExt

(***************************************************************************)
(* Half-hours and days.                                                    *)
(***************************************************************************)
LEMMA DaySlotsType == DaySlots \in Nat \ {0} /\ HistoryDays \in Nat \ {0}
  BY HistoryAssumption

LEMMA HistSlotsType == HistSlots \subseteq Nat /\ 0 \in HistSlots
<1>1. HistoryDays * DaySlots \in Nat \ {0}
  BY DaySlotsType
<1>. QED  BY <1>1 DEF HistSlots

LEMMA DaysSlotsZero == 0 % DaySlots = 0
  BY DaySlotsType, Z3

(***************************************************************************)
(* The half-hour before one that does not begin a day is of the same day.  *)
(***************************************************************************)
LEMMA SlotBefore ==
    ASSUME NEW s \in HistSlots, s % DaySlots # 0
    PROVE  s - 1 \in HistSlots /\ HistDay(s - 1) = HistDay(s)
<1>1. s \in Nat /\ DaySlots \in Nat \ {0} /\ HistoryDays * DaySlots \in Nat
  BY HistSlotsType, DaySlotsType
<1>2. s # 0
  BY <1>1, Z3
<1>3. s - 1 \in HistSlots
  BY <1>1, <1>2 DEF HistSlots
<1>4. (s - 1) \div DaySlots = s \div DaySlots
  BY <1>1, <1>2, Z3
<1>. QED  BY <1>3, <1>4 DEF HistDay

(***************************************************************************)
(* No half-hour before one that begins a day is of that day.               *)
(***************************************************************************)
LEMMA FirstOfDay ==
    ASSUME NEW s \in HistSlots, s % DaySlots = 0, NEW t \in HistSlots, t < s
    PROVE  HistDay(t) # HistDay(s)
<1>1. s \in Nat /\ t \in Nat /\ DaySlots \in Nat \ {0}
  BY HistSlotsType, DaySlotsType
<1>2. t \div DaySlots # s \div DaySlots
  <2>1. s = DaySlots * (s \div DaySlots) + (s % DaySlots) /\ s \div DaySlots \in Int
    BY <1>1, Division
  <2>2. t = DaySlots * (t \div DaySlots) + (t % DaySlots) /\ (t % DaySlots) \in 0 .. DaySlots - 1
    BY <1>1, Division
  <2>. QED  BY <1>1, <2>1, <2>2
<1>. QED  BY <1>2 DEF HistDay

(***************************************************************************)
(* The end of a day is a half-hour of that day.                            *)
(***************************************************************************)
LEMMA EndOfDaySlot ==
    ASSUME NEW s \in HistSlots
    PROVE  /\ EndOfDay(s) \in HistSlots /\ s <= EndOfDay(s)
           /\ HistDay(EndOfDay(s)) = HistDay(s)
<1>. DEFINE q == s \div DaySlots
            r == s % DaySlots
<1>1. s \in Nat /\ DaySlots \in Nat \ {0} /\ HistoryDays \in Nat \ {0}
  BY HistSlotsType, DaySlotsType
<1>2. q \in Int /\ r \in 0 .. DaySlots - 1 /\ s = DaySlots * q + r
  BY <1>1, Division
<1>3. s < HistoryDays * DaySlots
  <2>1. HistoryDays * DaySlots \in Nat
    BY <1>1
  <2>. QED  BY <1>1, <2>1 DEF HistSlots
<1>4. EndOfDay(s) = DaySlots * q + (DaySlots - 1)
  <2>1. EndOfDay(s) = q * DaySlots + (DaySlots - 1)
    BY DEF EndOfDay, HistDay
  <2>. HIDE DEF q
  <2>. QED  BY <1>1, <1>2, <2>1
<1>5. DaySlots - 1 \in 0 .. DaySlots - 1
  BY <1>1
<1>6. EndOfDay(s) \div DaySlots = q
  <2>. HIDE DEF q
  <2>. QED  BY <1>1, <1>2, <1>4, <1>5, DivisionUnique
<1>. HIDE DEF q, r
<1>7. q < HistoryDays /\ q >= 0
  BY <1>1, <1>2, <1>3, Z3
<1>8. DaySlots * q + (DaySlots - 1) < HistoryDays * DaySlots
  <2>1. DaySlots * (q + 1) <= HistoryDays * DaySlots
    BY <1>1, <1>2, <1>7, Z3
  <2>2. DaySlots * (q + 1) = DaySlots * q + DaySlots
    BY <1>1, <1>2
  <2>3. DaySlots * q \in Int /\ HistoryDays * DaySlots \in Int
    BY <1>1, <1>2
  <2>. QED  BY <1>1, <2>1, <2>2, <2>3
<1>9. EndOfDay(s) \in HistSlots /\ s <= EndOfDay(s)
  <2>1. DaySlots * q \in Nat /\ HistoryDays * DaySlots \in Int
    BY <1>1, <1>2, <1>7
  <2>2. DaySlots * q + (DaySlots - 1) \in Nat
    BY <1>1, <2>1
  <2>. QED  BY <1>1, <1>2, <1>4, <1>8, <2>1, <2>2 DEF HistSlots
<1>. QED  BY <1>6, <1>9 DEF HistDay, q

(***************************************************************************)
(* The running total of a series exists, starts again every day, and adds  *)
(* each half-hour to the one before.                                       *)
(***************************************************************************)
Added(f, s) == IF s \in DOMAIN f THEN f[s] ELSE 0

(***************************************************************************)
(* RunningTotal is what its recursion says: the recursion over the half-   *)
(* hours has a solution.                                                   *)
(***************************************************************************)
LEMMA RunningTotalDef ==
    ASSUME NEW f, f \in [DOMAIN f -> Nat]
    PROVE  /\ RunningTotal(f) \in [HistSlots -> Nat]
           /\ \A s \in HistSlots :
                RunningTotal(f)[s] = (IF s % DaySlots = 0 THEN 0 ELSE RunningTotal(f)[s - 1])
                                       + Added(f, s)
<1>. DEFINE V == Nat
            first == Added(f, 0)
            step == [p \in Nat \X V |->
                       (IF p[1] % DaySlots = 0 THEN 0 ELSE p[2]) + Added(f, p[1])]
<1>1. \A s : Added(f, s) \in Nat
  BY DEF Added
<1>2. step \in [Nat \X V -> V]
  BY <1>1
<1>3. PICK g \in [Nat -> V] : Recursive(g, Nat, first, step)
  <2>. HIDE DEF V, first, step
  <2>1. first \in V
    BY <1>1 DEF V, first
  <2>. QED  BY <1>2, <2>1, RecursiveExists
<1>. DEFINE h == [s \in HistSlots |-> g[s]]
<1>4. ASSUME NEW s \in HistSlots
      PROVE  h[s] = (IF s % DaySlots = 0 THEN 0 ELSE h[s - 1]) + Added(f, s)
  <2>1. s \in Nat
    BY HistSlotsType
  <2>2. g[s] = IF s = 0 THEN first ELSE step[<<s, g[s - 1]>>]
    BY <1>3, <2>1, Zenon DEF Recursive
  <2>3. CASE s = 0
    <3>1. s % DaySlots = 0
      BY <2>3, DaysSlotsZero
    <3>2. h[s] = Added(f, s)
      BY <2>2, <2>3
    <3>. QED  BY <1>1, <3>1, <3>2
  <2>4. CASE s # 0
    <3>1. s - 1 \in Nat /\ g[s - 1] \in Nat
      BY <1>3, <2>1, <2>4
    <3>2. g[s] = (IF s % DaySlots = 0 THEN 0 ELSE g[s - 1]) + Added(f, s)
      <4>. HIDE DEF first
      <4>. QED  BY <2>1, <2>2, <2>4, <3>1
    <3>3. s % DaySlots # 0 => h[s - 1] = g[s - 1]
      BY SlotBefore
    <3>. QED  BY <3>2, <3>3
  <2>. QED  BY <2>3, <2>4
<1>5. h \in [HistSlots -> Nat]
  BY <1>3, HistSlotsType
<1>6. h = [s \in HistSlots |->
             (IF s % DaySlots = 0 THEN 0 ELSE h[s - 1]) + (IF s \in DOMAIN f THEN f[s] ELSE 0)]
  <2>. HIDE DEF h
  <2>1. h = [s \in HistSlots |-> (IF s % DaySlots = 0 THEN 0 ELSE h[s - 1]) + Added(f, s)]
    BY <1>4, <1>5
  <2>. QED  BY <2>1 DEF Added
<1>. HIDE DEF h
<1>7. RunningTotal(f) =
        [s \in HistSlots |->
           (IF s % DaySlots = 0 THEN 0 ELSE RunningTotal(f)[s - 1])
             + (IF s \in DOMAIN f THEN f[s] ELSE 0)]
  BY <1>6, Zenon DEF RunningTotal
<1>8. ASSUME NEW s \in HistSlots
      PROVE  RunningTotal(f)[s] = (IF s % DaySlots = 0 THEN 0 ELSE RunningTotal(f)[s - 1])
                                    + Added(f, s)
  BY <1>7, Zenon DEF Added
<1>9. DOMAIN RunningTotal(f) = HistSlots /\ RunningTotal(f) = [s \in HistSlots |-> RunningTotal(f)[s]]
  BY <1>7
<1>10. \A n \in Nat : n \in {m \in Nat : m \in HistSlots => RunningTotal(f)[m] \in Nat}
  <2>. DEFINE S == {m \in Nat : m \in HistSlots => RunningTotal(f)[m] \in Nat}
  <2>1. 0 \in S
    <3>1. RunningTotal(f)[0] = 0 + Added(f, 0)
      BY <1>8, HistSlotsType, DaysSlotsZero
    <3>. QED  BY <1>1, <3>1
  <2>2. ASSUME NEW n \in Nat, n \in S  PROVE n + 1 \in S
    <3>1. SUFFICES ASSUME n + 1 \in HistSlots  PROVE RunningTotal(f)[n + 1] \in Nat
      OBVIOUS
    <3>2. RunningTotal(f)[n + 1] = (IF (n + 1) % DaySlots = 0 THEN 0 ELSE RunningTotal(f)[(n + 1) - 1])
                                     + Added(f, n + 1)
      BY <1>8, <3>1
    <3>3. (n + 1) - 1 = n
      OBVIOUS
    <3>4. (n + 1) % DaySlots # 0 => n \in HistSlots
      BY <3>1, <3>3, SlotBefore
    <3>5. Added(f, n + 1) \in Nat
      BY <1>1
    <3>. QED  BY <2>2, <3>2, <3>3, <3>4, <3>5
  <2>. HIDE DEF S
  <2>3. \A n \in Nat : n \in S
    BY <2>1, <2>2, SetInduction
  <2>. QED  BY <2>3 DEF S
<1>11. RunningTotal(f) \in [HistSlots -> Nat]
  BY <1>9, <1>10, HistSlotsType
<1>. QED  BY <1>8, <1>11

-----------------------------------------------------------------------------
(***************************************************************************)
(* What fetch relies on at each point: the readings received are the day's *)
(* totals, and the series is made from them.                               *)
(***************************************************************************)
HistInv ==
  /\ HistTypeOK
  /\ histPc = "idle" => histPage = 0 /\ points = NoPoints
  /\ histPc \in {"request", "retry"} => histPage \in HistPages
  /\ \A s \in DOMAIN points : points[s] = DayTotal(s)
  /\ IF histPc = "series" THEN points # NoPoints /\ history = Series ELSE history = NoPoints

(***************************************************************************)
(* The stages only take rows away after the gaps have been looked for.     *)
(***************************************************************************)
OwnEnergyKept ==
  demanding = HistSlots =>
    \A s \in kept : (\E t \in kept : t < s) => history[s] = used[s]

CleanInv ==
  /\ HistInv
  /\ CleanTypeOK
  /\ cleanPc \in {"hard", "ev", "fences", "flat", "gate", "trained", "insufficient"} =>
       histPc = "series" /\ kept \subseteq DOMAIN history
  /\ cleanPc = "no data" => histPc \in {"empty", "failed"}
  /\ cleanPc \in {"ev", "fences", "flat", "gate", "trained"} => OwnEnergyKept

(***************************************************************************)
(* A history has a page at least.                                          *)
(***************************************************************************)
LEMMA PagesOfDay ==
  /\ HistoryDays * DaySlots \in Nat \ {0} /\ PageSlots \in Nat \ {0}
  /\ HistoryDays * DaySlots >= PageSlots
  /\ (HistoryDays * DaySlots) \div PageSlots \in Nat \ {0}
<1>1. HistoryDays \in Nat \ {0} /\ DaySlots \in Nat \ {0} /\ PageSlots \in Nat \ {0}
  BY HistoryAssumption
<1>2. DaySlots % PageSlots = 0
  BY HistoryAssumption
<1>3. DaySlots >= PageSlots
  BY <1>1, <1>2, Z3
<1>. DEFINE all == HistoryDays * DaySlots
<1>4. all >= DaySlots /\ all \in Nat \ {0}
  BY <1>1, Z3
<1>. HIDE DEF all
<1>5. all \div PageSlots \in Nat \ {0}
  BY <1>1, <1>3, <1>4, Z3
<1>. QED  BY <1>1, <1>3, <1>4, <1>5 DEF all

(***************************************************************************)
(* The least and the greatest half-hour of a set, and the series between   *)
(* the first and the last reading.                                         *)
(***************************************************************************)
LEMMA MinMaxSlot ==
    ASSUME NEW S, S \subseteq HistSlots, S # {}
    PROVE  /\ Min(S) \in S /\ \A s \in S : Min(S) <= s
           /\ Max(S) \in S /\ \A s \in S : s <= Max(S)
<1>1. S \subseteq Nat /\ S \subseteq Int
  BY HistSlotsType
<1>2. \E m \in S : \A s \in S : m <= s
  BY <1>1, LeastNatural
<1>3. \E m \in S : \A s \in S : m >= s
  <2>1. HistoryDays * DaySlots \in Int /\ \A s \in S : s <= HistoryDays * DaySlots
    BY DaySlotsType DEF HistSlots
  <2>2. \E m \in S : \A s \in S : s <= m
    BY <1>1, <2>1, GreatestInteger
  <2>. QED  BY <1>1, <2>2
<1>4. Min(S) \in S /\ \A s \in S : Min(S) <= s
  BY <1>2 DEF Min
<1>5. Max(S) \in S /\ \A s \in S : Max(S) >= s
  BY <1>3 DEF Max
<1>. QED  BY <1>1, <1>4, <1>5

(***************************************************************************)
(* The series has every reading and the half-hours between the first and   *)
(* the last.                                                               *)
(***************************************************************************)
LEMMA SeriesType ==
    ASSUME DOMAIN points \subseteq HistSlots, points \in [DOMAIN points -> Nat], points # NoPoints
    PROVE  /\ DOMAIN Series \subseteq HistSlots /\ Series \in [DOMAIN Series -> Nat]
           /\ DOMAIN points \subseteq DOMAIN Series
           /\ \A s \in DOMAIN Series :
                Series[s] = IF s \in DOMAIN points THEN Increment(s) ELSE 0
<1>. DEFINE P == DOMAIN points
<1>1. P # {}
  BY DEF NoPoints
<1>2. Min(P) \in P /\ Max(P) \in P /\ \A s \in P : Min(P) <= s /\ s <= Max(P)
  BY <1>1, MinMaxSlot
<1>3. DOMAIN Series = Min(P) .. Max(P)
  BY DEF Series
<1>4. Min(P) .. Max(P) \subseteq HistSlots
  <2>1. Min(P) \in HistSlots /\ Max(P) \in HistSlots
    BY <1>2
  <2>. HIDE DEF P
  <2>2. HistoryDays * DaySlots \in Nat
    BY DaySlotsType
  <2>. QED  BY <2>1, <2>2 DEF HistSlots
<1>5. P \subseteq Min(P) .. Max(P)
  <2>1. P \subseteq Int
    BY HistSlotsType
  <2>. HIDE DEF P
  <2>. QED  BY <1>2, <2>1
<1>6. ASSUME NEW s \in P  PROVE Increment(s) \in Nat
  <2>1. EarlierPoints(s) # {} => points[Max(EarlierPoints(s))] \in Nat
    <3>1. EarlierPoints(s) \subseteq P
      BY DEF EarlierPoints
    <3>2. EarlierPoints(s) # {} => Max(EarlierPoints(s)) \in P
      BY <3>1, MinMaxSlot
    <3>. QED  BY <3>2
  <2>2. points[s] \in Nat
    OBVIOUS
  <2>. QED  BY <2>1, <2>2 DEF Increment
<1>7. \A s \in DOMAIN Series : Series[s] = IF s \in DOMAIN points THEN Increment(s) ELSE 0
  BY <1>3 DEF Series
<1>8. Series \in [DOMAIN Series -> Nat]
  BY <1>3, <1>6, <1>7 DEF Series
<1>. QED  BY <1>3, <1>4, <1>5, <1>7, <1>8

LEMMA HistInitial == HistInit => HistInv
<1>. SUFFICES ASSUME HistInit  PROVE HistInv
  OBVIOUS
<1>1. HistoryDays * DaySlots \in Nat /\ 0 <= HistoryDays * DaySlots /\ PageSlots \in Nat \ {0}
  BY HistoryAssumption
<1>2. histPage \in HistPages \cup {(HistoryDays * DaySlots) \div PageSlots}
  <2>. DEFINE pages == (HistoryDays * DaySlots) \div PageSlots
  <2>1. pages \in Nat
    BY <1>1, Z3
  <2>. HIDE DEF pages
  <2>2. 0 \in 0 .. pages - 1 \cup {pages}
    BY <2>1
  <2>. QED  BY <2>2 DEF HistInit, HistPages, pages
<1>3. DOMAIN NoPoints = {} /\ NoPoints \in [DOMAIN NoPoints -> Nat]
  BY DEF NoPoints
<1>4. HistTypeOK
  BY <1>2, <1>3 DEF HistInit, HistTypeOK
<1>. QED  BY <1>3, <1>4 DEF HistInit, HistInv

(***************************************************************************)
(* The total of a day grows by what each half-hour uses.                   *)
(***************************************************************************)
LEMMA UsedTotals ==
    ASSUME HistTypeOK
    PROVE  /\ \A s \in HistSlots : DayTotal(s) \in Nat /\ used[s] \in Nat
           /\ \A s \in HistSlots :
                DayTotal(s) = (IF s % DaySlots = 0 THEN 0 ELSE DayTotal(s - 1)) + used[s]
<1>1. DOMAIN used = HistSlots /\ used \in [HistSlots -> Nat]
  BY HistoryAssumption DEF HistTypeOK
<1>2. used \in [DOMAIN used -> Nat]
  BY <1>1
<1>3. RunningTotal(used) \in [HistSlots -> Nat]
  BY <1>2, RunningTotalDef
<1>4. ASSUME NEW s \in HistSlots
      PROVE  DayTotal(s) = (IF s % DaySlots = 0 THEN 0 ELSE DayTotal(s - 1)) + used[s]
  <2>1. RunningTotal(used)[s]
          = (IF s % DaySlots = 0 THEN 0 ELSE RunningTotal(used)[s - 1]) + Added(used, s)
    BY <1>2, RunningTotalDef
  <2>2. Added(used, s) = used[s]
    BY <1>1 DEF Added
  <2>. QED  BY <2>1, <2>2 DEF DayTotal
<1>5. \A s \in HistSlots : DayTotal(s) \in Nat /\ used[s] \in Nat
  BY <1>1, <1>3 DEF DayTotal
<1>. QED  BY <1>4, <1>5

LEMMA HistStep == HistInv /\ [HistNext]_histVars => HistInv'
<1>. SUFFICES ASSUME HistInv, [HistNext]_histVars  PROVE HistInv'
  OBVIOUS
<1>0. HistTypeOK /\ DOMAIN points \subseteq HistSlots /\ points \in [DOMAIN points -> Nat]
  BY DEF HistInv, HistTypeOK
<1>1. CASE FetchHistory
  <2>1. points = NoPoints /\ points' = points /\ history' = history /\ histPage' = histPage
    BY <1>1 DEF FetchHistory, HistInv
  <2>2. DOMAIN points' = {}
    BY <2>1 DEF NoPoints
  <2>3. histPage' \in HistPages
    <3>1. histPage = 0
      BY <1>1 DEF FetchHistory, HistInv
    <3>. QED  BY <2>1, <3>1, PagesOfDay DEF HistPages
  <2>4. HistTypeOK'
    BY <1>1, <2>1, <2>3 DEF HistInv, HistTypeOK, FetchHistory
  <2>. QED  BY <1>1, <2>1, <2>2, <2>3, <2>4 DEF HistInv, FetchHistory
<1>2. CASE PageAnswered
  <2>1. PICK S \in SUBSET {s \in HistSlots : PageOf(s) = histPage} :
          points' = [s \in DOMAIN points \cup S |->
                       IF s \in DOMAIN points THEN points[s] ELSE DayTotal(s)]
    BY <1>2 DEF PageAnswered
  <2>2. used' = used /\ history' = history /\ histPage \in HistPages
    BY <1>2 DEF PageAnswered, HistInv
  <2>3. \A s : DayTotal(s)' = DayTotal(s)
    BY <2>2 DEF DayTotal
  <2>4. \A s \in DOMAIN points' : s \in HistSlots /\ points'[s] = DayTotal(s)
    BY <1>0, <2>1 DEF HistInv
  <2>5. DOMAIN points' \subseteq HistSlots /\ points' \in [DOMAIN points' -> Nat]
    BY <1>0, <2>1, <2>4, UsedTotals
  <2>6. histPage' \in HistPages \cup {(HistoryDays * DaySlots) \div PageSlots}
    BY <1>2, <2>2, PagesOfDay DEF PageAnswered, HistPages
  <2>7. histPc' \in {"request", "received"} /\ (histPc' = "request" => histPage' \in HistPages)
    BY <1>2 DEF PageAnswered
  <2>8. HistTypeOK'
    BY <2>2, <2>5, <2>6, <2>7 DEF HistInv, HistTypeOK
  <2>9. history = NoPoints
    BY <1>2 DEF HistInv, PageAnswered
  <2>. QED  BY <2>2, <2>3, <2>4, <2>7, <2>8, <2>9 DEF HistInv
<1>3. CASE RateLimited \/ PageFails
  <2>1. UNCHANGED <<histPage, used, points, history>>
    BY <1>3 DEF RateLimited, PageFails
  <2>2. \A s : DayTotal(s)' = DayTotal(s)
    BY <2>1 DEF DayTotal
  <2>3. histPc' = "failed" \/ (histPc = "request" /\ histPc' = "retry")
    BY <1>3 DEF RateLimited, PageFails
  <2>4. histPc \in {"request", "retry"}
    BY <1>3 DEF RateLimited, PageFails
  <2>. QED  BY <2>1, <2>2, <2>3, <2>4 DEF HistInv, HistTypeOK
<1>4. CASE SeriesBuilt
  <2>1. UNCHANGED <<histPage, used, points>> /\ histPc = "received" /\ history = NoPoints
    BY <1>4 DEF SeriesBuilt, HistInv
  <2>2. \A s : DayTotal(s)' = DayTotal(s)
    BY <2>1 DEF DayTotal
  <2>3. CASE points = NoPoints
    <3>1. histPc' = "empty" /\ history' = history
      BY <1>4, <2>3 DEF SeriesBuilt
    <3>. QED  BY <2>1, <2>2, <3>1 DEF HistInv, HistTypeOK
  <2>4. CASE points # NoPoints
    <3>1. histPc' = "series" /\ history' = Series
      BY <1>4, <2>4 DEF SeriesBuilt
    <3>2. Series' = Series
      BY <2>1 DEF Series, Increment, EarlierPoints
    <3>3. DOMAIN Series \subseteq HistSlots /\ Series \in [DOMAIN Series -> Nat]
      BY <1>0, <2>4, SeriesType
    <3>4. HistTypeOK'
      BY <2>1, <3>1, <3>3 DEF HistInv, HistTypeOK
    <3>. QED  BY <2>1, <2>2, <2>4, <3>1, <3>2, <3>4 DEF HistInv
  <2>. QED  BY <2>3, <2>4
<1>5. CASE UNCHANGED histVars
  <2>1. UNCHANGED <<histPc, histPage, used, points, history>>
    BY <1>5 DEF histVars
  <2>2. \A s : DayTotal(s)' = DayTotal(s)
    BY <2>1 DEF DayTotal
  <2>3. Series' = Series
    BY <2>1 DEF Series, Increment, EarlierPoints
  <2>. QED  BY <2>1, <2>2, <2>3 DEF HistInv, HistTypeOK
<1>. QED  BY <1>1, <1>2, <1>3, <1>4, <1>5 DEF HistNext

(***************************************************************************)
(* The day's total never falls, so no increment is cut off at zero.        *)
(***************************************************************************)
LEMMA TotalsGrow ==
    ASSUME HistTypeOK
    PROVE  \A s, t \in HistSlots : t <= s /\ HistDay(t) = HistDay(s) => DayTotal(t) <= DayTotal(s)
<1>1. SUFFICES ASSUME NEW t \in HistSlots
               PROVE  \A s \in HistSlots :
                        t <= s /\ HistDay(t) = HistDay(s) => DayTotal(t) <= DayTotal(s)
  OBVIOUS
<1>. DEFINE S == {s \in Nat : s \in HistSlots /\ t <= s /\ HistDay(t) = HistDay(s)
                               => DayTotal(t) <= DayTotal(s)}
<1>2. t \in Nat /\ DayTotal(t) \in Nat
  BY HistSlotsType, UsedTotals
<1>3. 0 \in S
  <2>1. 0 <= t /\ (t <= 0 => t = 0)
    BY <1>2
  <2>. QED  BY <1>2, <2>1
<1>4. ASSUME NEW n \in Nat, n \in S  PROVE n + 1 \in S
  <2>1. SUFFICES ASSUME n + 1 \in HistSlots, t <= n + 1, HistDay(t) = HistDay(n + 1)
                 PROVE  DayTotal(t) <= DayTotal(n + 1)
    OBVIOUS
  <2>2. CASE t = n + 1
    BY <1>2, <2>2
  <2>3. CASE t # n + 1
    <3>1. t <= n /\ t < n + 1 /\ (n + 1) - 1 = n
      BY <1>2, <2>1, <2>3
    <3>2. (n + 1) % DaySlots # 0
      BY <2>1, <3>1, FirstOfDay
    <3>3. n \in HistSlots /\ HistDay(n) = HistDay(n + 1)
      BY <2>1, <3>1, <3>2, SlotBefore
    <3>4. DayTotal(t) <= DayTotal(n)
      BY <1>4, <2>1, <3>1, <3>3
    <3>5. DayTotal(n + 1) = DayTotal(n) + used[n + 1]
      BY <2>1, <3>1, <3>2, UsedTotals
    <3>6. DayTotal(n) \in Nat /\ used[n + 1] \in Nat
      BY <2>1, <3>3, UsedTotals
    <3>. QED  BY <1>2, <3>4, <3>5, <3>6
  <2>. QED  BY <2>2, <2>3
<1>. HIDE DEF S
<1>5. \A s \in Nat : s \in S
  BY <1>3, <1>4, SetInduction
<1>. QED  BY <1>5, HistSlotsType DEF S

(***************************************************************************)
(* What a reading adds: what was used since the reading before it in its   *)
(* day, or since midnight.                                                 *)
(***************************************************************************)
LEMMA IncrementIs ==
    ASSUME HistInv, NEW s \in DOMAIN points
    PROVE  Increment(s) = IF EarlierPoints(s) = {} THEN DayTotal(s)
                          ELSE DayTotal(s) - DayTotal(Max(EarlierPoints(s)))
<1>. DEFINE E == EarlierPoints(s)
<1>1. HistTypeOK /\ s \in HistSlots /\ points[s] = DayTotal(s) /\ DayTotal(s) \in Nat
  BY UsedTotals DEF HistInv, HistTypeOK
<1>2. CASE E = {}
  BY <1>1, <1>2 DEF Increment
<1>3. CASE E # {}
  <2>1. E \subseteq HistSlots
    BY DEF EarlierPoints, HistInv, HistTypeOK
  <2>2. Max(E) \in E
    BY <1>3, <2>1, MinMaxSlot
  <2>. DEFINE m == Max(E)
  <2>3. m \in DOMAIN points /\ m \in HistSlots /\ m < s /\ HistDay(m) = HistDay(s)
    BY <2>1, <2>2 DEF EarlierPoints
  <2>4. points[m] = DayTotal(m) /\ DayTotal(m) \in Nat
    BY <1>1, <2>3, UsedTotals DEF HistInv
  <2>5. DayTotal(m) <= DayTotal(s)
    <3>1. m \in Nat /\ s \in Nat
      BY <1>1, <2>3, HistSlotsType
    <3>2. m <= s
      BY <2>3, <3>1
    <3>. QED  BY <1>1, <2>3, <3>2, TotalsGrow
  <2>6. Increment(s) = IF points[s] > points[m] THEN points[s] - points[m] ELSE 0
    BY <1>3 DEF Increment
  <2>. HIDE DEF m
  <2>7. Increment(s) = DayTotal(s) - DayTotal(m)
    BY <1>1, <2>4, <2>5, <2>6
  <2>. QED  BY <1>3, <2>7 DEF m
<1>. QED  BY <1>2, <1>3

(***************************************************************************)
(* The running total of the series is the total last read.                 *)
(***************************************************************************)
UpTo(s) == {t \in DOMAIN points : t <= s /\ HistDay(t) = HistDay(s)}

LastRead(s) == IF UpTo(s) = {} THEN 0 ELSE DayTotal(Max(UpTo(s)))

(***************************************************************************)
(* The energy of the series up to a half-hour is the last reading of its   *)
(* day up to there.                                                        *)
(***************************************************************************)
LEMMA SeriesTotals ==
    ASSUME HistInv, histPc = "series"
    PROVE  \A s \in HistSlots : RunningTotal(history)[s] = LastRead(s)
<1>1. HistTypeOK /\ history = Series /\ points # NoPoints
      /\ DOMAIN points \subseteq HistSlots /\ points \in [DOMAIN points -> Nat]
  BY DEF HistInv, HistTypeOK
<1>2. history \in [DOMAIN history -> Nat]
      /\ \A s : Added(history, s) = IF s \in DOMAIN points THEN Increment(s) ELSE 0
  BY <1>1, SeriesType DEF Added
<1>. DEFINE R(s) == RunningTotal(history)[s]
            S == {s \in Nat : s \in HistSlots => R(s) = LastRead(s)}
<1>3. \A s \in HistSlots : R(s) = (IF s % DaySlots = 0 THEN 0 ELSE R(s - 1)) + Added(history, s)
  BY <1>2, RunningTotalDef
<1>4. ASSUME NEW s \in HistSlots, UpTo(s) # {}
      PROVE  Max(UpTo(s)) \in UpTo(s) /\ \A t \in UpTo(s) : t <= Max(UpTo(s))
  <2>1. UpTo(s) \subseteq HistSlots
    BY <1>1 DEF UpTo
  <2>. QED  BY <1>4, <2>1, MinMaxSlot
<1>5. ASSUME NEW s \in DOMAIN points  PROVE s \in UpTo(s) /\ Max(UpTo(s)) = s /\ LastRead(s) = DayTotal(s)
  <2>1. s \in HistSlots /\ s \in Nat
    BY <1>1, HistSlotsType
  <2>2. s \in UpTo(s)
    BY <2>1 DEF UpTo
  <2>3. Max(UpTo(s)) \in UpTo(s) /\ s <= Max(UpTo(s))
    BY <1>4, <2>1, <2>2
  <2>4. Max(UpTo(s)) <= s /\ Max(UpTo(s)) \in HistSlots
    BY <1>1, <2>3 DEF UpTo
  <2>5. Max(UpTo(s)) \in Nat
    BY <2>4, HistSlotsType
  <2>6. Max(UpTo(s)) = s
    BY <2>1, <2>3, <2>4, <2>5
  <2>. QED  BY <2>2, <2>6 DEF LastRead
<1>6. ASSUME NEW s \in HistSlots, s % DaySlots = 0  PROVE R(s) = LastRead(s)
  <2>1. \A t \in DOMAIN points : t < s => HistDay(t) # HistDay(s)
    BY <1>1, <1>6, FirstOfDay
  <2>2. R(s) = 0 + Added(history, s)
    BY <1>3, <1>6
  <2>3. CASE s \in DOMAIN points
    <3>1. EarlierPoints(s) = {}
      BY <2>1 DEF EarlierPoints
    <3>2. Added(history, s) = DayTotal(s) /\ DayTotal(s) \in Nat
      BY <1>1, <1>2, <2>3, <3>1, IncrementIs, UsedTotals
    <3>. QED  BY <1>5, <2>2, <2>3, <3>2
  <2>4. CASE s \notin DOMAIN points
    <3>1. UpTo(s) = {}
      <4>1. \A t \in DOMAIN points : t \in Nat /\ s \in Nat
        BY <1>1, HistSlotsType
      <4>2. \A t \in DOMAIN points : t <= s => t < s
        BY <2>4, <4>1
      <4>. QED  BY <2>1, <4>2 DEF UpTo
    <3>. QED  BY <1>2, <2>2, <2>4, <3>1 DEF LastRead
  <2>. QED  BY <2>3, <2>4
<1>7. ASSUME NEW s \in HistSlots, s % DaySlots # 0, R(s - 1) = LastRead(s - 1)
      PROVE  R(s) = LastRead(s)
  <2>1. s - 1 \in HistSlots /\ HistDay(s - 1) = HistDay(s) /\ s \in Nat
    BY <1>7, SlotBefore, HistSlotsType
  <2>2. R(s) = LastRead(s - 1) + Added(history, s)
    BY <1>3, <1>7
  <2>3. UpTo(s - 1) = EarlierPoints(s)
    <3>1. \A t \in DOMAIN points : t \in Nat
      BY <1>1, HistSlotsType
    <3>2. \A t \in DOMAIN points : t <= s - 1 <=> t < s
      BY <2>1, <3>1
    <3>. QED  BY <2>1, <3>2 DEF UpTo, EarlierPoints
  <2>4. UpTo(s - 1) # {} => DayTotal(Max(UpTo(s - 1))) \in Nat
    <3>1. UpTo(s - 1) # {} => Max(UpTo(s - 1)) \in HistSlots
      BY <1>1, <1>4, <2>1 DEF UpTo
    <3>. QED  BY <1>1, <3>1, UsedTotals
  <2>5. CASE s \in DOMAIN points
    <3>1. Increment(s) = IF UpTo(s - 1) = {} THEN DayTotal(s)
                         ELSE DayTotal(s) - DayTotal(Max(UpTo(s - 1)))
      BY <2>3, <2>5, IncrementIs
    <3>2. Added(history, s) = Increment(s) /\ DayTotal(s) \in Nat
      BY <1>1, <1>2, <2>5, UsedTotals
    <3>3. R(s) = DayTotal(s)
      BY <2>2, <2>4, <3>1, <3>2 DEF LastRead
    <3>. QED  BY <1>5, <2>5, <3>3
  <2>6. CASE s \notin DOMAIN points
    <3>1. UpTo(s) = UpTo(s - 1)
      <4>1. \A t \in DOMAIN points : t \in Nat /\ t # s
        BY <1>1, <2>6, HistSlotsType
      <4>2. \A t \in DOMAIN points : t <= s - 1 <=> t <= s
        BY <2>1, <4>1
      <4>. QED  BY <2>1, <4>2 DEF UpTo
    <3>2. LastRead(s) = LastRead(s - 1) /\ LastRead(s - 1) \in Nat
      BY <2>4, <3>1 DEF LastRead
    <3>. QED  BY <1>2, <2>2, <2>6, <3>2
  <2>. QED  BY <2>5, <2>6
<1>. HIDE DEF R
<1>8. 0 \in S
  BY <1>6, HistSlotsType, DaysSlotsZero
<1>9. ASSUME NEW n \in Nat, n \in S  PROVE n + 1 \in S
  <2>1. SUFFICES ASSUME n + 1 \in HistSlots  PROVE R(n + 1) = LastRead(n + 1)
    OBVIOUS
  <2>2. (n + 1) - 1 = n
    OBVIOUS
  <2>3. CASE (n + 1) % DaySlots = 0
    BY <1>6, <2>1, <2>3
  <2>4. CASE (n + 1) % DaySlots # 0
    <3>1. n \in HistSlots
      BY <2>1, <2>2, <2>4, SlotBefore
    <3>. QED  BY <1>7, <1>9, <2>1, <2>2, <2>4, <3>1
  <2>. QED  BY <2>3, <2>4
<1>. HIDE DEF S
<1>10. \A s \in Nat : s \in S
  BY <1>8, <1>9, SetInduction
<1>. QED  BY <1>10, HistSlotsType DEF S, R

(***************************************************************************)
(* So it has the energy of the whole day up to the last reading of it.     *)
(***************************************************************************)
LEMMA HistInvEnergy == HistInv => EnergyKept
<1>1. SUFFICES ASSUME HistInv, histPc = "series", NEW s \in DOMAIN points,
                      \A t \in DOMAIN points : t > s => HistDay(t) # HistDay(s)
               PROVE  RunningTotal(history)[EndOfDay(s)] = DayTotal(s)
  BY DEF EnergyKept
<1>. DEFINE e == EndOfDay(s)
<1>2. DOMAIN points \subseteq HistSlots /\ s \in HistSlots /\ s \in Nat
  BY <1>1, HistSlotsType DEF HistInv, HistTypeOK
<1>3. e \in HistSlots /\ s <= e /\ HistDay(e) = HistDay(s)
  BY <1>2, EndOfDaySlot
<1>. HIDE DEF e
<1>4. s \in UpTo(e)
  BY <1>1, <1>3 DEF UpTo
<1>5. UpTo(e) \subseteq HistSlots /\ UpTo(e) # {}
  BY <1>2, <1>4 DEF UpTo
<1>6. Max(UpTo(e)) \in UpTo(e) /\ s <= Max(UpTo(e))
  BY <1>4, <1>5, MinMaxSlot
<1>7. Max(UpTo(e)) \in DOMAIN points /\ HistDay(Max(UpTo(e))) = HistDay(s) /\ Max(UpTo(e)) \in Nat
  BY <1>2, <1>3, <1>6, HistSlotsType DEF UpTo
<1>8. Max(UpTo(e)) = s
  BY <1>1, <1>2, <1>6, <1>7
<1>9. RunningTotal(history)[e] = DayTotal(s)
  BY <1>1, <1>3, <1>4, <1>8, SeriesTotals DEF LastRead
<1>. QED  BY <1>9 DEF e

(***************************************************************************)
(* Whichever readings are missing and however the pages come in, the       *)
(* series fetch returns has all the energy of each day up to its last      *)
(* reading, and none of it twice.                                          *)
(***************************************************************************)
THEOREM HistoryKeepsEnergy == HistSpec => []EnergyKept
<1>1. HistSpec => []HistInv
  BY HistInitial, HistStep, PTL DEF HistSpec
<1>. QED  BY <1>1, HistInvEnergy, PTL

-----------------------------------------------------------------------------
(***************************************************************************)
(* Two rows in a row that have used something are both readings, so the    *)
(* second has what was used in its own half-hour and nothing else.         *)
(***************************************************************************)
LEMMA ReadingAfterReading ==
    ASSUME HistInv, histPc = "series", NEW s \in DOMAIN history, s - 1 \in DOMAIN history,
           history[s] # 0, history[s - 1] # 0
    PROVE  history[s] = used[s]
<1>1. HistTypeOK /\ history = Series /\ points # NoPoints
      /\ DOMAIN points \subseteq HistSlots /\ points \in [DOMAIN points -> Nat]
  BY DEF HistInv, HistTypeOK
<1>2. s \in DOMAIN points /\ s - 1 \in DOMAIN points /\ history[s] = Increment(s)
  BY <1>1, SeriesType
<1>3. s \in HistSlots /\ s - 1 \in HistSlots /\ s \in Nat
  BY <1>1, <1>2, HistSlotsType
<1>4. DayTotal(s) = (IF s % DaySlots = 0 THEN 0 ELSE DayTotal(s - 1)) + used[s]
      /\ DayTotal(s - 1) \in Nat /\ DayTotal(s) \in Nat /\ used[s] \in Nat
  BY <1>1, <1>3, UsedTotals
<1>5. CASE s % DaySlots = 0
  <2>1. EarlierPoints(s) = {}
    BY <1>1, <1>3, <1>5, FirstOfDay DEF EarlierPoints
  <2>. QED  BY <1>2, <1>4, <1>5, <2>1, IncrementIs
<1>6. CASE s % DaySlots # 0
  <2>1. s - 1 \in EarlierPoints(s) /\ EarlierPoints(s) \subseteq HistSlots
    <3>1. HistDay(s - 1) = HistDay(s) /\ s - 1 < s
      BY <1>3, <1>6, SlotBefore
    <3>. QED  BY <1>1, <1>2, <3>1 DEF EarlierPoints
  <2>2. Max(EarlierPoints(s)) \in EarlierPoints(s) /\ s - 1 <= Max(EarlierPoints(s))
    BY <2>1, MinMaxSlot
  <2>3. Max(EarlierPoints(s)) \in Nat /\ Max(EarlierPoints(s)) < s
    BY <2>1, <2>2, HistSlotsType DEF EarlierPoints
  <2>4. Max(EarlierPoints(s)) = s - 1
    BY <1>3, <2>2, <2>3
  <2>5. Increment(s) = DayTotal(s) - DayTotal(s - 1)
    BY <1>2, <2>1, <2>4, IncrementIs
  <2>. QED  BY <1>2, <1>4, <1>6, <2>5
<1>. QED  BY <1>5, <1>6

(***************************************************************************)
(* After the hard exclusions every row but the first follows one: gaps are *)
(* looked for after the zeros are gone.                                    *)
(***************************************************************************)
LEMMA HardExclusionsKeepOwn ==
    ASSUME HistInv, histPc = "series", kept \subseteq DOMAIN history,
           NEW rows, rows = kept \ HardExcluded(kept),
           demanding = HistSlots, NEW s \in rows, NEW t \in rows, t < s
    PROVE  history[s] = used[s]
<1>. DEFINE plausible == kept \ Implausible(kept)
<1>1. s \in plausible /\ t \in plausible /\ s \notin BesideGap(plausible)
  BY DEF HardExcluded
<1>2. s - 1 \in plausible
  BY <1>1 DEF BesideGap
<1>3. \A r \in plausible : r \in DOMAIN history /\ history[r] # 0
  BY DEF Implausible, HistInv, HistTypeOK
<1>. QED  BY <1>1, <1>2, <1>3, ReadingAfterReading

LEMMA CleanInitial == CleanInit => CleanInv
<1>. SUFFICES ASSUME CleanInit  PROVE CleanInv
  OBVIOUS
<1>1. HistInv
  BY HistInitial DEF CleanInit
<1>2. HistTypeOK
  BY <1>1 DEF HistInv
<1>. QED  BY <1>1, <1>2 DEF CleanInit, CleanInv, CleanTypeOK

(***************************************************************************)
(* A stage that only takes rows away.                                      *)
(***************************************************************************)
LEMMA FewerRows ==
    ASSUME CleanInv, kept' \subseteq kept,
           UNCHANGED <<histPc, histPage, used, points, history, demanding>>,
           cleanPc \in {"ev", "fences", "flat", "gate"},
           cleanPc' \in {"fences", "flat", "gate", "trained", "insufficient"}
    PROVE  CleanInv'
<1>1. HistInv' /\ HistTypeOK' /\ CleanTypeOK'
  <2>1. [HistNext]_histVars
    BY DEF histVars
  <2>2. HistInv'
    BY <2>1, HistStep DEF CleanInv
  <2>. QED  BY <2>2 DEF HistInv, CleanInv, CleanTypeOK
<1>2. OwnEnergyKept'
  <2>1. OwnEnergyKept
    BY DEF CleanInv
  <2>. QED  BY <2>1 DEF OwnEnergyKept
<1>. QED  BY <1>1, <1>2 DEF CleanInv

LEMMA CleanStep == CleanInv /\ [CleanNext]_cleanVars => CleanInv'
<1>. SUFFICES ASSUME CleanInv, [CleanNext]_cleanVars  PROVE CleanInv'
  OBVIOUS
<1>1. CASE HistNext /\ UNCHANGED <<cleanPc, demanding, kept>>
  <2>1. HistInv' /\ HistTypeOK'
    BY <1>1, HistStep DEF CleanInv, HistInv
  <2>2. histPc \notin {"series", "empty", "failed"}
    BY <1>1 DEF HistNext, FetchHistory, PageAnswered, RateLimited, PageFails, SeriesBuilt
  <2>3. cleanPc = "idle"
    BY <2>2 DEF CleanInv, CleanTypeOK
  <2>. QED  BY <1>1, <2>1, <2>3 DEF CleanInv, CleanTypeOK
<1>2. CASE Align
  <2>1. HistInv' /\ HistTypeOK' /\ histPc' = "series" /\ history' = history
    <3>1. [HistNext]_histVars
      BY <1>2 DEF Align
    <3>2. histPc' = "series" /\ history' = history
      BY <1>2 DEF Align, histVars
    <3>. QED  BY <3>1, <3>2, HistStep DEF CleanInv, HistInv
  <2>2. kept' \subseteq DOMAIN history /\ kept' \subseteq HistSlots
    BY <1>2 DEF Align, CleanInv, HistInv, HistTypeOK
  <2>3. cleanPc' \in {"hard", "insufficient"} /\ demanding' \subseteq HistSlots
    BY <1>2 DEF Align
  <2>. QED  BY <2>1, <2>2, <2>3 DEF CleanInv, CleanTypeOK
<1>3. CASE NoHistory
  <2>1. HistInv' /\ HistTypeOK'
    <3>1. [HistNext]_histVars
      BY <1>3 DEF NoHistory, histVars
    <3>. QED  BY <3>1, HistStep DEF CleanInv, HistInv
  <2>. QED  BY <1>3, <2>1 DEF NoHistory, CleanInv, CleanTypeOK
<1>4. CASE HardExclusions
  <2>1. UNCHANGED <<histPc, histPage, used, points, history, demanding>>
        /\ kept' = kept \ HardExcluded(kept) /\ cleanPc' \in {"ev", "insufficient"}
    BY <1>4 DEF HardExclusions
  <2>2. HistInv' /\ HistTypeOK'
    <3>1. [HistNext]_histVars
      BY <2>1 DEF histVars
    <3>. QED  BY <3>1, HistStep DEF CleanInv, HistInv
  <2>3. histPc = "series" /\ kept \subseteq DOMAIN history
    BY <1>4 DEF HardExclusions, CleanInv
  <2>4. OwnEnergyKept'
    BY <2>1, <2>3, HardExclusionsKeepOwn DEF OwnEnergyKept, CleanInv
  <2>. QED  BY <2>1, <2>2, <2>3, <2>4 DEF CleanInv, CleanTypeOK
<1>5. CASE DropEvBlocks
  BY <1>5, FewerRows DEF DropEvBlocks
<1>6. CASE DropOutliers
  BY <1>6, FewerRows DEF DropOutliers
<1>7. CASE DropFlatlines
  BY <1>7, FewerRows DEF DropFlatlines
<1>8. CASE QualityGate
  BY <1>8, FewerRows DEF QualityGate
<1>9. CASE TrainingOver
  <2>1. CleanInit'
    BY <1>9 DEF TrainingOver, HistInit, CleanInit
  <2>2. CleanInit' => CleanInv'
    BY CleanInitial, PTL
  <2>. QED  BY <2>1, <2>2
<1>10. CASE UNCHANGED cleanVars
  <2>1. [HistNext]_histVars
    BY <1>10 DEF cleanVars, histVars
  <2>2. HistInv' /\ HistTypeOK'
    BY <2>1, HistStep DEF CleanInv, HistInv
  <2>. QED  BY <1>10, <2>2 DEF cleanVars, CleanInv, CleanTypeOK, OwnEnergyKept
<1>. QED
  BY <1>1, <1>2, <1>3, <1>4, <1>5, <1>6, <1>7, <1>8, <1>9, <1>10 DEF CleanNext

LEMMA CleanInvariant == CleanSpec => []CleanInv
  BY CleanInitial, CleanStep, PTL DEF CleanSpec

(***************************************************************************)
(* Fetching and cleaning keep to their states.                             *)
(***************************************************************************)
THEOREM CleanTypeCorrect == CleanSpec => []CleanTypeOK
<1>1. CleanInv => CleanTypeOK
  BY DEF CleanInv
<1>. QED  BY <1>1, CleanInvariant, PTL

(***************************************************************************)
(* However the fetch and the cleaning of one training run follow those of  *)
(* another, the series trained on has the energy of its days.              *)
(***************************************************************************)
THEOREM TrainingKeepsEnergy == CleanSpec => []EnergyKept
<1>1. CleanInv => EnergyKept
  BY HistInvEnergy DEF CleanInv
<1>. QED  BY <1>1, CleanInvariant, PTL

(***************************************************************************)
(* Where physics has demand, a model learns from what a half-hour itself   *)
(* used: readings that include missing half-hours, and the zeros put in    *)
(* their place, are gone, whatever the later stages exclude.               *)
(***************************************************************************)
THEOREM TrainedOnOwnEnergy == CleanSpec => []OwnEnergyTrained
<1>1. CleanInv => OwnEnergyTrained
  BY DEF CleanInv, OwnEnergyTrained, OwnEnergyKept
<1>. QED  BY <1>1, CleanInvariant, PTL
=============================================================================
