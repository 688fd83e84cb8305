---------------------------- MODULE Rates_proofs ----------------------------
(***************************************************************************)
(* The tariffs and their rates: a planning run asks for the rates of the   *)
(* tariff in force, the standing charge of a month is right to within a    *)
(* day per charge, a daily tariff has the same rates in every day of the   *)
(* slot grid, and a month is replayed at the rates in force.  All of it    *)
(* for any agreements, charges and rates, and any length of a day and of a *)
(* month.                                                                  *)
(***************************************************************************)
EXTENDS OctopusTariffs, StandingCharges, RateSlots, RateReplay,
        IntegerLemmas
LOCAL INSTANCE FiniteSetsExt

-----------------------------------------------------------------------------
(***************************************************************************)
(* The tariff in force.                                                    *)
(***************************************************************************)

Kinds == {"import", "export"}
Requests == [pc : {"idle", "call", "account", "answer"}, stage : 1 .. 3,
             called : 0 .. MaxTick, code : AllCodes]

(***************************************************************************)
(* The code a request uses, named for its kind.                            *)
(***************************************************************************)
KindOf(r) == IF Stages[r.stage] = "export" THEN "export" ELSE "import"

(***************************************************************************)
(* What the cache holds is what held when it was resolved, and it is asked *)
(* for again by the end of the agreements it was resolved to.              *)
(***************************************************************************)
CacheResolved ==
  /\ resolvedAt # Unset => resolvedAt \in 0 .. tick
  /\ resolvedAt # Unset => \A d \in Kinds : codes[d] = CodeAt(d = "export", resolvedAt)
  /\ resolvedAt # Unset => refreshAfter \in Nat
  /\ resolvedAt # Unset => \A e \in Boundaries(resolvedAt) : refreshAfter <= e

(***************************************************************************)
(* A run that awaits the account asked no later than now; one that awaits  *)
(* rates asked for those in force.                                         *)
(***************************************************************************)
AskedInForce(r) ==
  /\ r.pc \in {"account", "answer"} => r.called <= tick
  /\ r.pc = "answer" =>
       IF r.code # NoTariff THEN r.code = CodeAt(KindOf(r) = "export", r.called)
       ELSE \E t \in 0 .. r.called :
              r.called < t + Ttl /\ CodeAt(KindOf(r) = "export", t) = NoTariff

OctopusInv ==
  /\ OctopusTypeOK
  /\ CacheResolved
  /\ \A p \in Planners : AskedInForce(request[p])

-----------------------------------------------------------------------------
(***************************************************************************)
(* The code in force is one of the account, or none.                       *)
(***************************************************************************)
LEMMA CodeTyping ==
  ASSUME NEW export \in BOOLEAN, NEW t \in Int
  PROVE  CodeAt(export, t) \in AllCodes
<1>1. CASE Active(export, t) = {}
  BY <1>1 DEF CodeAt, AllCodes
<1>2. CASE Active(export, t) # {}
  <2>1. (CHOOSE a \in Active(export, t) : TRUE) \in Active(export, t)
    BY <1>2
  <2>2. (CHOOSE a \in Active(export, t) : TRUE) \in Agreements
    BY <2>1 DEF Active
  <2> QED
    BY <1>2, <2>2 DEF CodeAt, AllCodes
<1> QED
  BY <1>1, <1>2

(***************************************************************************)
(* As agreements do not overlap, the code in force is the one of any       *)
(* agreement that is active.                                               *)
(***************************************************************************)
LEMMA CodeOfActive ==
  ASSUME NEW export \in BOOLEAN, NEW t \in Int, NEW a \in Active(export, t)
  PROVE  CodeAt(export, t) = a.code
<1> DEFINE b == CHOOSE x \in Active(export, t) : TRUE
<1>1. b \in Active(export, t)
  OBVIOUS
<1>2. /\ a \in Agreements /\ a.export = export /\ a.from <= t /\ t < a.to
      /\ b \in Agreements /\ b.export = export /\ b.from <= t /\ t < b.to
  BY <1>1 DEF Active
<1>3. /\ a.from \in Nat /\ a.to \in Nat /\ b.from \in Nat /\ b.to \in Nat
  BY <1>2, OctopusAssumption
<1>4. a # b => a.to <= b.from \/ b.to <= a.from
  BY <1>2, OctopusAssumption
<1>5. a = b
  BY <1>2, <1>3, <1>4
<1>6. CodeAt(export, t) = b.code
  BY <1>1 DEF CodeAt
<1> QED
  BY <1>5, <1>6

(***************************************************************************)
(* A code resolved earlier is still in force before the end of the         *)
(* agreements it was resolved to.                                          *)
(***************************************************************************)
LEMMA StillInForce ==
  ASSUME NEW export \in BOOLEAN, NEW s \in 0 .. MaxTick, NEW t \in s .. MaxTick,
         CodeAt(export, s) # NoTariff,
         \A e \in Boundaries(s) : t < e
  PROVE  CodeAt(export, t) = CodeAt(export, s)
<1>1. s \in Int /\ t \in Int /\ s <= t /\ t <= MaxTick /\ MaxTick \in Nat
  BY OctopusAssumption
<1>2. Active(export, s) # {}
  BY DEF CodeAt
<1>3. PICK a : a \in Active(export, s)
  BY <1>2
<1>4. /\ a \in Agreements /\ a.export = export /\ a.from <= s /\ s < a.to
      /\ a.from \in Nat /\ a.to \in Nat
  BY <1>3, OctopusAssumption DEF Active
<1>5. t < a.to
  <2>1. CASE a.to = Open
    BY <1>1, <2>1 DEF Open
  <2>2. CASE a.to # Open
    <3>1. a \in Active(TRUE, s) \cup Active(FALSE, s)
      BY <1>3, export = TRUE \/ export = FALSE
    <3>2. a.to \in Boundaries(s)
      BY <2>2, <3>1 DEF Boundaries
    <3> QED
      BY <3>2
  <2> QED
    BY <2>1, <2>2
<1>6. a \in Active(export, t)
  BY <1>1, <1>4, <1>5 DEF Active
<1>7. CodeAt(export, s) = a.code
  BY <1>1, <1>3, CodeOfActive
<1>8. CodeAt(export, t) = a.code
  BY <1>1, <1>6, CodeOfActive
<1> QED
  BY <1>7, <1>8

(***************************************************************************)
(* The ends a resolution looks at lie after it, none beyond its time to    *)
(* live when it is taken for the least.                                    *)
(***************************************************************************)
LEMMA BoundariesAhead ==
  ASSUME NEW t \in 0 .. MaxTick
  PROVE  /\ t + Ttl \in Boundaries(t)
         /\ \A e \in Boundaries(t) : e \in Nat
<1>1. t + Ttl \in Nat
  BY OctopusAssumption
<1>2. \A a \in Active(TRUE, t) \cup Active(FALSE, t) : a.to \in Nat
  BY OctopusAssumption DEF Active
<1> QED
  BY <1>1, <1>2 DEF Boundaries

(***************************************************************************)
(* The cached code of a kind, used at a tick the cache holds for.          *)
(***************************************************************************)
LEMMA CachedInForce ==
  ASSUME OctopusInv, CacheHolds(tick), NEW d \in Kinds
  PROVE  IF codes[d] # NoTariff THEN codes[d] = CodeAt(d = "export", tick)
         ELSE \E t \in 0 .. tick : tick < t + Ttl /\ CodeAt(d = "export", t) = NoTariff
<1>1. tick \in 0 .. MaxTick /\ MaxTick \in Nat /\ Ttl \in Nat
  BY OctopusAssumption DEF OctopusInv, OctopusTypeOK
<1>2. resolvedAt # Unset /\ tick < resolvedAt + Ttl
  BY DEF CacheHolds
<1>3. /\ resolvedAt \in 0 .. tick
      /\ codes[d] = CodeAt(d = "export", resolvedAt)
      /\ refreshAfter \in Nat
      /\ \A e \in Boundaries(resolvedAt) : refreshAfter <= e
  BY <1>2 DEF OctopusInv, CacheResolved
<1>4. tick < refreshAfter
  BY <1>3 DEF CacheHolds, Unset
<1>5. resolvedAt \in 0 .. MaxTick /\ tick \in resolvedAt .. MaxTick
  BY <1>1, <1>3
<1>6. \A e \in Boundaries(resolvedAt) : tick < e
  <2>1. \A e \in Boundaries(resolvedAt) : e \in Nat
    BY <1>5, BoundariesAhead
  <2> QED
    BY <1>1, <1>3, <1>4, <2>1
<1>7. (d = "export") \in BOOLEAN
  OBVIOUS
<1>8. CASE codes[d] # NoTariff
  <2>1. CodeAt(d = "export", resolvedAt) # NoTariff
    BY <1>3, <1>8
  <2>2. CodeAt(d = "export", tick) = CodeAt(d = "export", resolvedAt)
    BY <1>5, <1>6, <1>7, <2>1, StillInForce
  <2> QED
    BY <1>3, <1>8, <2>2
<1>9. CASE codes[d] = NoTariff
  BY <1>2, <1>3, <1>9
<1> QED
  BY <1>8, <1>9

(***************************************************************************)
(* The two ways to name the code of a request agree.                       *)
(***************************************************************************)
LEMMA KindNamed ==
  ASSUME NEW r, NEW c
  PROVE  /\ KindOf(r) \in Kinds
         /\ CodeFor(r, c) = c[KindOf(r)]
         /\ (KindOf(r) = "export") = (Stages[r.stage] = "export")
BY DEF KindOf, CodeFor, Kinds

(***************************************************************************)
(* An answer about the account leaves a cache resolved at the tick it was  *)
(* asked for.                                                              *)
(***************************************************************************)
LEMMA ResolveResolves ==
  ASSUME OctopusInv, NEW t \in 0 .. tick, Resolve(t), tick' = tick
  PROVE  /\ codes' \in [Kinds -> AllCodes]
         /\ resolvedAt' \in Unset .. MaxTick /\ refreshAfter' \in Unset .. MaxTick + Ttl
         /\ CacheResolved'
<1>1. tick \in 0 .. MaxTick /\ MaxTick \in Nat /\ Ttl \in Nat
  BY OctopusAssumption DEF OctopusInv, OctopusTypeOK
<1>2. t \in 0 .. MaxTick /\ t \in Int
  BY <1>1
<1>3. t + Ttl \in Boundaries(t) /\ \A e \in Boundaries(t) : e \in Nat
  BY <1>2, BoundariesAhead
<1>4. \A d \in Kinds : (d = "export") \in BOOLEAN
  OBVIOUS
<1>5. codes' = [d \in Kinds |-> CodeAt(d = "export", t)]
  BY DEF Resolve, Kinds
<1>6. codes' \in [Kinds -> AllCodes]
  <2>1. \A d \in Kinds : CodeAt(d = "export", t) \in AllCodes
    BY <1>2, <1>4, CodeTyping
  <2> QED
    BY <1>5, <2>1
<1>7. /\ resolvedAt' = t /\ refreshAfter' \in Nat
      /\ \A e \in Boundaries(t) : refreshAfter' <= e
  BY <1>3 DEF Resolve
<1>8. refreshAfter' <= t + Ttl
  BY <1>3, <1>7
<1>9. resolvedAt' \in Unset .. MaxTick /\ refreshAfter' \in Unset .. MaxTick + Ttl
  BY <1>1, <1>2, <1>7, <1>8 DEF Unset
<1>10. \A d \in Kinds : codes'[d] = CodeAt(d = "export", resolvedAt')
  BY <1>5, <1>7
<1>11. \A e \in Boundaries(resolvedAt') : refreshAfter' <= e
  BY <1>7
<1>12. resolvedAt' \in 0 .. tick'
  BY <1>7
<1>13. CacheResolved'
  BY <1>7, <1>10, <1>11, <1>12 DEF CacheResolved
<1> QED
  BY <1>6, <1>9, <1>13

(***************************************************************************)
(* A step of one run that leaves the cache and the clock.                  *)
(***************************************************************************)
LEMMA RequestMoves ==
  ASSUME OctopusInv, NEW p \in Planners, NEW r \in Requests, AskedInForce(r),
         request' = [request EXCEPT ![p] = r],
         UNCHANGED <<tick, codes, resolvedAt, refreshAfter>>
  PROVE  OctopusInv'
<1>1. request \in [Planners -> Requests] /\ request' \in [Planners -> Requests]
  BY DEF OctopusInv, OctopusTypeOK, Requests
<1>2. OctopusTypeOK'
  BY <1>1 DEF OctopusInv, OctopusTypeOK, Requests
<1>3. CacheResolved'
  BY DEF OctopusInv, CacheResolved
<1>4. ASSUME NEW q \in Planners PROVE AskedInForce(request[q])'
  <2>1. AskedInForce(request'[q])
    BY <1>1 DEF OctopusInv
  <2> QED
    BY <2>1 DEF AskedInForce
<1> QED
  BY <1>2, <1>3, <1>4 DEF OctopusInv

-----------------------------------------------------------------------------
LEMMA OctopusInvInit == OctopusInit => OctopusInv
<1> SUFFICES ASSUME OctopusInit PROVE OctopusInv
  OBVIOUS
<1>1. 0 \in 0 .. MaxTick /\ MaxTick \in Nat /\ Ttl \in Nat
  BY OctopusAssumption
<1>2. AtRest \in Requests
  BY <1>1 DEF AtRest, Requests, AllCodes
<1>3. OctopusTypeOK
  BY <1>1, <1>2 DEF OctopusInit, OctopusTypeOK, Requests, AllCodes, Unset
<1>4. CacheResolved
  BY DEF OctopusInit, CacheResolved
<1>5. AskedInForce(AtRest)
  BY DEF AskedInForce, AtRest
<1> QED
  BY <1>3, <1>4, <1>5 DEF OctopusInit, OctopusInv

LEMMA OctopusInvStep == OctopusInv /\ [OctopusNext]_tariffVars => OctopusInv'
<1> SUFFICES ASSUME OctopusInv, [OctopusNext]_tariffVars PROVE OctopusInv'
  OBVIOUS
<1>1. /\ tick \in 0 .. MaxTick /\ MaxTick \in Nat /\ Ttl \in Nat /\ 0 \in 0 .. MaxTick
      /\ codes \in [Kinds -> AllCodes]
      /\ request \in [Planners -> Requests]
      /\ NoTariff \in AllCodes
  BY OctopusAssumption DEF OctopusInv, OctopusTypeOK, Kinds, Requests, AllCodes
<1>2. \A n \in 1 .. 3 : [AtRest EXCEPT !.pc = "call", !.stage = n] \in Requests
  BY <1>1 DEF AtRest, Requests
<1>3. AtRest \in Requests /\ [AtRest EXCEPT !.pc = "call"] \in Requests
  BY <1>1 DEF AtRest, Requests
<1>4. ASSUME NEW p \in Planners, PlanningRun(p) PROVE OctopusInv'
  <2>1. AskedInForce([AtRest EXCEPT !.pc = "call"])
    BY DEF AskedInForce, AtRest
  <2> QED
    BY <1>3, <1>4, <2>1, RequestMoves DEF PlanningRun
<1>5. ASSUME NEW p \in Planners, CachedCode(p) PROVE OctopusInv'
  <2> DEFINE c == CodeFor(request[p], codes)
             r == [request[p] EXCEPT !.pc = "answer", !.called = tick, !.code = c]
  <2>1. request[p] \in Requests
    BY <1>1
  <2>2. KindOf(request[p]) \in Kinds /\ c = codes[KindOf(request[p])]
    BY KindNamed
  <2>3. c \in AllCodes
    BY <1>1, <2>2
  <2>4. r \in Requests
    BY <1>1, <2>1, <2>3 DEF Requests
  <2>5. r.called = tick /\ r.code = c /\ KindOf(r) = KindOf(request[p])
    BY <2>1 DEF KindOf, Requests
  <2>6. IF c # NoTariff THEN c = CodeAt(KindOf(request[p]) = "export", tick)
        ELSE \E t \in 0 .. tick : tick < t + Ttl
                                  /\ CodeAt(KindOf(request[p]) = "export", t) = NoTariff
    BY <1>5, <2>2, CachedInForce DEF CachedCode
  <2>7. AskedInForce(r)
    BY <1>1, <2>5, <2>6 DEF AskedInForce
  <2>8. request' = [request EXCEPT ![p] = r]
    BY <1>5 DEF CachedCode
  <2> HIDE DEF r
  <2> QED
    BY <1>5, <2>4, <2>7, <2>8, RequestMoves DEF CachedCode
<1>6. ASSUME NEW p \in Planners, AskAccount(p) PROVE OctopusInv'
  <2> DEFINE r == [request[p] EXCEPT !.pc = "account", !.called = tick]
  <2>1. r \in Requests /\ r.pc = "account" /\ r.called = tick
    BY <1>1 DEF Requests
  <2>2. request' = [request EXCEPT ![p] = r]
    BY <1>6 DEF AskAccount
  <2> HIDE DEF r
  <2>3. AskedInForce(r)
    BY <1>1, <2>1 DEF AskedInForce
  <2> QED
    BY <1>6, <2>1, <2>2, <2>3, RequestMoves DEF AskAccount
<1>7. ASSUME NEW p \in Planners, AccountAnswered(p) PROVE OctopusInv'
  <2> DEFINE t == request[p].called
             c == CodeFor(request[p], codes')
             r == [request[p] EXCEPT !.pc = "answer", !.code = c]
  <2>1. request[p] \in Requests
    BY <1>1
  <2>2. t \in 0 .. MaxTick /\ t <= tick
    BY <1>7, <2>1 DEF AccountAnswered, OctopusInv, AskedInForce, Requests
  <2>3. t \in 0 .. tick /\ t \in Int
    BY <1>1, <2>2
  <2>4. tick' = tick /\ Resolve(t) /\ request' = [request EXCEPT ![p] = r]
    BY <1>7 DEF AccountAnswered
  <2>5. /\ codes' \in [Kinds -> AllCodes]
        /\ resolvedAt' \in Unset .. MaxTick /\ refreshAfter' \in Unset .. MaxTick + Ttl
        /\ CacheResolved'
    <3> HIDE DEF t
    <3> QED
      BY <2>3, <2>4, ResolveResolves
  <2>6. KindOf(request[p]) \in Kinds /\ c = codes'[KindOf(request[p])]
    BY KindNamed
  <2>7. c = CodeAt(KindOf(request[p]) = "export", t)
    BY <2>4, <2>6 DEF Resolve, Kinds
  <2>8. c \in AllCodes
    BY <2>5, <2>6
  <2>9. r \in Requests
    BY <2>1, <2>8 DEF Requests
  <2>10. r.pc = "answer" /\ r.called = t /\ r.code = c /\ KindOf(r) = KindOf(request[p])
    BY <2>1 DEF KindOf, Requests
  <2>11. AskedInForce(r)
    <3> HIDE DEF r
    <3>1. CASE c # NoTariff
      BY <2>2, <2>7, <2>10, <3>1 DEF AskedInForce
    <3>2. CASE c = NoTariff
      <4>1. t < t + Ttl /\ t \in 0 .. t
        BY <2>2, OctopusAssumption
      <4>2. CodeAt(KindOf(r) = "export", t) = NoTariff
        BY <2>7, <2>10, <3>2
      <4> HIDE DEF t, c
      <4> QED
        BY <2>2, <2>10, <3>2, <4>1, <4>2 DEF AskedInForce
    <3> QED
      BY <3>1, <3>2
  <2> HIDE DEF r
  <2>12. request' \in [Planners -> Requests]
    BY <1>1, <2>4, <2>9
  <2>13. OctopusTypeOK'
    BY <2>4, <2>5, <2>12 DEF OctopusInv, OctopusTypeOK, Requests, Kinds
  <2>14. ASSUME NEW q \in Planners PROVE AskedInForce(request[q])'
    <3>1. AskedInForce(request'[q])
      BY <1>1, <2>4, <2>11 DEF OctopusInv
    <3> QED
      BY <2>4, <3>1 DEF AskedInForce
  <2> QED
    BY <2>5, <2>13, <2>14 DEF OctopusInv
<1>8. ASSUME NEW p \in Planners, RatesAnswered(p) PROVE OctopusInv'
  <2> DEFINE r == IF request[p].stage = 3 THEN AtRest
                  ELSE [AtRest EXCEPT !.pc = "call", !.stage = request[p].stage + 1]
  <2>1. request[p].stage \in 1 .. 3
    BY <1>1 DEF Requests
  <2>2. r \in Requests
    <3>1. CASE request[p].stage = 3
      BY <1>3, <3>1
    <3>2. CASE request[p].stage # 3
      <4>1. request[p].stage + 1 \in 1 .. 3
        BY <2>1, <3>2
      <4>2. [AtRest EXCEPT !.pc = "call", !.stage = request[p].stage + 1] \in Requests
        BY <1>2, <4>1
      <4> QED
        BY <3>2, <4>2
    <3> QED
      BY <3>1, <3>2
  <2>3. AskedInForce(r)
    BY DEF AskedInForce, AtRest
  <2>4. request' = [request EXCEPT ![p] = r]
    BY <1>8 DEF RatesAnswered
  <2> HIDE DEF r
  <2> QED
    BY <1>8, <2>2, <2>3, <2>4, RequestMoves DEF RatesAnswered
<1>9. ASSUME NEW p \in Planners, PlanningFails(p) PROVE OctopusInv'
  <2>1. AskedInForce(AtRest)
    BY DEF AskedInForce, AtRest
  <2> QED
    BY <1>3, <1>9, <2>1, RequestMoves DEF PlanningFails
<1>10. CASE TimePasses
  <2>1. tick' \in 0 .. MaxTick /\ tick <= tick'
    BY <1>1, <1>10 DEF TimePasses
  <2>2. OctopusTypeOK'
    BY <1>10, <2>1 DEF TimePasses, OctopusInv, OctopusTypeOK
  <2>3. resolvedAt # Unset => resolvedAt \in 0 .. tick'
    BY <1>1, <2>1 DEF OctopusInv, CacheResolved
  <2>4. CacheResolved'
    BY <1>10, <2>3 DEF TimePasses, OctopusInv, CacheResolved
  <2>5. ASSUME NEW q \in Planners PROVE AskedInForce(request[q])'
    <3>1. request[q].called \in 0 .. MaxTick
      BY <1>1 DEF Requests
    <3>2. AskedInForce(request[q])
      BY DEF OctopusInv
    <3> QED
      BY <1>1, <1>10, <2>1, <3>1, <3>2 DEF TimePasses, AskedInForce
  <2> QED
    BY <2>2, <2>4, <2>5 DEF OctopusInv
<1>11. CASE UNCHANGED tariffVars
  BY <1>11 DEF tariffVars, OctopusInv, OctopusTypeOK, CacheResolved, AskedInForce
<1> QED
  BY <1>4, <1>5, <1>6, <1>7, <1>8, <1>9, <1>10, <1>11 DEF OctopusNext

LEMMA OctopusInvHolds == OctopusSpec => []OctopusInv
<1> QED
  BY OctopusInvInit, OctopusInvStep, PTL DEF OctopusSpec

(***************************************************************************)
(* The cache, the clock and every request keep their types.                *)
(***************************************************************************)
THEOREM OctopusTyping == OctopusSpec => []OctopusTypeOK
<1>1. OctopusInv => OctopusTypeOK
  BY DEF OctopusInv
<1> QED
  BY <1>1, OctopusInvHolds, PTL

(***************************************************************************)
(* Whatever runs overlap and however late an answer fills the cache, rates *)
(* are asked for the tariff in force, or for none only when there was none *)
(* within the time to live before.                                         *)
(***************************************************************************)
THEOREM RunsUseTariffInForce == OctopusSpec => []TariffInForce
<1>1. OctopusInv => TariffInForce
  <2> SUFFICES ASSUME OctopusInv PROVE TariffInForce
    OBVIOUS
  <2>1. \A p \in Planners : AskedInForce(request[p])
    BY DEF OctopusInv
  <2>2. \A r : (KindOf(r) = "export") = (Stages[r.stage] = "export")
    BY DEF KindOf
  <2> QED
    BY <2>1, <2>2 DEF TariffInForce, AskedInForce
<1> QED
  BY <1>1, OctopusInvHolds, PTL

-----------------------------------------------------------------------------
(***************************************************************************)
(* The standing charge of a month.                                         *)
(***************************************************************************)

(***************************************************************************)
(* What timedelta.days keeps of a span, and what it drops.                 *)
(***************************************************************************)
LEMMA WholeDays ==
  ASSUME NEW x \in Nat
  PROVE  /\ x \div DayTicks \in Nat
         /\ (x \div DayTicks) * DayTicks <= x
         /\ x - (x \div DayTicks) * DayTicks <= DayTicks - 1
  BY StandingAssumption, Z3

(***************************************************************************)
(* One charge counts whole days of its part of the month, less than a day  *)
(* short of it.                                                            *)
(***************************************************************************)
LEMMA OneCharge ==
  ASSUME NEW from \in Int, NEW to \in Int,
         NEW span \in Int, span = Later(Earlier(to, MonthEnd) - Later(from, 0), 0)
  PROVE  /\ DaysActive(from, to) \in Nat
         /\ DaysActive(from, to) * DayTicks <= span
         /\ span - DaysActive(from, to) * DayTicks <= DayTicks - 1
<1>1. MonthEnd \in Nat
  BY StandingAssumption DEF MonthEnd
<1>2. DayTicks \in Nat \ {0}
  BY StandingAssumption
<1>3. CASE Later(from, 0) >= Earlier(to, MonthEnd)
  <2>1. DaysActive(from, to) = 0
    BY <1>3 DEF DaysActive
  <2>2. span = 0
    BY <1>1, <1>3 DEF Later, Earlier
  <2> QED BY <2>1, <2>2, <1>2
<1>4. CASE ~(Later(from, 0) >= Earlier(to, MonthEnd))
  <2>1. span \in Nat /\ span = Earlier(to, MonthEnd) - Later(from, 0)
    BY <1>1, <1>4 DEF Later, Earlier
  <2>2. DaysActive(from, to) = span \div DayTicks
    BY <1>4, <2>1 DEF DaysActive
  <2> QED BY <2>1, <2>2, WholeDays
<1> QED BY <1>3, <1>4

(***************************************************************************)
(* The charges added so far are the ones from firstFrom up to nextFrom.    *)
(***************************************************************************)
StandingInv ==
  /\ StandingTypeOK
  /\ DaysChargedOnce
  /\ firstFrom <= nextFrom
  /\ entries = 0 => daysCharged = 0 /\ nextFrom = firstFrom

LEMMA StandingInitial == StandingInit => StandingInv
<1> SUFFICES ASSUME StandingInit PROVE StandingInv
  OBVIOUS
<1>1. MonthEnd \in Nat \ {0}
  BY StandingAssumption DEF MonthEnd
<1>2. InForce = 0
  BY <1>1 DEF StandingInit, InForce, Later, Earlier
<1>3. DayTicks \in Nat \ {0}
  BY StandingAssumption
<1> QED BY <1>1, <1>2, <1>3 DEF StandingInit, StandingInv, StandingTypeOK, DaysChargedOnce, AfterMonth

(***************************************************************************)
(* Charges that follow each other: the part in the month of the ones so    *)
(* far and of the one added make up the part of all of them.               *)
(***************************************************************************)
LEMMA InForceAdds ==
  ASSUME NEW a \in Int, NEW b \in Int, NEW c \in Int, NEW m \in Nat, a <= b, b < c, b < m, a < m
  PROVE  Later(Earlier(c, m) - Later(a, 0), 0)
           = Later(Earlier(b, m) - Later(a, 0), 0) + Later(Earlier(c, m) - Later(b, 0), 0)
  BY DEF Later, Earlier

(***************************************************************************)
(* A charge that ends before the month is charged for none of it.          *)
(***************************************************************************)
LEMMA NoneInForce ==
  ASSUME NEW a \in Int, NEW m \in Nat, a <= m
  PROVE  Later(Earlier(a, m) - Later(a, 0), 0) = 0
  BY DEF Later, Earlier

LEMMA StandingStep == StandingInv /\ [StandingNext]_standingVars => StandingInv'
<1> SUFFICES ASSUME StandingInv, [StandingNext]_standingVars PROVE StandingInv'
  OBVIOUS
<1>1. MonthEnd \in Nat \ {0} /\ AfterMonth = MonthEnd + 1
  BY StandingAssumption DEF MonthEnd, AfterMonth
<1>2. DayTicks \in Nat \ {0}
  BY StandingAssumption
<1>3. CASE ChargesFetched
  <2>1. entries' = 0 /\ daysCharged' = 0 /\ firstFrom' = nextFrom' /\ firstFrom' \in -1 .. MonthEnd - 1
    BY <1>1, <1>3 DEF ChargesFetched, StandingInv
  <2>2. InForce' = 0
    BY <1>1, <2>1, NoneInForce DEF InForce
  <2>3. DaysChargedOnce'
    BY <1>2, <2>1, <2>2 DEF DaysChargedOnce
  <2>4. StandingTypeOK'
    BY <1>1, <2>1 DEF StandingTypeOK
  <2> QED BY <1>1, <2>1, <2>3, <2>4 DEF StandingInv
<1>4. CASE ChargeAdded
  <2>1. PICK to \in nextFrom + 1 .. AfterMonth :
          daysCharged' = daysCharged + DaysActive(nextFrom, to) /\ nextFrom' = to
    BY <1>4 DEF ChargeAdded
  <2>2. /\ firstFrom \in Int /\ nextFrom \in Int /\ to \in Int /\ nextFrom < to
        /\ firstFrom <= nextFrom /\ nextFrom < MonthEnd /\ firstFrom < MonthEnd
    BY <1>1, <1>4 DEF StandingInv, StandingTypeOK, ChargeAdded
  <2> DEFINE days == DaysActive(nextFrom, to)
             span == Later(Earlier(to, MonthEnd) - Later(nextFrom, 0), 0)
  <2>3. span \in Nat
    BY <1>1, <2>2 DEF Later, Earlier
  <2>4. days \in Nat /\ days * DayTicks <= span /\ span - days * DayTicks <= DayTicks - 1
    BY <2>2, <2>3, OneCharge
  <2>5. InForce' = InForce + span
    BY <1>1, <1>4, <2>1, <2>2, InForceAdds DEF InForce, ChargeAdded
  <2>6. InForce \in Nat
    BY <1>1, <2>2 DEF InForce, Later, Earlier
  <2>7. daysCharged \in Nat /\ entries \in Nat /\ entries' = entries + 1 /\ daysCharged' = daysCharged + days
    BY <1>4, <2>1 DEF StandingInv, StandingTypeOK, ChargeAdded
  <2> HIDE DEF days, span
  <2>8. daysCharged' * DayTicks = daysCharged * DayTicks + days * DayTicks
    BY <1>2, <2>4, <2>7
  <2>9. entries' * (DayTicks - 1) = entries * (DayTicks - 1) + (DayTicks - 1)
    BY <1>2, <2>7
  <2>10. DaysChargedOnce'
    <3>1. /\ daysCharged * DayTicks \in Int /\ days * DayTicks \in Int
          /\ entries * (DayTicks - 1) \in Int /\ DayTicks - 1 \in Int
      BY <1>2, <2>4, <2>7
    <3>2. /\ daysCharged * DayTicks <= InForce
          /\ InForce - daysCharged * DayTicks <= entries * (DayTicks - 1)
      BY DEF StandingInv, DaysChargedOnce
    <3> DEFINE dc == daysCharged * DayTicks
               da == days * DayTicks
               en == entries * (DayTicks - 1)
               lo == DayTicks - 1
    <3>3. /\ dc \in Int /\ da \in Int /\ en \in Int /\ lo \in Int
          /\ dc <= InForce /\ InForce - dc <= en /\ da <= span /\ span - da <= lo
      BY <3>1, <3>2, <2>4
    <3>4. daysCharged' * DayTicks = dc + da /\ entries' * (DayTicks - 1) = en + lo
      BY <2>8, <2>9
    <3> HIDE DEF dc, da, en, lo
    <3>5. dc + da <= InForce + span /\ InForce + span - (dc + da) <= en + lo
      BY <2>3, <2>6, <3>3
    <3>6. daysCharged' * DayTicks <= InForce'
      BY <2>5, <3>4, <3>5
    <3>7. InForce' - daysCharged' * DayTicks <= entries' * (DayTicks - 1)
      BY <2>3, <2>5, <2>6, <3>3, <3>4, <3>5
    <3> QED BY <3>6, <3>7 DEF DaysChargedOnce
  <2>11. StandingTypeOK'
    BY <1>1, <1>4, <2>1, <2>2, <2>4, <2>7 DEF StandingInv, StandingTypeOK, ChargeAdded
  <2>12. firstFrom' <= nextFrom' /\ entries' # 0
    BY <1>4, <2>1, <2>2, <2>7 DEF ChargeAdded
  <2> QED BY <2>10, <2>11, <2>12 DEF StandingInv
<1>5. CASE MonthCharged
  <2>1. entries' = 0 /\ daysCharged' = 0 /\ firstFrom' = nextFrom' /\ firstFrom' \in -1 .. MonthEnd - 1
    BY <1>1, <1>5 DEF MonthCharged, StandingInv
  <2>2. InForce' = 0
    BY <1>1, <2>1, NoneInForce DEF InForce
  <2>3. DaysChargedOnce'
    BY <1>2, <2>1, <2>2 DEF DaysChargedOnce
  <2>4. StandingTypeOK'
    BY <1>1, <2>1 DEF StandingTypeOK
  <2> QED BY <1>1, <2>1, <2>3, <2>4 DEF StandingInv
<1>6. CASE UNCHANGED standingVars
  BY <1>6 DEF standingVars, StandingInv, StandingTypeOK, DaysChargedOnce, InForce
<1> QED BY <1>3, <1>4, <1>5, <1>6 DEF StandingNext

(***************************************************************************)
(* Every month is charged for whole days of the charges in force, none of  *)
(* them twice, and lacks less than one day for each charge.                *)
(***************************************************************************)
THEOREM MonthChargedOnce == StandingSpec => []DaysChargedOnce
<1>1. StandingInv => DaysChargedOnce
  BY DEF StandingInv
<1> QED BY <1>1, StandingInitial, StandingStep, PTL DEF StandingSpec

(***************************************************************************)
(* The charges and the days charged stay within the month and what follows *)
(* it.                                                                     *)
(***************************************************************************)
THEOREM StandingTyping == StandingSpec => []StandingTypeOK
<1>1. StandingInv => StandingTypeOK
  BY DEF StandingInv
<1> QED BY <1>1, StandingInitial, StandingStep, PTL DEF StandingSpec

-----------------------------------------------------------------------------
(***************************************************************************)
(* The slot grid of a daily tariff.                                        *)
(***************************************************************************)

(***************************************************************************)
(* A time of day is one, and multiples of a day keep their order.          *)
(***************************************************************************)
LEMMA TodType ==
    ASSUME NEW t \in Int
    PROVE  /\ Tod(t) \in 0 .. DayLen - 1
           /\ \E q \in Int : t = DayLen * q + Tod(t)
<1>1. DayLen \in Nat \ {0}
  BY RateSlotsAssumption
<1>2. /\ t \div DayLen \in Int /\ (t % DayLen) \in 0 .. DayLen - 1
      /\ t = DayLen * (t \div DayLen) + (t % DayLen)
  BY <1>1, Division
<1>. QED  BY <1>2 DEF Tod

(***************************************************************************)
(* A time that is some days and a part of a day after midnight has that    *)
(* part as its time of day.                                                *)
(***************************************************************************)
LEMMA TodUnique ==
    ASSUME NEW q \in Int, NEW d \in 0 .. DayLen - 1
    PROVE  DayLen * q + d \in Int /\ Tod(DayLen * q + d) = d
<1>1. DayLen \in Nat \ {0}
  BY RateSlotsAssumption
<1>2. (DayLen * q + d) % DayLen = d
  BY <1>1, DivisionUnique
<1>3. DayLen * q + d \in Int
  BY <1>1
<1>. QED  BY <1>2, <1>3 DEF Tod

(***************************************************************************)
(* Different days are a day apart at least.                                *)
(***************************************************************************)
LEMMA DaysApart ==
    ASSUME NEW q \in Int, NEW m \in Int, q < m
    PROVE  DayLen * q \in Int /\ DayLen * m \in Int /\ DayLen * q + DayLen <= DayLen * m
<1>1. DayLen \in Nat \ {0}
  BY RateSlotsAssumption
<1>2. m - q - 1 \in Nat
  OBVIOUS
<1>3. DayLen * (m - q - 1) \in Nat
  BY <1>1, <1>2
<1>4. DayLen * (m - q - 1) = DayLen * m - DayLen * q - DayLen
  BY <1>1, Z3
<1>5. DayLen * q \in Int /\ DayLen * m \in Int
  BY <1>1
<1>. QED  BY <1>1, <1>3, <1>4, <1>5

(***************************************************************************)
(* Two times written as a day and a time of day: what their order says of  *)
(* the days.                                                               *)
(***************************************************************************)
LEMMA DayOrder ==
    ASSUME NEW q \in Int, NEW m \in Int,
           NEW c \in 0 .. DayLen - 1, NEW d \in 0 .. DayLen - 1
    PROVE  /\ DayLen * q + c <= DayLen * m + d => q <= m
           /\ q < m => DayLen * q + c < DayLen * m + d
           /\ DayLen * m + d < DayLen * q + c + DayLen => m <= q + 1
           /\ DayLen * m + d < DayLen * q + c + DayLen /\ c <= d => m <= q
<1>1. DayLen \in Nat /\ DayLen * q \in Int /\ DayLen * m \in Int
  BY RateSlotsAssumption
<1>2. m < q => DayLen * m + DayLen <= DayLen * q
  BY DaysApart
<1>3. q < m => DayLen * q + DayLen <= DayLen * m
  BY DaysApart
<1>4. q + 1 < m => DayLen * (q + 1) + DayLen <= DayLen * m
  BY DaysApart
<1>5. DayLen * (q + 1) = DayLen * q + DayLen
  BY <1>1, Z3
<1>. DEFINE Q == DayLen * q
            M == DayLen * m
<1>6. Q \in Int /\ M \in Int
  BY <1>1
<1>7. /\ m < q => M + DayLen <= Q
      /\ q < m => Q + DayLen <= M
      /\ q + 1 < m => Q + DayLen + DayLen <= M
  BY <1>2, <1>3, <1>4, <1>5
<1>. HIDE DEF Q, M
<1>8. /\ Q + c <= M + d => q <= m
      /\ q < m => Q + c < M + d
      /\ M + d < Q + c + DayLen => m <= q + 1
      /\ M + d < Q + c + DayLen /\ c <= d => m <= q
  BY <1>1, <1>6, <1>7
<1>. QED  BY <1>8 DEF Q, M

(***************************************************************************)
(* What a band is.                                                         *)
(***************************************************************************)
At(rates, t) == rates[Tod(t)]

RatedFrom(rates, a, b, s, e) ==
  /\ s \in a .. b - 1 /\ e \in a + 1 .. b /\ s < e
  /\ \A t \in s .. e - 1 : At(rates, t) = At(rates, s)
  /\ s = a \/ At(rates, s - 1) # At(rates, s)
  /\ e = b \/ At(rates, e) # At(rates, s)

(***************************************************************************)
(* A band of a daily tariff, by its ends, and the other way round.         *)
(***************************************************************************)
LEMMA BandIs ==
    ASSUME NEW rates, NEW a \in Int, NEW b \in Int
    PROVE  /\ \A r \in BandsOf(rates, a, b) :
                /\ RatedFrom(rates, a, b, r.start, r.end) /\ r.rate = At(rates, r.start)
                /\ r = [start |-> r.start, end |-> r.end, rate |-> r.rate]
           /\ \A s, e : RatedFrom(rates, a, b, s, e) =>
                [start |-> s, end |-> e, rate |-> At(rates, s)] \in BandsOf(rates, a, b)
<1>. DEFINE pairs == {q \in (a .. b - 1) \X (a + 1 .. b) :
                 /\ q[1] < q[2]
                 /\ \A t \in q[1] .. q[2] - 1 : rates[Tod(t)] = rates[Tod(q[1])]
                 /\ q[1] = a \/ rates[Tod(q[1] - 1)] # rates[Tod(q[1])]
                 /\ q[2] = b \/ rates[Tod(q[2])] # rates[Tod(q[1])]}
<1>1. BandsOf(rates, a, b) =
        {[start |-> p[1], end |-> p[2], rate |-> rates[Tod(p[1])]] : p \in pairs}
  BY DEF BandsOf
<1>2. ASSUME NEW p \in pairs  PROVE RatedFrom(rates, a, b, p[1], p[2])
  BY DEF RatedFrom, At
<1>3. ASSUME NEW s, NEW e, RatedFrom(rates, a, b, s, e)  PROVE <<s, e>> \in pairs
  BY <1>3 DEF RatedFrom, At
<1>. HIDE DEF pairs
<1>4. ASSUME NEW r \in BandsOf(rates, a, b)
      PROVE  /\ RatedFrom(rates, a, b, r.start, r.end) /\ r.rate = At(rates, r.start)
             /\ r = [start |-> r.start, end |-> r.end, rate |-> r.rate]
  <2>1. PICK p \in pairs : r = [start |-> p[1], end |-> p[2], rate |-> rates[Tod(p[1])]]
    BY <1>1
  <2>2. r.start = p[1] /\ r.end = p[2] /\ r.rate = rates[Tod(p[1])]
    BY <2>1
  <2>. QED  BY <1>2, <2>1, <2>2 DEF At
<1>5. ASSUME NEW s, NEW e, RatedFrom(rates, a, b, s, e)
      PROVE  [start |-> s, end |-> e, rate |-> At(rates, s)] \in BandsOf(rates, a, b)
  <2>1. <<s, e>> \in pairs /\ <<s, e>>[1] = s /\ <<s, e>>[2] = e
    BY <1>3, <1>5
  <2>. QED  BY <1>1, <2>1 DEF At
<1>. QED  BY <1>4, <1>5

(***************************************************************************)
(* Within a band the tariff has the rate of the band.                      *)
(***************************************************************************)
LEMMA BandKeepsRate ==
    ASSUME NEW rates, NEW a \in Int, NEW b \in Int, NEW r \in BandsOf(rates, a, b)
    PROVE  /\ r.start \in Int /\ r.end \in Int /\ a <= r.start /\ r.start < r.end /\ r.end <= b
           /\ \A t \in Int : r.start <= t /\ t < r.end => r.rate = At(rates, t)
<1>1. RatedFrom(rates, a, b, r.start, r.end) /\ r.rate = At(rates, r.start)
  BY BandIs
<1>2. r.start \in Int /\ r.end \in Int /\ a <= r.start /\ r.start < r.end /\ r.end <= b
  BY <1>1 DEF RatedFrom
<1>3. ASSUME NEW t \in Int, r.start <= t, t < r.end  PROVE r.rate = At(rates, t)
  <2>1. t \in r.start .. r.end - 1
    BY <1>2, <1>3
  <2>. QED  BY <1>1, <2>1 DEF RatedFrom
<1>. QED  BY <1>2, <1>3

(***************************************************************************)
(* Every half-hour of the answer is in a band: the longest stretch around  *)
(* it with one rate.                                                       *)
(***************************************************************************)
LEMMA CoveringBand ==
    ASSUME NEW rates, NEW a \in Int, NEW b \in Int, NEW t \in a .. b - 1
    PROVE  \E r \in BandsOf(rates, a, b) : r.start <= t /\ t < r.end
<1>. DEFINE back == {s \in a .. t : \A u \in s .. t : At(rates, u) = At(rates, t)}
            forth == {e \in t + 1 .. b : \A u \in t .. e - 1 : At(rates, u) = At(rates, t)}
<1>1. t \in Int /\ a <= t /\ t < b /\ t + 1 <= b
  OBVIOUS
<1>2. t \in back /\ back \subseteq Int /\ \A s \in back : a <= s
  BY <1>1
<1>3. t + 1 \in forth /\ forth \subseteq Int /\ \A e \in forth : e <= b
  BY <1>1
<1>4. PICK s \in back : \A x \in back : s <= x
  <2>. HIDE DEF back
  <2>1. back # {}
    BY <1>2
  <2>. QED  BY <1>2, <2>1, LeastInteger
<1>5. PICK e \in forth : \A x \in forth : x <= e
  <2>. HIDE DEF forth
  <2>1. forth # {}
    BY <1>3
  <2>. QED  BY <1>3, <2>1, GreatestInteger
<1>6. s \in Int /\ a <= s /\ s <= t /\ e \in Int /\ t < e /\ e <= b
  BY <1>1
<1>7. /\ \A u \in s .. t : At(rates, u) = At(rates, t)
      /\ \A u \in t .. e - 1 : At(rates, u) = At(rates, t)
  OBVIOUS
<1>8. \A u \in s .. e - 1 : At(rates, u) = At(rates, t)
  <2>1. \A u \in s .. e - 1 : u \in s .. t \/ u \in t .. e - 1
    BY <1>6
  <2>. HIDE DEF back, forth
  <2>. QED  BY <1>7, <2>1
<1>9. At(rates, s) = At(rates, t)
  <2>1. s \in s .. t
    BY <1>6
  <2>. HIDE DEF back, forth
  <2>. QED  BY <1>7, <2>1
<1>10. s = a \/ At(rates, s - 1) # At(rates, s)
  <2>. SUFFICES ASSUME s # a, At(rates, s - 1) = At(rates, s)  PROVE FALSE
    OBVIOUS
  <2>1. s - 1 \in a .. t /\ ~ (s <= s - 1)
    BY <1>6
  <2>2. \A u \in s - 1 .. t : u = s - 1 \/ u \in s .. t
    BY <1>6
  <2>3. \A u \in s - 1 .. t : At(rates, u) = At(rates, t)
    <3>. HIDE DEF back, forth
    <3>. QED  BY <1>7, <1>9, <2>2
  <2>4. s - 1 \in back
    BY <2>1, <2>3
  <2>. HIDE DEF back, forth
  <2>. QED  BY <1>4, <2>1, <2>4
<1>11. e = b \/ At(rates, e) # At(rates, s)
  <2>. SUFFICES ASSUME e # b, At(rates, e) = At(rates, s)  PROVE FALSE
    OBVIOUS
  <2>1. e + 1 \in t + 1 .. b /\ ~ (e + 1 <= e)
    BY <1>6
  <2>2. \A u \in t .. (e + 1) - 1 : u = e \/ u \in t .. e - 1
    BY <1>6
  <2>3. \A u \in t .. (e + 1) - 1 : At(rates, u) = At(rates, t)
    <3>. HIDE DEF back, forth
    <3>. QED  BY <1>7, <1>9, <2>2
  <2>4. e + 1 \in forth
    BY <2>1, <2>3
  <2>. HIDE DEF back, forth
  <2>. QED  BY <1>5, <2>1, <2>4
<1>12. RatedFrom(rates, a, b, s, e)
  <2>1. s \in a .. b - 1 /\ e \in a + 1 .. b /\ s < e
    BY <1>1, <1>6
  <2>. HIDE DEF back, forth
  <2>. QED  BY <1>8, <1>9, <1>10, <1>11, <2>1 DEF RatedFrom
<1>. DEFINE r == [start |-> s, end |-> e, rate |-> At(rates, s)]
<1>13. r \in BandsOf(rates, a, b)
  BY <1>12, BandIs
<1>14. r.start = s /\ r.end = e
  OBVIOUS
<1>. HIDE DEF r, back, forth
<1>. QED  BY <1>6, <1>13, <1>14

(***************************************************************************)
(* The first of some bands is one of them.                                 *)
(***************************************************************************)
LEMMA FirstIsOne ==
    ASSUME NEW rates, NEW a \in Int, NEW b \in Int,
           NEW S, S \subseteq BandsOf(rates, a, b), S # {}
    PROVE  First(S) \in S
<1>. DEFINE starts == {r.start : r \in S}
<1>1. starts \subseteq Int /\ \A x \in starts : a <= x
  BY BandKeepsRate
<1>2. starts # {}
  OBVIOUS
<1>3. PICK m \in starts : \A x \in starts : m <= x
  <2>. HIDE DEF starts
  <2>. QED  BY <1>1, <1>2, LeastInteger
<1>4. PICK r \in S : m = r.start
  OBVIOUS
<1>5. \A q \in S : r.start <= q.start
  BY <1>3, <1>4
<1>. QED  BY <1>5 DEF First

(***************************************************************************)
(* A band at a time of day has the rate of that time of day: one of its    *)
(* half-hours is at it.                                                    *)
(***************************************************************************)
LEMMA DailyBandRate ==
    ASSUME NEW rates, NEW a \in Int, NEW b \in Int, NEW r \in BandsOf(rates, a, b),
           NEW t \in Int, AtTimeOfDay(r, t)
    PROVE  r.rate = At(rates, t)
<1>1. r.start \in Int /\ r.end \in Int /\ r.start < r.end
  BY BandKeepsRate
<1>2. PICK q \in Int : r.start = DayLen * q + Tod(r.start)
  BY <1>1, TodType
<1>3. PICK m \in Int : r.end = DayLen * m + Tod(r.end)
  BY <1>1, TodType
<1>. DEFINE c == Tod(r.start)
            d == Tod(r.end)
            e == Tod(t)
<1>4. /\ c \in 0 .. DayLen - 1 /\ d \in 0 .. DayLen - 1 /\ e \in 0 .. DayLen - 1
  BY <1>1, TodType
<1>5. \/ c <= e /\ e < d
      \/ d <= c /\ (e >= c \/ e < d)
  BY <1>1, <1>4 DEF AtTimeOfDay
<1>. HIDE DEF c, d, e
<1>6. r.start = DayLen * q + c /\ r.end = DayLen * m + d
  BY <1>2, <1>3 DEF c, d
<1>7. /\ DayLen * q + c <= DayLen * m + d => q <= m
      /\ q < m => DayLen * q + e < DayLen * m + d
      /\ q < m => DayLen * q + c < DayLen * m + e
  BY <1>4, DayOrder
<1>8. DayLen * q \in Int /\ DayLen * m \in Int
  BY RateSlotsAssumption
<1>9. \E n \in Int : r.start <= DayLen * n + e /\ DayLen * n + e < r.end
  <2>1. q <= m /\ (d <= c => q < m)
    <3>. DEFINE Q == DayLen * q
                M == DayLen * m
    <3>1. q = m => Q = M
      OBVIOUS
    <3>2. Q \in Int /\ M \in Int /\ (Q + c <= M + d => q <= m) /\ Q + c < M + d
      BY <1>1, <1>6, <1>7, <1>8
    <3>. HIDE DEF Q, M
    <3>. QED  BY <1>4, <3>1, <3>2
  <2>2. CASE q = m
    <3>1. c <= e /\ e < d
      BY <1>4, <1>5, <2>1, <2>2
    <3>. DEFINE Q == DayLen * q
    <3>2. Q \in Int /\ r.start = Q + c /\ r.end = Q + d
      BY <1>6, <1>8, <2>2
    <3>. HIDE DEF Q
    <3>3. r.start <= Q + e /\ Q + e < r.end
      BY <1>4, <3>1, <3>2
    <3>. QED  BY <3>3 DEF Q
  <2>3. CASE q < m
    <3>. DEFINE Q == DayLen * q
                M == DayLen * m
    <3>1. /\ Q \in Int /\ M \in Int /\ r.start = Q + c /\ r.end = M + d
          /\ Q + e < M + d /\ Q + c < M + e
      BY <1>6, <1>7, <1>8, <2>3
    <3>. HIDE DEF Q, M
    <3>2. \/ r.start <= Q + e /\ Q + e < r.end
          \/ r.start <= M + e /\ M + e < r.end
      BY <1>4, <1>5, <3>1
    <3>. QED  BY <3>2 DEF Q, M
  <2>. QED  BY <2>1, <2>2, <2>3
<1>10. PICK n \in Int : r.start <= DayLen * n + e /\ DayLen * n + e < r.end
  BY <1>9
<1>11. DayLen * n + e \in Int /\ Tod(DayLen * n + e) = e
  BY <1>4, TodUnique
<1>12. r.rate = At(rates, DayLen * n + e)
  BY <1>10, <1>11, BandKeepsRate
<1>. QED  BY <1>11, <1>12 DEF At, e

(***************************************************************************)
(* Each day from any moment on has each time of day.                       *)
(***************************************************************************)
LEMMA OncePerDay ==
    ASSUME NEW x \in Int, NEW t \in Int
    PROVE  \E u \in Int : x <= u /\ u < x + DayLen /\ Tod(u) = Tod(t)
<1>1. PICK q \in Int : x = DayLen * q + Tod(x)
  BY TodType
<1>. DEFINE c == Tod(x)
            e == Tod(t)
            Q == DayLen * q
<1>2. c \in 0 .. DayLen - 1 /\ e \in 0 .. DayLen - 1
  BY TodType
<1>3. DayLen \in Nat /\ Q \in Int /\ x = Q + c
  BY <1>1, RateSlotsAssumption
<1>4. /\ Q + e \in Int /\ Tod(Q + e) = e
      /\ DayLen * (q + 1) + e \in Int /\ Tod(DayLen * (q + 1) + e) = e
  <2>. HIDE DEF e
  <2>. QED  BY <1>2, TodUnique
<1>5. DayLen * (q + 1) = Q + DayLen
  BY <1>3, Z3
<1>6. Tod((Q + DayLen) + e) = e
  BY <1>4, <1>5
<1>. HIDE DEF c, e, Q
<1>7. CASE c <= e
  <2>1. x <= Q + e /\ Q + e < x + DayLen
    BY <1>2, <1>3, <1>7
  <2>. QED  BY <1>4, <2>1 DEF e
<1>8. CASE e < c
  <2>1. x <= (Q + DayLen) + e /\ (Q + DayLen) + e < x + DayLen /\ (Q + DayLen) + e \in Int
    BY <1>2, <1>3, <1>8
  <2>. QED  BY <1>6, <2>1 DEF e
<1>9. c \in Int /\ e \in Int
  BY <1>2
<1>. QED  BY <1>7, <1>8, <1>9

(***************************************************************************)
(* A band of a day or more has the only rate there is; a shorter one is at *)
(* the time of day of each of its half-hours.                              *)
(***************************************************************************)
LEMMA LongBand ==
    ASSUME NEW rates, NEW a \in Int, NEW b \in Int, NEW r \in BandsOf(rates, a, b),
           r.end - r.start >= DayLen, NEW t \in Int
    PROVE  At(rates, t) = r.rate
<1>1. r.start \in Int /\ r.end \in Int /\ DayLen \in Nat
  BY BandKeepsRate, RateSlotsAssumption
<1>2. PICK u \in Int : r.start <= u /\ u < r.start + DayLen /\ Tod(u) = Tod(t)
  BY <1>1, OncePerDay
<1>3. u < r.end
  BY <1>1, <1>2
<1>4. r.rate = At(rates, u)
  BY <1>2, <1>3, BandKeepsRate
<1>. QED  BY <1>2, <1>4 DEF At

(***************************************************************************)
(* A band shorter than a day has a time of day exactly when some moment of *)
(* it has: whether it goes over midnight or not.                           *)
(***************************************************************************)
LEMMA ShortBand ==
    ASSUME NEW rates, NEW a \in Int, NEW b \in Int, NEW r \in BandsOf(rates, a, b),
           r.end - r.start < DayLen,
           NEW t \in Int, NEW u \in Int, r.start <= u, u < r.end, Tod(u) = Tod(t)
    PROVE  AtTimeOfDay(r, t)
<1>1. r.start \in Int /\ r.end \in Int /\ r.start < r.end /\ DayLen \in Nat
  BY BandKeepsRate, RateSlotsAssumption
<1>2. PICK q \in Int : r.start = DayLen * q + Tod(r.start)
  BY <1>1, TodType
<1>3. PICK m \in Int : r.end = DayLen * m + Tod(r.end)
  BY <1>1, TodType
<1>4. PICK n \in Int : u = DayLen * n + Tod(u)
  BY <1>1, TodType
<1>. DEFINE c == Tod(r.start)
            d == Tod(r.end)
            e == Tod(u)
            Q == DayLen * q
            M == DayLen * m
            N == DayLen * n
<1>5. c \in 0 .. DayLen - 1 /\ d \in 0 .. DayLen - 1 /\ e \in 0 .. DayLen - 1
  BY <1>1, TodType
<1>6. /\ r.start = Q + c /\ r.end = M + d /\ u = N + e
      /\ Q \in Int /\ M \in Int /\ N \in Int
  BY <1>1, <1>2, <1>3, <1>4
<1>7. /\ Q + c <= N + e => q <= n
      /\ N + e <= M + d => n <= m
      /\ M + d < Q + c + DayLen => m <= q + 1
      /\ M + d < Q + c + DayLen /\ c <= d => m <= q
  <2>. HIDE DEF c, d, e
  <2>. QED  BY <1>5, DayOrder
<1>8. (q = n => Q = N) /\ (n = m => N = M)
  OBVIOUS
<1>. HIDE DEF c, d, e, Q, M, N
<1>9. q <= n /\ n <= m /\ m <= q + 1 /\ (c <= d => m <= q)
  BY <1>1, <1>5, <1>6, <1>7
<1>10. CASE c < d
  <2>1. q = n /\ n = m
    BY <1>5, <1>9, <1>10
  <2>2. c <= e /\ e < d
    BY <1>5, <1>6, <1>8, <2>1
  <2>. QED  BY <1>5, <1>10, <2>2 DEF AtTimeOfDay, c, d, e
<1>11. CASE d <= c
  <2>1. q = n \/ n = m
    BY <1>9
  <2>2. e >= c \/ e < d
    BY <1>5, <1>6, <1>8, <2>1
  <2>3. ~ (d > c)
    BY <1>5, <1>11
  <2>. QED  BY <2>2, <2>3 DEF AtTimeOfDay, c, d, e
<1>12. c \in Int /\ d \in Int
  BY <1>5
<1>. QED  BY <1>10, <1>11, <1>12

(***************************************************************************)
(* With the bands of a day at least, every half-hour gets the rate of its  *)
(* time of day; the rate before it is only taken when there is one rate.   *)
(***************************************************************************)
LEMMA RateOfIsRight ==
    ASSUME NEW a \in Int, NEW b \in Int, b - a >= DayLen, bands = BandsOf(pattern, a, b),
           \E v \in Int : lastValue = At(pattern, v), NEW t \in Int
    PROVE  RateOf(t) = At(pattern, t)
<1>. DEFINE covering == {r \in bands : r.start <= t /\ t < r.end}
            daily == {r \in bands : AtTimeOfDay(r, t)}
<1>1. CASE covering # {}
  <2>1. First(covering) \in covering
    <3>1. covering \subseteq BandsOf(pattern, a, b)
      OBVIOUS
    <3>. HIDE DEF covering
    <3>. QED  BY <1>1, <3>1, FirstIsOne
  <2>2. First(covering).rate = At(pattern, t)
    <3>. DEFINE f == First(covering)
    <3>1. f \in BandsOf(pattern, a, b) /\ f.start <= t /\ t < f.end
      BY <2>1
    <3>. HIDE DEF f
    <3>2. f.rate = At(pattern, t)
      BY <3>1, BandKeepsRate
    <3>. QED  BY <3>2 DEF f
  <2>. QED  BY <1>1, <2>2 DEF RateOf
<1>2. CASE covering = {} /\ daily # {}
  <2>1. First(daily) \in daily
    <3>1. daily \subseteq BandsOf(pattern, a, b)
      OBVIOUS
    <3>. HIDE DEF daily
    <3>. QED  BY <1>2, <3>1, FirstIsOne
  <2>2. First(daily).rate = At(pattern, t)
    <3>. DEFINE f == First(daily)
    <3>1. f \in BandsOf(pattern, a, b) /\ AtTimeOfDay(f, t)
      BY <2>1
    <3>. HIDE DEF f
    <3>2. f.rate = At(pattern, t)
      BY <3>1, DailyBandRate
    <3>. QED  BY <3>2 DEF f
  <2>. QED  BY <1>2, <2>2 DEF RateOf
<1>3. CASE covering = {} /\ daily = {}
  <2>1. PICK u \in Int : a <= u /\ u < a + DayLen /\ Tod(u) = Tod(t)
    BY OncePerDay
  <2>2. u \in a .. b - 1
    <3>1. DayLen \in Nat
      BY RateSlotsAssumption
    <3>. QED  BY <2>1, <3>1
  <2>3. PICK r \in BandsOf(pattern, a, b) : r.start <= u /\ u < r.end
    BY <2>2, CoveringBand
  <2>4. ~ AtTimeOfDay(r, t)
    BY <1>3, <2>3
  <2>5. ~ (r.end - r.start < DayLen)
    BY <2>1, <2>3, <2>4, ShortBand
  <2>6. r.end - r.start >= DayLen
    <3>1. r.start \in Int /\ r.end \in Int /\ DayLen \in Nat
      BY BandKeepsRate, RateSlotsAssumption
    <3>. QED  BY <2>5, <3>1
  <2>7. \A v \in Int : At(pattern, v) = r.rate
    BY <2>6, LongBand
  <2>8. lastValue = At(pattern, t)
    BY <2>7
  <2>. QED  BY <1>3, <2>8 DEF RateOf
<1>. QED  BY <1>1, <1>2, <1>3

(***************************************************************************)
(* The invariant: the bands are those of a day at least of the tariff, the *)
(* rate before is one of the tariff's, and nothing is priced before there  *)
(* are bands.                                                              *)
(***************************************************************************)
SlotInv ==
  /\ SlotTypeOK
  /\ bands = {} => current = 0
  /\ bands # {} =>
       /\ pattern \in [0 .. DayLen - 1 -> UnitRates]
       /\ \E a \in -DayLen .. 0, b \in 1 .. 2 * DayLen :
            b - a >= DayLen /\ bands = BandsOf(pattern, a, b)
       /\ \E v \in 0 .. DayLen - 1 : lastValue = At(pattern, v)
  /\ DailyRatesRepeat

LEMMA SlotInitial == SlotInit => SlotInv
<1>. SUFFICES ASSUME SlotInit  PROVE SlotInv
  OBVIOUS
<1>1. 0 \in 0 .. DaysAhead * DayLen
  <2>1. DaysAhead * DayLen \in Nat
    BY RateSlotsAssumption
  <2>. QED  BY <2>1
<1>. QED  BY <1>1 DEF SlotInit, SlotInv, SlotTypeOK, DailyRatesRepeat

(***************************************************************************)
(* The bands of a day or more of a tariff: there are some, and their rates *)
(* are of the tariff.                                                      *)
(***************************************************************************)
LEMMA BandsOfType ==
    ASSUME NEW rates \in [0 .. DayLen - 1 -> UnitRates],
           NEW a \in -DayLen .. 0, NEW b \in 1 .. 2 * DayLen, b - a >= DayLen
    PROVE  /\ BandsOf(rates, a, b) \subseteq BandSet /\ BandsOf(rates, a, b) # {}
           /\ First(BandsOf(rates, a, b)) \in BandsOf(rates, a, b)
           /\ \A r \in BandsOf(rates, a, b) :
                \E v \in 0 .. DayLen - 1 : r.rate = At(rates, v)
<1>1. a \in Int /\ b \in Int /\ DayLen \in Nat \ {0} /\ -DayLen <= a /\ b <= 2 * DayLen
  BY RateSlotsAssumption
<1>2. ASSUME NEW r \in BandsOf(rates, a, b)
      PROVE  /\ r \in BandSet
             /\ \E v \in 0 .. DayLen - 1 : r.rate = At(rates, v)
  <2>1. /\ r.start \in Int /\ r.end \in Int /\ a <= r.start /\ r.start < r.end /\ r.end <= b
        /\ r = [start |-> r.start, end |-> r.end, rate |-> r.rate]
        /\ r.rate = At(rates, r.start)
    BY <1>1, BandKeepsRate, BandIs
  <2>2. r.start \in -2 * DayLen .. 2 * DayLen /\ r.end \in -2 * DayLen .. 2 * DayLen
    BY <1>1, <2>1
  <2>3. Tod(r.start) \in 0 .. DayLen - 1
    BY <2>1, TodType
  <2>4. Tod(Tod(r.start)) = Tod(r.start)
    <3>. DEFINE c == Tod(r.start)
    <3>1. DayLen * 0 + c = c
      BY <1>1, <2>3
    <3>. HIDE DEF c
    <3>2. c \in 0 .. DayLen - 1
      BY <2>3 DEF c
    <3>3. Tod(c) = c
      BY <3>1, <3>2, TodUnique
    <3>. QED  BY <3>3 DEF c
  <2>5. r.rate \in UnitRates /\ r.rate = At(rates, Tod(r.start))
    BY <2>1, <2>3, <2>4 DEF At
  <2>6. r \in BandSet
    BY <2>1, <2>2, <2>5, Zenon DEF BandSet
  <2>. QED  BY <2>3, <2>5, <2>6
<1>3. BandsOf(rates, a, b) # {}
  <2>1. a \in a .. b - 1
    BY <1>1
  <2>. QED  BY <1>1, <2>1, CoveringBand
<1>4. First(BandsOf(rates, a, b)) \in BandsOf(rates, a, b)
  BY <1>1, <1>3, FirstIsOne
<1>. QED  BY <1>2, <1>3, <1>4

LEMMA ExpandStartsKeeps == SlotInv /\ ExpandStarts => SlotInv'
<1>. SUFFICES ASSUME SlotInv, ExpandStarts  PROVE SlotInv'
  OBVIOUS
<1>1. /\ pattern' \in [0 .. DayLen - 1 -> UnitRates] /\ current' = current /\ slotRate' = slotRate
      /\ current = 0
  BY DEF ExpandStarts, SlotInv
<1>2. PICK a \in -DayLen .. 0, b \in 1 .. 2 * DayLen :
        b - a >= DayLen /\ bands' = BandsOf(pattern', a, b)
  BY DEF ExpandStarts
<1>3. /\ bands' \subseteq BandSet /\ First(bands') \in bands'
      /\ \A r \in bands' : \E v \in 0 .. DayLen - 1 : r.rate = At(pattern', v)
  BY <1>1, <1>2, BandsOfType
<1>4. lastValue' = First(bands').rate
  BY DEF ExpandStarts
<1>5. lastValue' \in UnitRates
  BY <1>3, <1>4 DEF BandSet
<1>6. \E v \in 0 .. DayLen - 1 : lastValue' = At(pattern', v)
  BY <1>3, <1>4
<1>7. SlotTypeOK'
  BY <1>1, <1>3, <1>5 DEF SlotInv, SlotTypeOK
<1>8. DailyRatesRepeat'
  BY <1>1 DEF DailyRatesRepeat
<1>. QED  BY <1>1, <1>2, <1>3, <1>6, <1>7, <1>8 DEF SlotInv

LEMMA ExpandSlotKeeps == SlotInv /\ ExpandSlot => SlotInv'
<1>. SUFFICES ASSUME SlotInv, ExpandSlot  PROVE SlotInv'
  OBVIOUS
<1>1. /\ bands # {} /\ current < DaysAhead * DayLen /\ current' = current + 1
      /\ slotRate' = RateOf(current) /\ lastValue' = RateOf(current)
      /\ pattern' = pattern /\ bands' = bands
  BY DEF ExpandSlot
<1>2. /\ pattern \in [0 .. DayLen - 1 -> UnitRates]
      /\ current \in 0 .. DaysAhead * DayLen /\ DaysAhead * DayLen \in Nat
  BY <1>1, RateSlotsAssumption DEF SlotInv, SlotTypeOK
<1>3. RateOf(current) = At(pattern, current)
  <2>1. PICK a \in -DayLen .. 0, b \in 1 .. 2 * DayLen :
          b - a >= DayLen /\ bands = BandsOf(pattern, a, b)
    BY <1>1 DEF SlotInv
  <2>2. \E v \in Int : lastValue = At(pattern, v)
    BY <1>1 DEF SlotInv
  <2>3. a \in Int /\ b \in Int /\ current \in Int
    BY <1>2
  <2>. QED  BY <2>1, <2>2, <2>3, RateOfIsRight
<1>4. Tod(current) \in 0 .. DayLen - 1 /\ Tod(Tod(current)) = Tod(current)
  <2>1. Tod(current) \in 0 .. DayLen - 1
    BY <1>2, TodType
  <2>. DEFINE c == Tod(current)
  <2>2. DayLen * 0 + c = c
    BY <2>1, RateSlotsAssumption
  <2>. HIDE DEF c
  <2>3. c \in 0 .. DayLen - 1
    BY <2>1 DEF c
  <2>4. Tod(c) = c
    BY <2>2, <2>3, TodUnique
  <2>. QED  BY <2>1, <2>4 DEF c
<1>5. lastValue' \in UnitRates /\ lastValue' = At(pattern', Tod(current)) /\ slotRate' = lastValue'
  BY <1>1, <1>2, <1>3, <1>4 DEF At
<1>6. current' \in 0 .. DaysAhead * DayLen /\ current' - 1 = current
  <2>. DEFINE L == DaysAhead * DayLen
  <2>1. L \in Nat /\ current \in 0 .. L /\ current < L /\ current' = current + 1
    BY <1>1, <1>2
  <2>. HIDE DEF L
  <2>2. current' \in 0 .. L /\ current' - 1 = current
    BY <2>1
  <2>. QED  BY <2>2 DEF L
<1>7. SlotTypeOK'
  BY <1>1, <1>5, <1>6 DEF SlotInv, SlotTypeOK
<1>8. DailyRatesRepeat'
  BY <1>1, <1>3, <1>6 DEF DailyRatesRepeat, At
<1>. QED  BY <1>1, <1>4, <1>5, <1>7, <1>8 DEF SlotInv

LEMMA SlotStep == SlotInv /\ [SlotNext]_slotVars => SlotInv'
<1>. SUFFICES ASSUME SlotInv, [SlotNext]_slotVars  PROVE SlotInv'
  OBVIOUS
<1>1. CASE Expanded
  <2>1. 0 \in 0 .. DaysAhead * DayLen /\ ~ (0 > 0)
    <3>1. DaysAhead * DayLen \in Nat
      BY RateSlotsAssumption
    <3>. QED  BY <3>1
  <2>. QED  BY <1>1, <2>1 DEF Expanded, SlotInv, SlotTypeOK, DailyRatesRepeat
<1>2. CASE UNCHANGED slotVars
  BY <1>2 DEF slotVars, SlotInv, SlotTypeOK, DailyRatesRepeat
<1>. QED  BY <1>1, <1>2, ExpandStartsKeeps, ExpandSlotKeeps DEF SlotNext

LEMMA SlotInvariant == SlotSpec => []SlotInv
BY SlotInitial, SlotStep, PTL DEF SlotSpec

(***************************************************************************)
(* Whatever the tariff and the answer: the bands made of it, the rates and *)
(* the half-hour of _expand_to_30min_slots keep their types.               *)
(***************************************************************************)
THEOREM RateSlotsTypeCorrect == SlotSpec => []SlotTypeOK
<1>1. SlotInv => SlotTypeOK
  BY DEF SlotInv
<1>. QED  BY <1>1, SlotInvariant, PTL

(***************************************************************************)
(* For every length of a day and every number of days ahead: each half-    *)
(* hour _expand_to_30min_slots prices has the tariff's rate for its time   *)
(* of day, whichever day or more of the tariff the API answered with.      *)
(***************************************************************************)
THEOREM SlotsRepeatDaily == SlotSpec => []DailyRatesRepeat
<1>1. SlotInv => DailyRatesRepeat
  BY DEF SlotInv
<1>. QED  BY <1>1, SlotInvariant, PTL

-----------------------------------------------------------------------------
(***************************************************************************)
(* The replay of a month.                                                  *)
(***************************************************************************)

(***************************************************************************)
(* Bounded sets of integers have the least and the greatest element the    *)
(* definitions choose.                                                     *)
(***************************************************************************)
LEMMA MinIs ==
    ASSUME NEW S, S \subseteq Int, S # {}, NEW b \in Int, \A x \in S : b <= x
    PROVE  Min(S) \in S /\ \A x \in S : Min(S) <= x
<1>1. \E m \in S : \A x \in S : m <= x
  BY LeastInteger
<1>. QED  BY <1>1 DEF Min

LEMMA MaxIs ==
    ASSUME NEW S, S \subseteq Int, S # {}, NEW b \in Int, \A x \in S : x <= b
    PROVE  Max(S) \in S /\ \A x \in S : x <= Max(S)
<1>1. \E m \in S : \A x \in S : x <= m
  BY GreatestInteger
<1>2. \E m \in S : \A x \in S : m >= x
  <2>1. \A x, y \in S : x <= y => y >= x
    OBVIOUS
  <2>. QED  BY <1>1, <2>1
<1>3. Max(S) \in S /\ \A x \in S : Max(S) >= x
  BY <1>2 DEF Max
<1>4. \A x, y \in S : x >= y => y <= x
  OBVIOUS
<1>. QED  BY <1>3, <1>4

(***************************************************************************)
(* The bands of a tariff: each lasts as long as its rate, one is around    *)
(* every half-hour that has a rate, and no two meet.                       *)
(***************************************************************************)
Forces == [Times -> Prices \cup {NoPrice}]

(***************************************************************************)
(* The rate of a half-hour lasts until the end of its band and no longer.  *)
(***************************************************************************)
LEMMA BandEndIs ==
    ASSUME NEW force \in Forces, NEW t \in Times
    PROVE  /\ BandEnd(force, t) \in t + 1 .. Window + 1
           /\ \A u \in t .. BandEnd(force, t) - 1 : u \in Times /\ force[u] = force[t]
           /\ BandEnd(force, t) # Window + 1 =>
                BandEnd(force, t) \in Times /\ force[BandEnd(force, t)] # force[t]
<1>. DEFINE ends == {u \in t + 1 .. Window : force[u] # force[t]} \cup {Window + 1}
            e == Min(ends)
<1>1. t \in Int /\ -2 <= t /\ t <= Window /\ Window \in Nat
  BY RateReplayAssumption DEF Times
<1>2. ends \subseteq Int /\ \A x \in ends : t + 1 <= x
  BY <1>1
<1>3. e \in ends /\ \A x \in ends : e <= x
  <2>1. t + 1 \in Int /\ ends # {}
    BY <1>1
  <2>. HIDE DEF ends
  <2>. QED  BY <1>2, <2>1, MinIs
<1>. HIDE DEF e
<1>4. e \in t + 1 .. Window + 1
  BY <1>1, <1>3
<1>5. ASSUME NEW u \in t .. e - 1  PROVE u \in Times /\ force[u] = force[t]
  <2>1. u \in Int /\ t <= u /\ u < e /\ u <= Window
    BY <1>1, <1>4
  <2>2. u \in Times
    BY <1>1, <2>1 DEF Times
  <2>3. u # t => force[u] = force[t]
    <3>. SUFFICES ASSUME u # t, force[u] # force[t]  PROVE FALSE
      OBVIOUS
    <3>1. u \in ends
      BY <1>1, <2>1
    <3>. HIDE DEF ends
    <3>2. e <= u
      BY <1>3, <3>1
    <3>. QED  BY <1>4, <2>1, <3>2
  <2>. QED  BY <2>2, <2>3
<1>6. e # Window + 1 => e \in Times /\ force[e] # force[t]
  BY <1>1, <1>3 DEF Times
<1>7. BandEnd(force, t) = e
  BY DEF BandEnd, e
<1>. HIDE DEF ends
<1>. QED  BY <1>4, <1>5, <1>6, <1>7

(***************************************************************************)
(* Every half-hour with a rate is in a band of that rate.                  *)
(***************************************************************************)
LEMMA BandAround ==
    ASSUME NEW force \in Forces, NEW s \in Times, force[s] # NoPrice
    PROVE  \E t \in Starts(force) : t <= s /\ s < BandEnd(force, t) /\ force[t] = force[s]
<1>. DEFINE back == {x \in -2 .. s : \A u \in x .. s : force[u] = force[s]}
<1>1. s \in Int /\ -2 <= s /\ s <= Window /\ Window \in Nat
  BY RateReplayAssumption DEF Times
<1>2. s \in back /\ back \subseteq Int /\ \A x \in back : -2 <= x
  BY <1>1
<1>3. PICK t \in back : \A x \in back : t <= x
  <2>1. back # {} /\ -2 \in Int
    BY <1>2
  <2>. HIDE DEF back
  <2>. QED  BY <1>2, <2>1, LeastInteger
<1>4. /\ t \in Int /\ -2 <= t /\ t <= s /\ t \in Times
      /\ \A u \in t .. s : force[u] = force[s]
  BY <1>1 DEF Times
<1>5. force[t] = force[s]
  BY <1>1, <1>4
<1>6. t = -2 \/ force[t - 1] # force[t]
  <2>. SUFFICES ASSUME t # -2, force[t - 1] = force[t]  PROVE FALSE
    OBVIOUS
  <2>1. t - 1 \in -2 .. s /\ ~ (t <= t - 1)
    BY <1>1, <1>4
  <2>2. \A u \in t - 1 .. s : u = t - 1 \/ u \in t .. s
    BY <1>1, <1>4
  <2>3. \A u \in t - 1 .. s : force[u] = force[s]
    <3>. HIDE DEF back
    <3>. QED  BY <1>4, <1>5, <2>2
  <2>4. t - 1 \in back
    BY <2>1, <2>3
  <2>. HIDE DEF back
  <2>. QED  BY <1>3, <2>1, <2>4
<1>. HIDE DEF back
<1>7. t \in Starts(force)
  BY <1>4, <1>5, <1>6 DEF Starts
<1>8. s < BandEnd(force, t)
  <2>. SUFFICES ASSUME ~ (s < BandEnd(force, t))  PROVE FALSE
    OBVIOUS
  <2>. DEFINE e == BandEnd(force, t)
  <2>1. e \in t + 1 .. Window + 1 /\ (e # Window + 1 => force[e] # force[t])
    BY <1>4, BandEndIs
  <2>2. ~ (s < e)
    OBVIOUS
  <2>. HIDE DEF e
  <2>3. e \in t .. s /\ e # Window + 1
    BY <1>1, <1>4, <2>1, <2>2
  <2>. QED  BY <1>4, <1>5, <2>1, <2>3
<1>. QED  BY <1>4, <1>5, <1>7, <1>8

(***************************************************************************)
(* Bands do not overlap.                                                   *)
(***************************************************************************)
LEMMA BandsApart ==
    ASSUME NEW force \in Forces, NEW t \in Starts(force), NEW v \in Starts(force), t < v
    PROVE  BandEnd(force, t) <= v
<1>1. t \in Times /\ v \in Times /\ t \in Int /\ v \in Int /\ -2 <= t
  BY RateReplayAssumption DEF Starts, Times
<1>. DEFINE e == BandEnd(force, t)
<1>2. e \in t + 1 .. Window + 1 /\ \A u \in t .. e - 1 : force[u] = force[t]
  BY <1>1, BandEndIs
<1>. HIDE DEF e
<1>3. e \in Int
  BY <1>1, <1>2, RateReplayAssumption
<1>4. SUFFICES ASSUME v < e  PROVE FALSE
  BY <1>1, <1>3 DEF e
<1>5. v \in t .. e - 1 /\ v - 1 \in t .. e - 1 /\ v # -2
  BY <1>1, <1>3, <1>4
<1>6. force[v - 1] = force[v]
  BY <1>2, <1>5
<1>. QED  BY <1>5, <1>6 DEF Starts

(***************************************************************************)
(* What a fetch returns, and the latest of it.                             *)
(***************************************************************************)
Within(force, a, b) == {t \in Starts(force) : t < b /\ BandEnd(force, t) > a}

Rows == [from : Times, to : -1 .. Window + 1, rate : Prices]

(***************************************************************************)
(* Where a band starts, and its place.                                     *)
(***************************************************************************)
LEMMA StartIs ==
    ASSUME NEW force \in Forces, NEW t \in Starts(force)
    PROVE  /\ t \in Times /\ t \in Int /\ force[t] \in Prices /\ force[t] # NoPrice
           /\ Place(t) \in Place(-2) .. Place(Window) /\ Place(t) \div 2 = t
           /\ Place(t) # SeedPlace
           /\ Band(force, t) \in Rows
<1>1. t \in Times /\ t \in Int /\ -2 <= t /\ t <= Window /\ Window \in Nat
  BY RateReplayAssumption DEF Starts, Times
<1>2. force[t] \in Prices /\ force[t] # NoPrice
  BY <1>1 DEF Starts, Forces
<1>3. Place(t) \in Place(-2) .. Place(Window) /\ Place(t) # SeedPlace
  BY <1>1 DEF Place, SeedPlace
<1>4. Place(t) \div 2 = t
  BY <1>1, Z3 DEF Place
<1>5. BandEnd(force, t) \in -1 .. Window + 1
  <2>1. BandEnd(force, t) \in t + 1 .. Window + 1
    BY <1>1, BandEndIs
  <2>. QED  BY <1>1, <2>1
<1>6. Band(force, t) \in Rows
  BY <1>1, <1>2, <1>5 DEF Band, Rows
<1>. QED  BY <1>1, <1>2, <1>3, <1>4, <1>6

(***************************************************************************)
(* The rows of a stretch of time: one for each band that reaches into it.  *)
(***************************************************************************)
LEMMA BandsInIs ==
    ASSUME NEW force \in Forces, NEW a, NEW b
    PROVE  /\ DOMAIN BandsIn(force, a, b) = {Place(t) : t \in Within(force, a, b)}
           /\ \A t \in Within(force, a, b) : BandsIn(force, a, b)[Place(t)] = Band(force, t)
           /\ BandsIn(force, a, b) \in [DOMAIN BandsIn(force, a, b) -> Rows]
           /\ DOMAIN BandsIn(force, a, b) \subseteq Place(-2) .. Place(Window)
<1>. DEFINE W == Within(force, a, b)
            B == BandsIn(force, a, b)
<1>1. B = [k \in {Place(t) : t \in W} |-> Band(force, k \div 2)]
  BY DEF BandsIn, Within
<1>2. W \subseteq Starts(force)
  BY DEF Within
<1>. HIDE DEF W, B
<1>3. DOMAIN B = {Place(t) : t \in W}
  BY <1>1
<1>4. ASSUME NEW t \in W  PROVE B[Place(t)] = Band(force, t)
  <2>1. Place(t) \div 2 = t
    BY <1>2, StartIs
  <2>. QED  BY <1>1, <2>1
<1>5. \A k \in DOMAIN B : \E t \in Starts(force) : k = Place(t) /\ B[k] = Band(force, t)
  BY <1>2, <1>3, <1>4
<1>6. \A k \in DOMAIN B : B[k] \in Rows /\ k \in Place(-2) .. Place(Window)
  BY <1>5, StartIs
<1>7. B \in [DOMAIN B -> Rows]
  <2>1. B = [k \in DOMAIN B |-> B[k]]
    BY <1>1
  <2>. QED  BY <1>6, <2>1
<1>. QED  BY <1>3, <1>4, <1>6, <1>7 DEF W, B

(***************************************************************************)
(* The latest row is the band that starts last.                            *)
(***************************************************************************)
LEMMA LatestIs ==
    ASSUME NEW force \in Forces, NEW a, NEW b, BandsIn(force, a, b) # NoRows
    PROVE  \E t \in Within(force, a, b) :
             Latest(BandsIn(force, a, b)) = force[t] /\ \A v \in Within(force, a, b) : v <= t
<1>. DEFINE W == Within(force, a, b)
            B == BandsIn(force, a, b)
<1>1. /\ DOMAIN B = {Place(t) : t \in W}
      /\ \A t \in W : B[Place(t)] = Band(force, t)
      /\ DOMAIN B \subseteq Place(-2) .. Place(Window)
  BY BandsInIs
<1>2. DOMAIN B # {}
  <2>. SUFFICES ASSUME DOMAIN B = {}  PROVE FALSE
    OBVIOUS
  <2>1. B = [k \in {} |-> Band(force, k \div 2)]
    <3>1. B = [k \in {Place(t) : t \in W} |-> Band(force, k \div 2)]
      BY DEF BandsIn, Within
    <3>. HIDE DEF B, W
    <3>. QED  BY <1>1, <3>1
  <2>2. B = NoRows
    BY <2>1 DEF NoRows
  <2>. QED  BY <2>2
<1>3. W \subseteq Starts(force)
  BY DEF Within
<1>. HIDE DEF W, B
<1>4. DOMAIN B \subseteq Int /\ Place(Window) \in Int /\ \A k \in DOMAIN B : k <= Place(Window)
  <2>1. Place(-2) \in Int /\ Place(Window) \in Int
    BY RateReplayAssumption DEF Place
  <2>. QED  BY <1>1, <2>1
<1>5. Max(DOMAIN B) \in DOMAIN B /\ \A k \in DOMAIN B : k <= Max(DOMAIN B)
  BY <1>2, <1>4, MaxIs
<1>6. PICK t \in W : Max(DOMAIN B) = Place(t)
  BY <1>1, <1>5
<1>7. Latest(B) = force[t]
  <2>1. Latest(B) = B[Max(DOMAIN B)].rate
    BY DEF Latest
  <2>2. B[Max(DOMAIN B)] = Band(force, t) /\ Band(force, t).rate = force[t]
    BY <1>1, <1>6 DEF Band
  <2>. QED  BY <2>1, <2>2
<1>8. ASSUME NEW v \in W  PROVE v <= t
  <2>1. Place(v) <= Place(t)
    BY <1>1, <1>5, <1>6
  <2>2. v \in Int /\ t \in Int
    BY <1>3, StartIs
  <2>. QED  BY <2>1, <2>2 DEF Place
<1>. QED  BY <1>7, <1>8 DEF W, B

(***************************************************************************)
(* The invariant of the replay.  Of the rows: they are the window's bands, *)
(* all of them, and a seed that has the rate before the window where there *)
(* was one.  Of the walk: the pointer has only passed rows that had ended. *)
(* Of the map: every half-hour up to the walk's has its due rate.          *)
(***************************************************************************)
LatestBefore(m) ==
  /\ m \in -2 .. -1 /\ inForce[m] # NoPrice
  /\ \A t \in m + 1 .. -1 : inForce[t] = NoPrice

RowsRight ==
  /\ \A k \in DOMAIN rows \ {SeedPlace} :
       \E t \in Starts(inForce) : k = Place(t) /\ rows[k] = Band(inForce, t)
  /\ \A t \in Starts(inForce) :
       t < Window /\ BandEnd(inForce, t) > 0 => Place(t) \in DOMAIN rows
  /\ SeedPlace \in DOMAIN rows => rows[SeedPlace] = SeedRow(rows[SeedPlace].rate)
  /\ IF seeded
     THEN /\ SeedPlace \in DOMAIN rows
          /\ \E m \in -2 .. -1 : LatestBefore(m) /\ rows[SeedPlace].rate = inForce[m]
     ELSE SeedPlace \in DOMAIN rows => \A t \in Slots : inForce[t] = NoPrice

PassedEnded == \A k \in DOMAIN rows : k < ratePtr => rows[k].to <= slotAt

RateDue(s) == Covered(s) # {} => ratesAt[s] \in Due(s)

RateInv ==
  /\ RateTypeOK
  /\ ratePc # "reprice" => priced = Unpriced
  /\ ratePc \in {"idle", "seed", "latest"} =>
       slotAt = 0 /\ ratePtr = Place(-2) /\ seeded = FALSE
  /\ ratePc = "seed" => rows = BandsIn(inForce, 0, Window)
  /\ ratePc = "latest" => rows = NoRows /\ rows = BandsIn(inForce, 0, Window)
  /\ ratePc = "walk" =>
       RowsRight /\ PassedEnded /\ \A s \in Slots : s < slotAt => RateDue(s)
  /\ ratePc = "reprice" => \A s \in Slots : RateDue(s)
  /\ PricedInForce

LEMMA RateTypes ==
    ASSUME RateTypeOK
    PROVE  /\ inForce \in Forces /\ rows \in [DOMAIN rows -> Rows]
           /\ \A k \in DOMAIN rows : k \in Int /\ rows[k] \in Rows /\ rows[k].to \in Int
                /\ Place(-2) <= k /\ k <= Place(Window)
           /\ Window \in Nat /\ slotAt \in 0 .. Window /\ ratePtr \in Int
           /\ Place(-2) <= ratePtr /\ ratePtr <= Place(Window + 1)
           /\ Place(Window + 1) \in Int /\ Place(Window + 1) > Place(Window)
           /\ Place(-2) \in Int /\ Place(Window) \in Int /\ Place(-2) <= Place(Window)
<1>1. Window \in Nat /\ slotAt \in 0 .. Window
  BY RateReplayAssumption DEF RateTypeOK
<1>2. /\ Place(Window + 1) \in Int /\ Place(Window + 1) > Place(Window)
      /\ Place(-2) \in Int /\ Place(Window) \in Int /\ Place(-2) <= Place(Window)
  BY <1>1 DEF Place
<1>3. inForce \in Forces /\ rows \in [DOMAIN rows -> Rows]
  BY DEF RateTypeOK, Forces, Rows
<1>4. ASSUME NEW k \in DOMAIN rows
      PROVE  k \in Int /\ rows[k] \in Rows /\ rows[k].to \in Int
             /\ Place(-2) <= k /\ k <= Place(Window)
  <2>1. rows[k] \in Rows
    BY <1>3
  <2>2. rows[k].to \in Int
    BY <1>1, <2>1 DEF Rows
  <2>3. k \in Place(-2) .. Place(Window)
    BY DEF RateTypeOK
  <2>. QED  BY <1>2, <2>1, <2>2, <2>3
<1>5. ratePtr \in Place(-2) .. Place(Window + 1)
  BY DEF RateTypeOK
<1>6. ratePtr \in Int /\ Place(-2) <= ratePtr /\ ratePtr <= Place(Window + 1)
  BY <1>2, <1>5
<1>. QED  BY <1>1, <1>2, <1>3, <1>4, <1>6

(***************************************************************************)
(* The row the pointer stops at: every row before it has ended.            *)
(***************************************************************************)
Stop == Min(Ahead \cup {Place(Window + 1)})

(***************************************************************************)
(* Where the pointer stops: at the first row it has not passed that has    *)
(* not ended, or after all of them.                                        *)
(***************************************************************************)
LEMMA StopIs ==
    ASSUME RateTypeOK, PassedEnded
    PROVE  /\ Stop \in Int /\ Place(-2) <= Stop /\ Stop <= Place(Window + 1)
           /\ \A k \in DOMAIN rows : k < Stop => rows[k].to <= slotAt
           /\ Stop \in DOMAIN rows => rows[Stop].to > slotAt
           /\ Stop # Place(Window + 1) => Stop \in DOMAIN rows
<1>. DEFINE S == Ahead \cup {Place(Window + 1)}
<1>1. S \subseteq Int /\ \A k \in S : ratePtr <= k
  BY RateTypes DEF Ahead
<1>2. Stop \in S /\ \A k \in S : Stop <= k
  <2>1. S # {} /\ ratePtr \in Int
    BY RateTypes
  <2>. HIDE DEF S
  <2>2. Min(S) \in S /\ \A k \in S : Min(S) <= k
    BY <1>1, <2>1, MinIs
  <2>3. Stop = Min(S)
    BY DEF Stop, S
  <2>. QED  BY <2>2, <2>3
<1>3. Stop \in Int /\ Place(-2) <= Stop /\ Stop <= Place(Window + 1)
  <2>1. Stop \in Int /\ ratePtr <= Stop
    BY <1>1, <1>2
  <2>2. Stop <= Place(Window + 1)
    BY <1>2
  <2>. QED  BY <2>1, <2>2, RateTypes
<1>4. ASSUME NEW k \in DOMAIN rows, k < Stop  PROVE rows[k].to <= slotAt
  <2>1. k \in Int /\ rows[k].to \in Int /\ ratePtr \in Int /\ slotAt \in Int
    BY RateTypes
  <2>2. CASE k < ratePtr
    BY <2>2 DEF PassedEnded
  <2>3. CASE ~ (k < ratePtr)
    <3>1. k \notin Ahead
      BY <1>2, <1>3, <1>4, <2>1
    <3>2. k >= ratePtr
      BY <2>1, <2>3
    <3>3. ~ (rows[k].to > slotAt)
      BY <3>1, <3>2 DEF Ahead
    <3>. QED  BY <2>1, <3>3
  <2>. QED  BY <2>2, <2>3
<1>5. ASSUME Stop \in DOMAIN rows  PROVE rows[Stop].to > slotAt
  <2>1. Stop # Place(Window + 1)
    BY <1>5, RateTypes
  <2>2. Stop \in Ahead
    BY <1>2, <2>1
  <2>. QED  BY <2>2 DEF Ahead
<1>6. Stop # Place(Window + 1) => Stop \in DOMAIN rows
  BY <1>2 DEF Ahead
<1>. QED  BY <1>3, <1>4, <1>5, <1>6

(***************************************************************************)
(* The rows, each by its band.                                             *)
(***************************************************************************)
LEMMA RowIs ==
    ASSUME RateTypeOK, RowsRight
    PROVE  /\ \A k \in DOMAIN rows \ {SeedPlace} :
                \E t \in Starts(inForce) : k = Place(t) /\ rows[k].from = t
                  /\ rows[k].to = BandEnd(inForce, t) /\ rows[k].rate = inForce[t]
           /\ \A t \in Starts(inForce) : Place(t) \in DOMAIN rows =>
                /\ rows[Place(t)].from = t /\ rows[Place(t)].rate = inForce[t]
                /\ rows[Place(t)].to = BandEnd(inForce, t)
           /\ SeedPlace \in DOMAIN rows => rows[SeedPlace].from = 0 /\ rows[SeedPlace].to = 1
<1>1. ASSUME NEW k \in DOMAIN rows \ {SeedPlace}
      PROVE  \E t \in Starts(inForce) : k = Place(t) /\ rows[k].from = t
               /\ rows[k].to = BandEnd(inForce, t) /\ rows[k].rate = inForce[t]
  <2>1. PICK t \in Starts(inForce) : k = Place(t) /\ rows[k] = Band(inForce, t)
    BY DEF RowsRight
  <2>. QED  BY <2>1 DEF Band
<1>2. ASSUME NEW t \in Starts(inForce), Place(t) \in DOMAIN rows
      PROVE  /\ rows[Place(t)].from = t /\ rows[Place(t)].rate = inForce[t]
             /\ rows[Place(t)].to = BandEnd(inForce, t)
  <2>1. Place(t) # SeedPlace /\ t \in Int
    BY RateTypes, StartIs
  <2>2. PICK v \in Starts(inForce) :
          /\ Place(t) = Place(v) /\ rows[Place(t)].from = v
          /\ rows[Place(t)].to = BandEnd(inForce, v) /\ rows[Place(t)].rate = inForce[v]
    BY <1>1, <1>2, <2>1
  <2>3. v \in Int
    BY RateTypes, StartIs
  <2>4. v = t
    BY <2>1, <2>2, <2>3 DEF Place
  <2>. QED  BY <2>2, <2>4
<1>3. ASSUME SeedPlace \in DOMAIN rows
      PROVE  rows[SeedPlace].from = 0 /\ rows[SeedPlace].to = 1
  <2>1. rows[SeedPlace] = SeedRow(rows[SeedPlace].rate)
    BY <1>3 DEF RowsRight
  <2>2. \A x : SeedRow(x).from = 0 /\ SeedRow(x).to = 1
    BY DEF SeedRow
  <2>. QED  BY <2>1, <2>2
<1>. QED  BY <1>1, <1>2, <1>3

(***************************************************************************)
(* A row of a band that has started and not ended gives its rate to the    *)
(* half-hour.                                                              *)
(***************************************************************************)
LEMMA InBand ==
    ASSUME NEW force \in Forces, NEW t \in Starts(force), NEW s \in Int,
           t <= s, s < BandEnd(force, t)
    PROVE  force[s] = force[t] /\ force[s] # NoPrice
<1>1. t \in Times /\ t \in Int /\ force[t] # NoPrice
  BY StartIs
<1>. DEFINE e == BandEnd(force, t)
<1>2. e \in t + 1 .. Window + 1 /\ \A u \in t .. e - 1 : force[u] = force[t]
  BY <1>1, BandEndIs
<1>. HIDE DEF e
<1>3. s < e
  BY DEF e
<1>4. s \in t .. e - 1
  BY <1>1, <1>2, <1>3, RateReplayAssumption
<1>. QED  BY <1>1, <1>2, <1>4

(***************************************************************************)
(* An element that none exceeds is the greatest.                           *)
(***************************************************************************)
LEMMA MaxUnique ==
    ASSUME NEW S, S \subseteq Int, NEW m \in S, \A x \in S : x <= m
    PROVE  Max(S) = m
<1>1. m \in Int /\ S # {}
  OBVIOUS
<1>2. Max(S) \in S /\ \A x \in S : x <= Max(S)
  BY <1>1, MaxIs
<1>3. Max(S) \in Int /\ Max(S) <= m /\ m <= Max(S)
  BY <1>2
<1>. QED  BY <1>1, <1>3

(***************************************************************************)
(* What the walk gives a half-hour: the rate of the row it stops at, if    *)
(* that has started, else the rate of the half-hour before.                *)
(***************************************************************************)
WalkRate ==
  IF Stop \in DOMAIN rows /\ rows[Stop].from <= slotAt THEN rows[Stop].rate
  ELSE IF slotAt = 0 THEN NoPrice ELSE ratesAt[slotAt - 1]

(***************************************************************************)
(* While a band lasts the pointer stops at its row; only in the first      *)
(* half-hour may the seed be before it.                                    *)
(***************************************************************************)
LEMMA StopAtBand ==
    ASSUME RateTypeOK, RowsRight, PassedEnded, slotAt < Window,
           NEW t \in Starts(inForce), t <= slotAt, slotAt < BandEnd(inForce, t)
    PROVE  Stop \in DOMAIN rows /\ (Stop = Place(t) \/ (Stop = SeedPlace /\ slotAt = 0))
<1>1. /\ slotAt \in Int /\ 0 <= slotAt /\ Window \in Nat /\ inForce \in Forces /\ t \in Int
      /\ BandEnd(inForce, t) \in Int
  <2>1. slotAt \in 0 .. Window /\ Window \in Nat /\ inForce \in Forces
    BY RateTypes
  <2>2. t \in Int /\ t \in Times
    BY <2>1, StartIs
  <2>3. BandEnd(inForce, t) \in Int
    <3>1. BandEnd(inForce, t) \in t + 1 .. Window + 1
      BY <2>1, <2>2, BandEndIs
    <3>. QED  BY <2>1, <2>2, <3>1
  <2>. QED  BY <2>1, <2>2, <2>3
<1>2. Place(t) \in DOMAIN rows
  <2>1. t < Window /\ BandEnd(inForce, t) > 0
    BY <1>1
  <2>. QED  BY <2>1 DEF RowsRight
<1>3. rows[Place(t)].to > slotAt
  <2>1. rows[Place(t)].to = BandEnd(inForce, t)
    BY <1>2, RowIs
  <2>. QED  BY <1>1, <2>1
<1>4. Stop \in Int /\ Place(t) \in Int /\ Stop <= Place(t)
  <2>1. Stop \in Int /\ (Place(t) < Stop => rows[Place(t)].to <= slotAt)
    BY <1>2, StopIs
  <2>2. Place(t) \in Int /\ rows[Place(t)].to \in Int
    BY <1>2, RateTypes
  <2>. QED  BY <1>1, <1>3, <2>1, <2>2
<1>5. Stop \in DOMAIN rows
  <2>1. Place(t) <= Place(Window) /\ Place(Window) \in Int /\ Place(Window + 1) \in Int
        /\ Place(Window) < Place(Window + 1)
    BY <1>2, RateTypes
  <2>2. Stop # Place(Window + 1)
    BY <1>4, <2>1
  <2>. QED  BY <2>2, StopIs
<1>6. rows[Stop].to > slotAt
  BY <1>5, StopIs
<1>7. CASE Stop = SeedPlace
  <2>1. rows[Stop].to = 1
    BY <1>5, <1>7, RowIs
  <2>. QED  BY <1>1, <1>5, <1>6, <1>7, <2>1
<1>8. CASE Stop # SeedPlace
  <2>1. PICK v \in Starts(inForce) : Stop = Place(v) /\ rows[Stop].to = BandEnd(inForce, v)
    BY <1>5, <1>8, RowIs
  <2>2. v \in Int
    BY <1>1, StartIs
  <2>3. v <= t
    BY <1>1, <1>4, <2>1, <2>2 DEF Place
  <2>4. v < t => BandEnd(inForce, v) <= t
    BY <1>1, BandsApart
  <2>5. ~ (v < t)
    <3>1. BandEnd(inForce, v) > slotAt
      BY <1>6, <2>1
    <3>2. rows[Stop].to \in Int
      BY <1>5, RateTypes
    <3>3. BandEnd(inForce, v) \in Int
      BY <2>1, <3>2
    <3>. QED  BY <1>1, <2>4, <3>1, <3>3
  <2>6. v = t
    BY <1>1, <2>2, <2>3, <2>5
  <2>. QED  BY <1>5, <2>1, <2>6
<1>. QED  BY <1>7, <1>8

LEMMA WalkRateType ==
    ASSUME RateTypeOK, slotAt < Window
    PROVE  WalkRate \in Prices \cup {NoPrice}
<1>1. CASE Stop \in DOMAIN rows /\ rows[Stop].from <= slotAt
  <2>1. rows[Stop] \in Rows
    BY <1>1, RateTypes
  <2>2. rows[Stop].rate \in Prices
    BY <2>1 DEF Rows
  <2>. QED  BY <1>1, <2>2 DEF WalkRate
<1>2. CASE ~ (Stop \in DOMAIN rows /\ rows[Stop].from <= slotAt)
  <2>1. CASE slotAt = 0
    BY <1>2, <2>1 DEF WalkRate
  <2>2. CASE slotAt # 0
    <3>1. slotAt - 1 \in Slots
      <4>1. slotAt \in 0 .. Window /\ Window \in Nat
        BY RateTypes
      <4>. QED  BY <2>2, <4>1 DEF Slots
    <3>2. ratesAt[slotAt - 1] \in Prices \cup {NoPrice}
      BY <3>1 DEF RateTypeOK
    <3>. QED  BY <1>2, <2>2, <3>2 DEF WalkRate
  <2>. QED  BY <2>1, <2>2
<1>. QED  BY <1>1, <1>2

(***************************************************************************)
(* The rate the walk gives a half-hour is due: that of the band around it, *)
(* or the one kept from before the gap it is in.                           *)
(***************************************************************************)
LEMMA WalkRateDue ==
    ASSUME RateTypeOK, RowsRight, PassedEnded, slotAt < Window,
           \A s \in Slots : s < slotAt => RateDue(s), Covered(slotAt) # {}
    PROVE  WalkRate \in Due(slotAt)
<1>. DEFINE s == slotAt
<1>1. /\ slotAt \in Int /\ 0 <= slotAt /\ Window \in Nat /\ slotAt \in Slots
      /\ inForce \in Forces /\ slotAt \in Times
  <2>1. slotAt \in 0 .. Window /\ Window \in Nat /\ inForce \in Forces
    BY RateTypes
  <2>. QED  BY <2>1 DEF Slots, Times
<1>2. Covered(slotAt) \subseteq Int /\ \A t \in Covered(slotAt) : t <= slotAt
  BY <1>1 DEF Covered
<1>3. CASE inForce[slotAt] # NoPrice
  <2>1. PICK t \in Starts(inForce) :
          t <= slotAt /\ slotAt < BandEnd(inForce, t) /\ inForce[t] = inForce[slotAt]
    BY <1>1, <1>3, BandAround
  <2>2. Stop \in DOMAIN rows /\ (Stop = Place(t) \/ (Stop = SeedPlace /\ slotAt = 0))
    BY <2>1, StopAtBand
  <2>3. slotAt \in Covered(slotAt)
    BY <1>1, <1>3 DEF Covered
  <2>4. Max(Covered(slotAt)) = slotAt
    BY <1>2, <2>3, MaxUnique
  <2>5. CASE Stop = Place(t)
    <3>1. rows[Stop].from = t /\ rows[Stop].rate = inForce[t]
      BY <2>2, <2>5, RowIs
    <3>2. WalkRate = inForce[slotAt]
      BY <2>1, <2>2, <3>1 DEF WalkRate
    <3>. QED  BY <2>4, <3>2 DEF Due
  <2>6. CASE Stop = SeedPlace /\ slotAt = 0
    <3>1. seeded
      BY <1>1, <1>3, <2>2, <2>6 DEF RowsRight
    <3>2. PICK m \in -2 .. -1 : LatestBefore(m) /\ rows[SeedPlace].rate = inForce[m]
      BY <3>1 DEF RowsRight
    <3>3. m \in Covered(0)
      BY <3>1, <3>2 DEF Covered, LatestBefore
    <3>4. rows[Stop].from <= slotAt
      <4>1. rows[SeedPlace].from = 0
        BY <2>2, <2>6, RowIs
      <4>. QED  BY <2>6, <4>1
    <3>5. WalkRate = inForce[m]
      BY <2>2, <2>6, <3>2, <3>4 DEF WalkRate
    <3>. QED  BY <2>4, <2>6, <3>3, <3>5 DEF Due
  <2>. QED  BY <2>2, <2>5, <2>6
<1>4. CASE inForce[slotAt] = NoPrice
  <2>1. ASSUME Stop \in DOMAIN rows, rows[Stop].from <= slotAt
        PROVE  Stop = SeedPlace /\ slotAt = 0
    <3>1. rows[Stop].to > slotAt
      BY <2>1, StopIs
    <3>2. Stop = SeedPlace
      <4>. SUFFICES ASSUME Stop # SeedPlace  PROVE FALSE
        OBVIOUS
      <4>1. PICK v \in Starts(inForce) :
              rows[Stop].from = v /\ rows[Stop].to = BandEnd(inForce, v)
        BY <2>1, RowIs
      <4>2. rows[Stop].to \in Int
        BY <2>1, RateTypes
      <4>3. v <= slotAt /\ slotAt < BandEnd(inForce, v)
        BY <1>1, <2>1, <3>1, <4>1, <4>2
      <4>4. inForce[slotAt] # NoPrice
        BY <1>1, <4>3, InBand
      <4>. QED  BY <1>4, <4>4
    <3>3. rows[Stop].to = 1
      BY <2>1, <3>2, RowIs
    <3>. QED  BY <1>1, <3>1, <3>2, <3>3
  <2>2. CASE slotAt # 0
    <3>1. WalkRate = ratesAt[slotAt - 1]
      BY <2>1, <2>2 DEF WalkRate
    <3>2. slotAt - 1 \in Slots /\ slotAt - 1 < slotAt
      BY <1>1, <2>2 DEF Slots
    <3>3. Covered(slotAt) = Covered(slotAt - 1)
      <4>1. \A t \in -2 .. slotAt : t \in -2 .. slotAt - 1 \/ t = slotAt
        BY <1>1
      <4>2. \A t \in -2 .. slotAt - 1 : t \in -2 .. slotAt
        BY <1>1
      <4>3. \A t : t \in Covered(slotAt) <=> t \in Covered(slotAt - 1)
        BY <1>4, <4>1, <4>2 DEF Covered
      <4>. QED  BY <4>3
    <3>4. RateDue(slotAt - 1)
      BY <3>2
    <3>5. ratesAt[slotAt - 1] \in Due(slotAt - 1)
      BY <3>3, <3>4 DEF RateDue
    <3>6. Due(slotAt) = Due(slotAt - 1)
      BY <3>3 DEF Due
    <3>. QED  BY <3>1, <3>5, <3>6
  <2>3. CASE slotAt = 0
    <3>1. PICK c \in Covered(0) : TRUE
      BY <2>3
    <3>2. \A t \in Covered(0) : t \in -2 .. -1 /\ inForce[t] # NoPrice /\ seeded
      BY <1>4, <2>3 DEF Covered
    <3>3. seeded /\ SeedPlace \in DOMAIN rows
      BY <3>1, <3>2 DEF RowsRight
    <3>4. PICK m \in -2 .. -1 : LatestBefore(m) /\ rows[SeedPlace].rate = inForce[m]
      BY <3>3 DEF RowsRight
    <3>5. m \in Covered(0) /\ \A t \in Covered(0) : t <= m
      <4>1. m \in Covered(0)
        BY <3>3, <3>4 DEF Covered, LatestBefore
      <4>2. ASSUME NEW t \in Covered(0), ~ (t <= m)  PROVE FALSE
        <5>1. t \in m + 1 .. -1 /\ inForce[t] # NoPrice
          BY <3>2, <4>2
        <5>. QED  BY <3>4, <5>1 DEF LatestBefore
      <4>. QED  BY <4>1, <4>2
    <3>6. Max(Covered(0)) = m
      BY <1>2, <2>3, <3>5, MaxUnique
    <3>7. Stop = SeedPlace
      <4>1. rows[SeedPlace].to = 1
        BY <3>3, RowIs
      <4>2. Stop \in Int /\ SeedPlace \in Int /\ Stop <= SeedPlace
        <5>1. Stop \in Int /\ (SeedPlace < Stop => rows[SeedPlace].to <= slotAt)
          BY <3>3, StopIs
        <5>2. SeedPlace \in Int
          BY DEF SeedPlace, Place
        <5>. QED  BY <2>3, <4>1, <5>1, <5>2
      <4>3. Stop \in DOMAIN rows
        <5>1. SeedPlace <= Place(Window) /\ Place(Window) \in Int /\ Place(Window + 1) \in Int
              /\ Place(Window) < Place(Window + 1)
          BY <3>3, RateTypes
        <5>2. Stop # Place(Window + 1)
          BY <4>2, <5>1
        <5>. QED  BY <5>2, StopIs
      <4>. SUFFICES ASSUME Stop # SeedPlace  PROVE FALSE
        OBVIOUS
      <4>4. PICK v \in Starts(inForce) :
              Stop = Place(v) /\ rows[Stop].to = BandEnd(inForce, v)
        BY <4>3, RowIs
      <4>5. v \in Int
        BY <1>1, StartIs
      <4>6. v <= 0
        BY <4>2, <4>4, <4>5 DEF Place, SeedPlace
      <4>7. 0 < BandEnd(inForce, v)
        <5>1. rows[Stop].to > slotAt /\ rows[Stop].to \in Int
          BY <4>3, StopIs, RateTypes
        <5>. QED  BY <2>3, <4>4, <5>1
      <4>8. inForce[0] # NoPrice
        BY <1>1, <4>6, <4>7, InBand
      <4>. QED  BY <1>4, <2>3, <4>8
    <3>8. rows[Stop].from <= slotAt
      <4>1. rows[SeedPlace].from = 0
        BY <3>3, RowIs
      <4>. QED  BY <2>3, <3>7, <4>1
    <3>9. WalkRate = inForce[m]
      BY <3>3, <3>4, <3>7, <3>8 DEF WalkRate
    <3>. QED  BY <2>3, <3>6, <3>9 DEF Due
  <2>. QED  BY <2>2, <2>3
<1>. QED  BY <1>3, <1>4

(***************************************************************************)
(* The rows of the window have no seed; the latest rate before the window  *)
(* is that of the latest band that starts before it.                       *)
(***************************************************************************)
LEMMA WindowRows ==
    ASSUME inForce \in Forces, rows = BandsIn(inForce, 0, Window)
    PROVE  /\ SeedPlace \notin DOMAIN rows
           /\ \A k \in DOMAIN rows :
                \E t \in Starts(inForce) : k = Place(t) /\ rows[k] = Band(inForce, t)
           /\ \A t \in Starts(inForce) :
                t < Window /\ BandEnd(inForce, t) > 0 => Place(t) \in DOMAIN rows
<1>1. /\ DOMAIN rows = {Place(t) : t \in Within(inForce, 0, Window)}
      /\ \A t \in Within(inForce, 0, Window) : rows[Place(t)] = Band(inForce, t)
  BY BandsInIs
<1>2. \A t \in Within(inForce, 0, Window) : t \in Starts(inForce)
  BY DEF Within
<1>3. \A t \in Starts(inForce) : Place(t) # SeedPlace
  BY StartIs
<1>4. \A t \in Starts(inForce) :
        t < Window /\ BandEnd(inForce, t) > 0 => t \in Within(inForce, 0, Window)
  BY DEF Within
<1>. QED  BY <1>1, <1>2, <1>3, <1>4

(***************************************************************************)
(* The rate fetched from before the window is the latest one there.        *)
(***************************************************************************)
LEMMA EarlierRate ==
    ASSUME inForce \in Forces, BandsIn(inForce, -2, 0) # NoRows
    PROVE  /\ Latest(BandsIn(inForce, -2, 0)) \in Prices
           /\ \E m \in -2 .. -1 :
                LatestBefore(m) /\ Latest(BandsIn(inForce, -2, 0)) = inForce[m]
<1>. DEFINE rate == Latest(BandsIn(inForce, -2, 0))
<1>1. PICK t \in Within(inForce, -2, 0) :
        rate = inForce[t] /\ \A v \in Within(inForce, -2, 0) : v <= t
  BY LatestIs
<1>. HIDE DEF rate
<1>2. t \in Starts(inForce) /\ t < 0
  BY DEF Within
<1>3. t \in Int /\ t \in Times /\ inForce[t] \in Prices /\ inForce[t] # NoPrice
  BY <1>2, StartIs
<1>4. t \in -2 .. -1
  BY <1>2, <1>3 DEF Times
<1>5. CASE inForce[-1] = NoPrice \/ t = -1
  <2>1. \A u \in t + 1 .. -1 : inForce[u] = NoPrice
    BY <1>4, <1>5
  <2>2. LatestBefore(t)
    BY <1>3, <1>4, <2>1 DEF LatestBefore
  <2>. QED  BY <1>1, <1>3, <1>4, <2>2 DEF rate
<1>6. CASE inForce[-1] # NoPrice /\ t = -2
  <2>1. -1 \in Times /\ -1 \in Int
    BY RateReplayAssumption DEF Times
  <2>2. inForce[-1] = inForce[-2]
    <3>. SUFFICES ASSUME inForce[-1] # inForce[-2]  PROVE FALSE
      OBVIOUS
    <3>1. -1 \in Starts(inForce)
      BY <1>6, <2>1 DEF Starts
    <3>2. BandEnd(inForce, -1) \in (-1) + 1 .. Window + 1
      BY <2>1, BandEndIs
    <3>3. -1 \in Within(inForce, -2, 0)
      BY <3>1, <3>2, RateReplayAssumption DEF Within
    <3>4. -1 <= t
      BY <1>1, <3>3
    <3>. QED  BY <1>6, <3>4
  <2>3. LatestBefore(-1)
    BY <1>6 DEF LatestBefore
  <2>. QED  BY <1>1, <1>3, <1>6, <2>2, <2>3 DEF rate
<1>. QED  BY <1>4, <1>5, <1>6

(***************************************************************************)
(* Adding the seed leaves the other rows as they are.                      *)
(***************************************************************************)
LEMMA WithSeedRows ==
    ASSUME RateTypeOK, NEW rate \in Prices
    PROVE  /\ DOMAIN WithSeed(rate) = DOMAIN rows \cup {SeedPlace}
           /\ DOMAIN WithSeed(rate) \subseteq Place(-2) .. Place(Window)
           /\ WithSeed(rate) \in [DOMAIN WithSeed(rate) -> Rows]
           /\ WithSeed(rate)[SeedPlace] = SeedRow(rate) /\ SeedRow(rate).rate = rate
           /\ \A k \in DOMAIN rows \ {SeedPlace} : WithSeed(rate)[k] = rows[k]
<1>. DEFINE w == WithSeed(rate)
<1>1. w = [k \in DOMAIN rows \cup {SeedPlace} |-> IF k = SeedPlace THEN SeedRow(rate) ELSE rows[k]]
  BY DEF WithSeed
<1>. HIDE DEF w
<1>2. DOMAIN w = DOMAIN rows \cup {SeedPlace}
  BY <1>1
<1>3. w[SeedPlace] = SeedRow(rate) /\ \A k \in DOMAIN rows \ {SeedPlace} : w[k] = rows[k]
  BY <1>1
<1>4. SeedRow(rate) \in Rows /\ SeedRow(rate).rate = rate
  BY RateReplayAssumption DEF SeedRow, Rows, Times
<1>5. SeedPlace \in Place(-2) .. Place(Window)
  BY RateReplayAssumption DEF SeedPlace, Place
<1>6. DOMAIN rows \subseteq Place(-2) .. Place(Window)
  BY DEF RateTypeOK
<1>7. \A k \in DOMAIN w : w[k] \in Rows
  BY <1>2, <1>3, <1>4, RateTypes
<1>8. w \in [DOMAIN w -> Rows]
  <2>1. w = [k \in DOMAIN w |-> w[k]]
    BY <1>1
  <2>. QED  BY <1>7, <2>1
<1>. QED  BY <1>2, <1>3, <1>4, <1>5, <1>6, <1>8 DEF w

LEMMA RateInitial == RateInit => RateInv
<1>. SUFFICES ASSUME RateInit  PROVE RateInv
  OBVIOUS
<1>1. Place(-2) \in Place(-2) .. Place(Window + 1) /\ 0 \in 0 .. Window
  BY RateReplayAssumption DEF Place
<1>2. NoRows \in [DOMAIN NoRows -> Rows] /\ DOMAIN NoRows = {}
  BY DEF NoRows
<1>3. RateTypeOK
  BY <1>1, <1>2 DEF RateInit, RateTypeOK, Rows, Unpriced
<1>. QED  BY <1>3 DEF RateInit, RateInv, PricedInForce

LEMMA FetchRatesKeeps == RateInv /\ FetchRates => RateInv'
<1>. SUFFICES ASSUME RateInv, FetchRates  PROVE RateInv'
  OBVIOUS
<1>1. inForce' \in Forces /\ rows' = BandsIn(inForce', 0, Window)
  BY DEF FetchRates, Forces
<1>2. rows' \in [DOMAIN rows' -> Rows] /\ DOMAIN rows' \subseteq Place(-2) .. Place(Window)
  BY <1>1, BandsInIs
<1>3. RateTypeOK'
  BY <1>1, <1>2 DEF FetchRates, RateInv, RateTypeOK, Forces, Rows
<1>. QED  BY <1>1, <1>3 DEF FetchRates, RateInv, PricedInForce

LEMMA SeedFetchedKeeps == RateInv /\ SeedFetched => RateInv'
<1>. SUFFICES ASSUME RateInv, SeedFetched  PROVE RateInv'
  OBVIOUS
<1>. DEFINE rate == Latest(BandsIn(inForce, -2, 0))
<1>1. /\ RateTypeOK /\ inForce \in Forces /\ rows = BandsIn(inForce, 0, Window)
      /\ rows' = WithSeed(rate) /\ inForce' = inForce /\ seeded' /\ ratePc' = "walk"
      /\ slotAt' = 0 /\ ratePtr' = Place(-2) /\ priced' = Unpriced
      /\ BandsIn(inForce, -2, 0) # NoRows
  BY RateTypes DEF SeedFetched, RateInv
<1>2. /\ rate \in Prices
      /\ \E m \in -2 .. -1 : LatestBefore(m) /\ rate = inForce[m]
  BY <1>1, EarlierRate
<1>. HIDE DEF rate
<1>3. /\ DOMAIN rows' = DOMAIN rows \cup {SeedPlace}
      /\ DOMAIN rows' \subseteq Place(-2) .. Place(Window) /\ rows' \in [DOMAIN rows' -> Rows]
      /\ rows'[SeedPlace] = SeedRow(rate) /\ SeedRow(rate).rate = rate
      /\ \A k \in DOMAIN rows \ {SeedPlace} : rows'[k] = rows[k]
  BY <1>1, <1>2, WithSeedRows
<1>4. RateTypeOK'
  BY <1>1, <1>3 DEF SeedFetched, RateTypeOK, Rows
<1>5. RowsRight'
  <2>1. \A k \in DOMAIN rows' \ {SeedPlace} :
          \E t \in Starts(inForce') : k = Place(t) /\ rows'[k] = Band(inForce', t)
    BY <1>1, <1>3, WindowRows
  <2>2. \A t \in Starts(inForce') :
          t < Window /\ BandEnd(inForce', t) > 0 => Place(t) \in DOMAIN rows'
    BY <1>1, <1>3, WindowRows
  <2>3. rows'[SeedPlace] = SeedRow(rows'[SeedPlace].rate) /\ SeedPlace \in DOMAIN rows'
    BY <1>3
  <2>4. \E m \in -2 .. -1 : LatestBefore(m)' /\ rows'[SeedPlace].rate = inForce'[m]
    BY <1>1, <1>2, <1>3 DEF LatestBefore
  <2>. QED  BY <1>1, <2>1, <2>2, <2>3, <2>4 DEF RowsRight
<1>6. PassedEnded'
  <2>1. \A k \in DOMAIN rows' : ~ (k < ratePtr')
    BY <1>1, <1>3, RateReplayAssumption DEF Place
  <2>. QED  BY <2>1 DEF PassedEnded
<1>7. \A s \in Slots : ~ (s < slotAt')
  BY <1>1 DEF Slots
<1>. QED  BY <1>1, <1>4, <1>5, <1>6, <1>7 DEF RateInv, PricedInForce

LEMMA NoSeedKeeps == RateInv /\ NoSeed => RateInv'
<1>. SUFFICES ASSUME RateInv, NoSeed  PROVE RateInv'
  OBVIOUS
<1>1. /\ RateTypeOK /\ inForce \in Forces /\ rows = BandsIn(inForce, 0, Window)
      /\ rows' = rows /\ inForce' = inForce /\ seeded' = seeded /\ ~ seeded
      /\ ratePc' = (IF rows = NoRows THEN "latest" ELSE "walk")
      /\ slotAt' = 0 /\ ratePtr' = Place(-2) /\ priced' = Unpriced
      /\ slotAt' = slotAt /\ ratePtr' = ratePtr /\ priced' = priced
      /\ ratesAt' = ratesAt /\ lastRate' = lastRate
  BY RateTypes DEF NoSeed, RateInv
<1>2. RateTypeOK'
  BY <1>1 DEF RateTypeOK
<1>3. RowsRight'
  <2>1. RowsRight
    BY <1>1, WindowRows DEF RowsRight
  <2>. QED  BY <1>1, <2>1 DEF RowsRight, LatestBefore
<1>4. PassedEnded'
  <2>1. \A k \in DOMAIN rows' : ~ (k < ratePtr')
    BY <1>1, RateReplayAssumption DEF Place, RateTypeOK
  <2>. QED  BY <2>1 DEF PassedEnded
<1>5. \A s \in Slots : ~ (s < slotAt')
  BY <1>1 DEF Slots
<1>. QED  BY <1>1, <1>2, <1>3, <1>4, <1>5 DEF RateInv, PricedInForce

LEMMA LatestFetchedKeeps == RateInv /\ LatestFetched => RateInv'
<1>. SUFFICES ASSUME RateInv, LatestFetched  PROVE RateInv'
  OBVIOUS
<1>. DEFINE rate == Latest(BandsIn(inForce, -2, Window + 1))
<1>1. /\ RateTypeOK /\ inForce \in Forces /\ rows = BandsIn(inForce, 0, Window) /\ rows = NoRows
      /\ inForce' = inForce /\ seeded' = seeded /\ ~ seeded /\ ratePc' = "walk"
      /\ slotAt' = 0 /\ ratePtr' = Place(-2) /\ priced' = Unpriced
      /\ slotAt' = slotAt /\ ratePtr' = ratePtr /\ priced' = priced
      /\ ratesAt' = ratesAt /\ lastRate' = lastRate
  BY RateTypes DEF LatestFetched, RateInv
<1>2. \A k : k \notin DOMAIN rows
  BY <1>1 DEF NoRows
<1>3. \A t \in Starts(inForce) : ~ (t < Window /\ BandEnd(inForce, t) > 0)
  BY <1>1, <1>2, WindowRows
<1>4. ASSUME NEW s \in Slots  PROVE inForce[s] = NoPrice
  <2>. SUFFICES ASSUME inForce[s] # NoPrice  PROVE FALSE
    OBVIOUS
  <2>1. s \in Times /\ s \in Int /\ 0 <= s /\ s < Window /\ Window \in Int
    BY RateReplayAssumption DEF Slots, Times
  <2>2. PICK t \in Starts(inForce) : t <= s /\ s < BandEnd(inForce, t)
    BY <1>1, <2>1, BandAround
  <2>3. t \in Int /\ t \in Times
    BY <1>1, StartIs
  <2>4. BandEnd(inForce, t) \in t + 1 .. Window + 1
    BY <1>1, <2>3, BandEndIs
  <2>. QED  BY <1>3, <2>1, <2>2, <2>3, <2>4
<1>5. CASE rows' = rows
  <2>1. RateTypeOK'
    BY <1>1, <1>5 DEF RateTypeOK
  <2>2. RowsRight' /\ PassedEnded'
    BY <1>1, <1>2, <1>3, <1>5 DEF RowsRight, PassedEnded
  <2>3. \A s \in Slots : ~ (s < slotAt')
    BY <1>1 DEF Slots
  <2>. QED  BY <1>1, <2>1, <2>2, <2>3 DEF RateInv, PricedInForce
<1>6. CASE BandsIn(inForce, -2, Window + 1) # NoRows /\ rows' = WithSeed(rate)
  <2>1. rate \in Prices
    <3>1. PICK t \in Within(inForce, -2, Window + 1) : rate = inForce[t]
      BY <1>1, <1>6, LatestIs
    <3>2. t \in Starts(inForce)
      BY DEF Within
    <3>. HIDE DEF rate
    <3>. QED  BY <1>1, <3>1, <3>2, StartIs
  <2>. HIDE DEF rate
  <2>2. /\ DOMAIN rows' = DOMAIN rows \cup {SeedPlace}
        /\ DOMAIN rows' \subseteq Place(-2) .. Place(Window) /\ rows' \in [DOMAIN rows' -> Rows]
        /\ rows'[SeedPlace] = SeedRow(rate) /\ SeedRow(rate).rate = rate
    BY <1>1, <1>6, <2>1, WithSeedRows
  <2>3. RateTypeOK'
    BY <1>1, <2>2 DEF RateTypeOK, Rows
  <2>4. RowsRight'
    BY <1>1, <1>2, <1>3, <1>4, <2>2 DEF RowsRight
  <2>5. PassedEnded'
    <3>1. \A k \in DOMAIN rows' : ~ (k < ratePtr')
      BY <1>1, <2>2, RateReplayAssumption DEF Place
    <3>. QED  BY <3>1 DEF PassedEnded
  <2>6. \A s \in Slots : ~ (s < slotAt')
    BY <1>1 DEF Slots
  <2>. QED  BY <1>1, <2>3, <2>4, <2>5, <2>6 DEF RateInv, PricedInForce
<1>. QED  BY <1>5, <1>6 DEF LatestFetched

(***************************************************************************)
(* What is due depends on the tariff only, not on the walk.                *)
(***************************************************************************)
LEMMA DueStays ==
    ASSUME inForce' = inForce, seeded' = seeded
    PROVE  \A s \in Slots : Covered(s)' = Covered(s) /\ Due(s)' = Due(s)
<1>1. ASSUME NEW s  PROVE Covered(s)' = Covered(s)
  BY DEF Covered
<1>. QED  BY <1>1 DEF Due

LEMMA WalkSlotKeeps == RateInv /\ WalkSlot => RateInv'
<1>. SUFFICES ASSUME RateInv, WalkSlot  PROVE RateInv'
  OBVIOUS
<1>1. /\ RateTypeOK /\ RowsRight /\ PassedEnded /\ slotAt < Window
      /\ \A s \in Slots : s < slotAt => RateDue(s)
      /\ ratePc = "walk" /\ ratePc' = "walk" /\ slotAt' = slotAt + 1 /\ priced' = priced
      /\ priced = Unpriced /\ inForce' = inForce /\ rows' = rows /\ seeded' = seeded
      /\ lastRate' = lastRate
  BY DEF WalkSlot, RateInv
<1>2. ratePtr' = Stop /\ ratesAt' = [ratesAt EXCEPT ![slotAt] = WalkRate]
  BY DEF WalkSlot, Stop, WalkRate
<1>3. slotAt \in 0 .. Window /\ Window \in Nat /\ slotAt \in Slots /\ slotAt' \in 0 .. Window
  <2>1. slotAt \in 0 .. Window /\ Window \in Nat
    BY <1>1, RateTypes
  <2>. QED  BY <1>1, <2>1 DEF Slots
<1>4. ratesAt \in [Slots -> Prices \cup {NoPrice}] /\ WalkRate \in Prices \cup {NoPrice}
  BY <1>1, WalkRateType DEF RateTypeOK
<1>5. ratesAt' \in [Slots -> Prices \cup {NoPrice}]
  BY <1>2, <1>4
<1>6. ratePtr' \in Place(-2) .. Place(Window + 1)
  <2>1. Stop \in Int /\ Place(-2) <= Stop /\ Stop <= Place(Window + 1)
    BY <1>1, StopIs
  <2>2. Place(-2) \in Int /\ Place(Window + 1) \in Int
    BY <1>1, RateTypes
  <2>. QED  BY <1>2, <2>1, <2>2
<1>7. RateTypeOK'
  BY <1>1, <1>3, <1>5, <1>6 DEF RateTypeOK
<1>8. RowsRight'
  BY <1>1 DEF RowsRight, LatestBefore
<1>9. PassedEnded'
  <2>1. ASSUME NEW k \in DOMAIN rows, k < Stop  PROVE rows[k].to <= slotAt + 1
    <3>1. rows[k].to <= slotAt
      BY <1>1, <2>1, StopIs
    <3>2. rows[k].to \in Int
      BY <1>1, RateTypes
    <3>. QED  BY <1>3, <3>1, <3>2
  <2>. QED  BY <1>1, <1>2, <2>1 DEF PassedEnded
<1>10. ASSUME NEW s \in Slots, s < slotAt'  PROVE RateDue(s)'
  <2>1. Covered(s)' = Covered(s) /\ Due(s)' = Due(s)
    BY <1>1, DueStays
  <2>2. CASE s = slotAt
    <3>1. ratesAt'[s] = WalkRate
      BY <1>2, <1>3, <1>4, <2>2
    <3>2. Covered(slotAt) # {} => WalkRate \in Due(slotAt)
      BY <1>1, WalkRateDue
    <3>. QED  BY <2>1, <2>2, <3>1, <3>2 DEF RateDue
  <2>3. CASE s # slotAt
    <3>1. ratesAt'[s] = ratesAt[s]
      BY <1>2, <1>4, <2>3
    <3>2. s < slotAt
      BY <1>1, <1>3, <1>10, <2>3 DEF Slots
    <3>3. RateDue(s)
      BY <1>1, <3>2
    <3>. QED  BY <2>1, <3>1, <3>3 DEF RateDue
  <2>. QED  BY <2>2, <2>3
<1>. QED  BY <1>1, <1>7, <1>8, <1>9, <1>10 DEF RateInv, PricedInForce

LEMMA MapBuiltKeeps == RateInv /\ MapBuilt => RateInv'
<1>. SUFFICES ASSUME RateInv, MapBuilt  PROVE RateInv'
  OBVIOUS
<1>1. /\ RateTypeOK /\ \A s \in Slots : s < Window => RateDue(s)
      /\ ratePc' = "reprice" /\ slotAt' = 0 /\ priced' = Unpriced /\ priced' = priced
      /\ inForce' = inForce /\ rows' = rows /\ seeded' = seeded /\ ratePtr' = ratePtr
      /\ ratesAt' = ratesAt /\ lastRate' = lastRate
  BY DEF MapBuilt, RateInv
<1>2. RateTypeOK'
  BY <1>1, RateReplayAssumption DEF RateTypeOK
<1>3. ASSUME NEW s \in Slots  PROVE RateDue(s)'
  <2>1. s < Window
    BY RateReplayAssumption DEF Slots
  <2>2. RateDue(s)
    BY <1>1, <2>1
  <2>3. Covered(s)' = Covered(s) /\ Due(s)' = Due(s)
    BY <1>1, DueStays
  <2>. QED  BY <1>1, <2>2, <2>3 DEF RateDue
<1>4. PricedInForce'
  BY <1>1 DEF PricedInForce, Unpriced
<1>. QED  BY <1>1, <1>2, <1>3, <1>4 DEF RateInv

(***************************************************************************)
(* What a half-hour is priced at: a rate or none, and where it has a due   *)
(* rate, that one.                                                         *)
(***************************************************************************)
LEMMA KnownRates ==
    ASSUME RateTypeOK, NEW s \in Slots
    PROVE  /\ \A k \in Known(s) : k \in Int /\ 0 <= k /\ k <= Window /\ ratesAt[k] \in Prices
           /\ \A last \in Prices \cup {0} : Known(s) # {} => LookupRate(s, last) \in Prices
<1>1. ASSUME NEW k \in Known(s)
      PROVE  k \in Int /\ 0 <= k /\ k <= Window /\ ratesAt[k] \in Prices
  <2>1. k \in Slots /\ ratesAt[k] # NoPrice
    BY DEF Known
  <2>. QED  BY <2>1, RateReplayAssumption DEF Slots, RateTypeOK
<1>2. ASSUME NEW last \in Prices \cup {0}, Known(s) # {}
      PROVE  LookupRate(s, last) \in Prices
  <2>1. CASE s \in Known(s)
    BY <1>1, <2>1 DEF LookupRate
  <2>2. CASE s \notin Known(s) /\ last > 0
    <3>1. last # 0
      BY <2>2, RateReplayAssumption
    <3>. QED  BY <2>2, <3>1 DEF LookupRate
  <2>3. CASE s \notin Known(s) /\ ~ (last > 0) /\ \E k \in Known(s) : k < s
    <3>. DEFINE S == {k \in Known(s) : k < s}
    <3>1. S \subseteq Int /\ S # {} /\ \A k \in S : k <= Window
      BY <1>1, <2>3
    <3>2. Max(S) \in S
      <4>1. Window \in Int
        BY RateReplayAssumption
      <4>. HIDE DEF S
      <4>. QED  BY <3>1, <4>1, MaxIs
    <3>3. ratesAt[Max(S)] \in Prices
      BY <1>1, <3>2
    <3>4. LookupRate(s, last) = ratesAt[Max(S)]
      BY <2>3 DEF LookupRate
    <3>. HIDE DEF S
    <3>. QED  BY <3>3, <3>4
  <2>4. CASE s \notin Known(s) /\ ~ (last > 0) /\ ~ \E k \in Known(s) : k < s
    <3>1. Known(s) \subseteq Int /\ \A k \in Known(s) : 0 <= k
      BY <1>1
    <3>2. Min(Known(s)) \in Known(s)
      BY <1>2, <3>1, MinIs
    <3>3. LookupRate(s, last) = ratesAt[Min(Known(s))]
      BY <2>4 DEF LookupRate
    <3>. QED  BY <1>1, <3>2, <3>3
  <2>. QED  BY <2>1, <2>2, <2>3, <2>4
<1>. QED  BY <1>1, <1>2

(***************************************************************************)
(* What is due is a rate.                                                  *)
(***************************************************************************)
LEMMA DueIsRate ==
    ASSUME inForce \in Forces, NEW s \in Slots, Covered(s) # {}
    PROVE  NoPrice \notin Due(s)
<1>1. Covered(s) \subseteq Int /\ s \in Int /\ \A t \in Covered(s) : t <= s
  BY DEF Covered, Slots
<1>2. Max(Covered(s)) \in Covered(s)
  BY <1>1, MaxIs
<1>3. \A x : \A t \in Covered(x) : inForce[t] # NoPrice
  BY DEF Covered
<1>. QED  BY <1>2, <1>3 DEF Due

LEMMA RepriceSlotKeeps == RateInv /\ RepriceSlot => RateInv'
<1>. SUFFICES ASSUME RateInv, RepriceSlot  PROVE RateInv'
  OBVIOUS
<1>1. /\ RateTypeOK /\ \A s \in Slots : RateDue(s)
      /\ ratePc = "reprice" /\ ratePc' = "reprice" /\ slotAt' = slotAt + 1 /\ slotAt < Window
      /\ inForce' = inForce /\ rows' = rows /\ seeded' = seeded /\ ratePtr' = ratePtr
      /\ ratesAt' = ratesAt
  BY DEF RepriceSlot, RateInv
<1>2. PICK replay \in {NoPrice, Replayed(slotAt)} :
        /\ priced' = [slot |-> slotAt, replay |-> replay, simulated |-> Simulated(slotAt)]
        /\ lastRate' = [replay |-> IF replay = NoPrice THEN lastRate["replay"] ELSE replay,
                        simulator |-> IF Simulated(slotAt) = NoPrice THEN LastOfDay(slotAt)
                                      ELSE Simulated(slotAt)]
  BY DEF RepriceSlot
<1>3. slotAt \in 0 .. Window /\ Window \in Nat /\ slotAt \in Slots /\ slotAt' \in 0 .. Window
      /\ inForce \in Forces
  <2>1. slotAt \in 0 .. Window /\ Window \in Nat /\ inForce \in Forces
    BY <1>1, RateTypes
  <2>. QED  BY <1>1, <2>1 DEF Slots
<1>4. lastRate["replay"] \in Prices \cup {0} /\ LastOfDay(slotAt) \in Prices \cup {0}
  BY <1>1 DEF RateTypeOK, LastOfDay
<1>5. Replayed(slotAt) \in Prices \cup {0}
  BY <1>1, <1>3, <1>4 DEF RateTypeOK, Replayed
<1>6. Simulated(slotAt) \in Prices \cup {NoPrice}
  BY <1>1, <1>3, <1>4, KnownRates DEF Simulated
<1>7. RateTypeOK'
  <2>1. lastRate' \in [{"replay", "simulator"} -> Prices \cup {0}]
    <3>. DEFINE r == IF replay = NoPrice THEN lastRate["replay"] ELSE replay
                m == IF Simulated(slotAt) = NoPrice THEN LastOfDay(slotAt)
                     ELSE Simulated(slotAt)
    <3>1. r \in Prices \cup {0} /\ m \in Prices \cup {0}
      BY <1>2, <1>4, <1>5, <1>6
    <3>2. lastRate' = [replay |-> r, simulator |-> m]
      BY <1>2
    <3>. HIDE DEF r, m
    <3>. QED  BY <3>1, <3>2
  <2>2. priced' \in [slot : 0 .. Window, replay : Prices \cup {NoPrice, 0},
                     simulated : Prices \cup {NoPrice}]
    BY <1>2, <1>3, <1>5, <1>6
  <2>. QED  BY <1>1, <1>3, <2>1, <2>2 DEF RateTypeOK
<1>8. ASSUME NEW s \in Slots  PROVE RateDue(s)'
  <2>1. Covered(s)' = Covered(s) /\ Due(s)' = Due(s)
    BY <1>1, DueStays
  <2>. QED  BY <1>1, <2>1 DEF RateDue
<1>9. Covered(slotAt) # {} =>
        /\ Replayed(slotAt) \in Due(slotAt) /\ Simulated(slotAt) \in Due(slotAt)
  <2>. SUFFICES ASSUME Covered(slotAt) # {}
                PROVE  Replayed(slotAt) \in Due(slotAt) /\ Simulated(slotAt) \in Due(slotAt)
    OBVIOUS
  <2>1. ratesAt[slotAt] \in Due(slotAt) /\ ratesAt[slotAt] # NoPrice
    BY <1>1, <1>3, DueIsRate DEF RateDue
  <2>2. slotAt \in Known(slotAt)
    BY <1>3, <2>1 DEF Known
  <2>. QED  BY <2>1, <2>2 DEF Replayed, Simulated, LookupRate
<1>10. PricedInForce'
  <2>1. priced'.slot = slotAt /\ priced'.replay \in {NoPrice, Replayed(slotAt)}
        /\ priced'.simulated = Simulated(slotAt)
    BY <1>2
  <2>2. Covered(priced.slot)' = Covered(slotAt) /\ Due(priced.slot)' = Due(slotAt)
    <3>1. Covered(priced.slot)' = Covered(slotAt) /\ Covered(0)' = Covered(0)
      BY <1>1, <2>1 DEF Covered
    <3>. QED  BY <1>1, <3>1 DEF Due
  <2>. QED  BY <1>9, <2>1, <2>2 DEF PricedInForce
<1>. QED  BY <1>1, <1>7, <1>8, <1>10 DEF RateInv

LEMMA WindowPricedKeeps == RateInv /\ WindowPriced => RateInv'
<1>. SUFFICES ASSUME RateInv, WindowPriced  PROVE RateInv'
  OBVIOUS
<1>1. Place(-2) \in Place(-2) .. Place(Window + 1) /\ 0 \in 0 .. Window
  BY RateReplayAssumption DEF Place
<1>2. NoRows \in [DOMAIN NoRows -> Rows] /\ DOMAIN NoRows = {}
  BY DEF NoRows
<1>3. RateTypeOK'
  BY <1>1, <1>2 DEF WindowPriced, RateTypeOK, Rows, Unpriced
<1>. QED  BY <1>3 DEF WindowPriced, RateInv, PricedInForce

LEMMA RateStep == RateInv /\ [RateNext]_rateVars => RateInv'
<1>. SUFFICES ASSUME RateInv, [RateNext]_rateVars  PROVE RateInv'
  OBVIOUS
<1>1. CASE UNCHANGED rateVars
  BY <1>1 DEF rateVars, RateInv, RateTypeOK, RowsRight, LatestBefore, PassedEnded, RateDue,
              PricedInForce, Covered, Due
<1>. QED
  BY <1>1, FetchRatesKeeps, SeedFetchedKeeps, NoSeedKeeps, LatestFetchedKeeps, WalkSlotKeeps,
     MapBuiltKeeps, RepriceSlotKeeps, WindowPricedKeeps DEF RateNext

LEMMA RateInvariant == RateSpec => []RateInv
BY RateInitial, RateStep, PTL DEF RateSpec

(***************************************************************************)
(* Whatever the tariff's rates and the API's answers: rows, pointer, map   *)
(* and prices of the comparison keep their types; in particular a price is *)
(* always a rate the tariff has, none, or the zero the replay starts from. *)
(***************************************************************************)
THEOREM RateReplayTypeCorrect == RateSpec => []RateTypeOK
<1>1. RateInv => RateTypeOK
  BY DEF RateInv
<1>. QED  BY <1>1, RateInvariant, PTL

(***************************************************************************)
(* For a window of any length and any rates: what calculate_tariff_cost    *)
(* and TariffSimulator price a half-hour at is the rate in force, or the   *)
(* last one before a gap.                                                  *)
(***************************************************************************)
THEOREM RatePricedInForce == RateSpec => []PricedInForce
<1>1. RateInv => PricedInForce
  BY DEF RateInv
<1>. QED  BY <1>1, RateInvariant, PTL
=============================================================================
