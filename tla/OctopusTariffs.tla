--------------------------- MODULE OctopusTariffs ---------------------------
(***************************************************************************)
(* OctopusAgileRatesClient: the tariff codes of the account, cached until  *)
(* a time to live or the end of an agreement, and the requests of a        *)
(* planning run that use them: standing charge, import rates, export       *)
(* rates.  Planning runs share one client and may overlap; the clock moves *)
(* while an answer is awaited.                                             *)
(***************************************************************************)
EXTENDS Integers, FiniteSets

CONSTANTS Planners,      \* planning runs that may overlap
          Agreements,    \* [code, from, to, export] of the account
          Ttl,           \* _tariff_cache_ttl, in ticks
          MaxTick        \* bound on the clock

VARIABLES tick,          \* the clock
          codes,         \* import_tariff_code and export_tariff_code
          resolvedAt,    \* _tariffs_last_resolved_at
          refreshAfter,  \* _tariffs_refresh_after
          request        \* per planning run, the request it is at

tariffVars == <<tick, codes, resolvedAt, refreshAfter, request>>

NoTariff == "no tariff"
Unset == -1
Open == MaxTick + 1      \* valid_to of an agreement without end

(***************************************************************************)
(* Agreements of one kind follow each other.                               *)
(***************************************************************************)
ASSUME OctopusAssumption ==
  /\ Ttl \in Nat \ {0} /\ MaxTick \in Nat
  /\ \A a \in Agreements : a.from \in Nat /\ a.to \in Nat /\ a.code # NoTariff
  /\ \A a, b \in Agreements :
       a # b /\ a.export = b.export => a.to <= b.from \/ b.to <= a.from

Stages == <<"standing charge", "import", "export">>
AllCodes == {a.code : a \in Agreements} \cup {NoTariff}
AtRest == [pc |-> "idle", stage |-> 1, called |-> 0, code |-> NoTariff]

OctopusTypeOK ==
  /\ tick \in 0 .. MaxTick
  /\ codes \in [{"import", "export"} -> AllCodes]
  /\ resolvedAt \in Unset .. MaxTick /\ refreshAfter \in Unset .. MaxTick + Ttl
  /\ request \in [Planners -> [pc : {"idle", "call", "account", "answer"},
                               stage : 1 .. 3, called : 0 .. MaxTick, code : AllCodes]]

OctopusInit ==
  /\ tick = 0
  /\ codes = [d \in {"import", "export"} |-> NoTariff]
  /\ resolvedAt = Unset /\ refreshAfter = Unset
  /\ request = [p \in Planners |-> AtRest]
-----------------------------------------------------------------------------
(***************************************************************************)
(* _active_agreement_at: an agreement holds from valid_from up to valid_to.*)
(***************************************************************************)
Active(export, t) ==
  {a \in Agreements : a.export = export /\ a.from <= t /\ t < a.to}

CodeAt(export, t) ==
  IF Active(export, t) = {} THEN NoTariff ELSE (CHOOSE a \in Active(export, t) : TRUE).code

(***************************************************************************)
(* The cached codes hold for a time to live, and not beyond the end of an  *)
(* agreement.  The first form has the time to live alone.                  *)
(***************************************************************************)
HasCached == \E d \in {"import", "export"} : codes[d] # NoTariff

CacheHoldsForTtl(t) == HasCached /\ resolvedAt # Unset /\ t < resolvedAt + Ttl

CacheHolds(t) ==
  /\ HasCached /\ resolvedAt # Unset /\ t < resolvedAt + Ttl
  /\ refreshAfter = Unset \/ t < refreshAfter

(***************************************************************************)
(* What an answer about the account, asked for at tick t, leaves in the    *)
(* client: every code is set anew.                                         *)
(***************************************************************************)
Boundaries(t) ==
  {t + Ttl} \cup {a.to : a \in {b \in Active(TRUE, t) \cup Active(FALSE, t) : b.to # Open}}

Resolve(t) ==
  /\ codes' = [d \in {"import", "export"} |-> CodeAt(d = "export", t)]
  /\ resolvedAt' = t
  /\ refreshAfter' \in Boundaries(t) /\ \A e \in Boundaries(t) : refreshAfter' <= e

CodeFor(r, c) == IF Stages[r.stage] = "export" THEN c["export"] ELSE c["import"]

PlanningRun(p) ==
  /\ request[p].pc = "idle"
  /\ request' = [request EXCEPT ![p] = [AtRest EXCEPT !.pc = "call"]]
  /\ UNCHANGED <<tick, codes, resolvedAt, refreshAfter>>

(***************************************************************************)
(* refresh_current_tariffs returns at once or asks for the account.        *)
(***************************************************************************)
CachedCode(p) ==
  /\ request[p].pc = "call" /\ CacheHolds(tick)
  /\ request' = [request EXCEPT ![p] =
       [@ EXCEPT !.pc = "answer", !.called = tick, !.code = CodeFor(request[p], codes)]]
  /\ UNCHANGED <<tick, codes, resolvedAt, refreshAfter>>

AskAccount(p) ==
  /\ request[p].pc = "call" /\ ~CacheHolds(tick)
  /\ request' = [request EXCEPT ![p] = [@ EXCEPT !.pc = "account", !.called = tick]]
  /\ UNCHANGED <<tick, codes, resolvedAt, refreshAfter>>

(***************************************************************************)
(* The answer sets the codes and the run goes on to use them with no await *)
(* in between.                                                             *)
(***************************************************************************)
AccountAnswered(p) ==
  /\ request[p].pc = "account"
  /\ Resolve(request[p].called)
  /\ request' = [request EXCEPT ![p] =
       [@ EXCEPT !.pc = "answer", !.code = CodeFor(request[p], codes')]]
  /\ UNCHANGED tick

(***************************************************************************)
(* The rates come; without a tariff, and after an error, the run ends.     *)
(***************************************************************************)
RatesAnswered(p) ==
  /\ request[p].pc = "answer" /\ request[p].code # NoTariff
  /\ request' = [request EXCEPT ![p] =
       IF @.stage = 3 THEN AtRest
       ELSE [AtRest EXCEPT !.pc = "call", !.stage = request[p].stage + 1]]
  /\ UNCHANGED <<tick, codes, resolvedAt, refreshAfter>>

PlanningFails(p) ==
  /\ request[p].pc \in {"account", "answer"}
  /\ request' = [request EXCEPT ![p] = AtRest]
  /\ UNCHANGED <<tick, codes, resolvedAt, refreshAfter>>

TimePasses ==
  /\ tick < MaxTick /\ tick' = tick + 1
  /\ UNCHANGED <<codes, resolvedAt, refreshAfter, request>>

OctopusNext ==
  \/ \E p \in Planners : \/ PlanningRun(p) \/ CachedCode(p) \/ AskAccount(p)
                         \/ AccountAnswered(p) \/ RatesAnswered(p) \/ PlanningFails(p)
  \/ TimePasses

OctopusSpec == OctopusInit /\ [][OctopusNext]_tariffVars
-----------------------------------------------------------------------------
(***************************************************************************)
(* Though runs overlap, answers overtake each other and an older answer    *)
(* overwrites a newer one in the cache: a run never asks for the rates of  *)
(* a tariff that had ended when it asked, and goes without one only when   *)
(* there was none within the time to live before.                          *)
(***************************************************************************)
TariffInForce ==
  \A p \in Planners : request[p].pc = "answer" =>
    LET r == request[p]
        export == Stages[r.stage] = "export"
    IN IF r.code # NoTariff THEN r.code = CodeAt(export, r.called)
       ELSE \E t \in 0 .. r.called : r.called < t + Ttl /\ CodeAt(export, t) = NoTariff
=============================================================================
