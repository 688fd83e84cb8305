----------------------------- MODULE AxleSource -----------------------------
(***************************************************************************)
(* The coordinator's private cache of the Axle control windows             *)
(* (_axle_cache) and its refresh.  The Axle endpoint reports one event at  *)
(* most, so the cached list has at most one window; it is kept as a set.   *)
(***************************************************************************)
EXTENDS HalfHour, Integers

CONSTANTS Windows,          \* the windows Axle may report
          FreshLimit,       \* AXLE_FRESHNESS_MULTIPLIER poll intervals
          StaleLimit,       \* AXLE_STALE_MAX_AGE_SECONDS
          AxlePolled,       \* axle_enabled, with a token configured
          FailSafeClosed    \* axle_fail_safe_mode is "closed"

ASSUME AxleAssumption ==
  /\ Windows \subseteq [start : Nat, end : Nat, intent : {"export", "import"}]
  /\ \A w \in Windows : w.start < w.end
  /\ FreshLimit \in Nat /\ StaleLimit \in Nat /\ FreshLimit <= StaleLimit
  /\ AxlePolled \in BOOLEAN /\ FailSafeClosed \in BOOLEAN

VARIABLES windows,          \* the cached windows
          changed,          \* windows_changed: set when they differ, cleared
                            \* when the update cycle orders a replan
          lastSuccess,      \* last_success_utc, or Never
          status,           \* source_status
          suppression       \* suppression_reason

axleVars == <<windows, changed, lastSuccess, status, suppression>>

Never == -1
Reported == {{}} \cup {{w} : w \in Windows}

AxleTypeOK ==
  /\ windows \in Reported
  /\ changed \in BOOLEAN
  /\ lastSuccess \in Nat \cup {Never}
  /\ status \in {"fresh", "stale", "unavailable"}
  /\ suppression \in {"none", "active_window", "source_unavailable"}

AxleInit ==
  /\ windows = {} /\ changed = FALSE
  /\ lastSuccess = Never
  /\ status = "unavailable" /\ suppression = "none"

(***************************************************************************)
(* _axle_evaluate_source_status: how old the last success is at tick t.    *)
(***************************************************************************)
SourceStatus(last, t) ==
  IF last = Never THEN "unavailable"
  ELSE IF t - last <= FreshLimit THEN "fresh"
  ELSE IF t - last <= StaleLimit THEN "stale"
  ELSE "unavailable"

(***************************************************************************)
(* The slots of S an export-intent window overlaps                         *)
(* (_axle_slot_forced_action); other intents force nothing.                *)
(***************************************************************************)
ForcedSlots(S, ws) ==
  {s \in S : \E w \in ws : w.intent = "export" /\ Overlaps(w, s)}

(***************************************************************************)
(* The cache after a poll ordered at tick t.  An answer (an event, or none)*)
(* replaces the windows, an AxleClientError keeps them.  An event that does*)
(* not parse raises out of the refresh and is left to the caller.          *)
(***************************************************************************)
Polled(t) ==
  /\ \/ \E ws \in Reported : windows' = ws /\ lastSuccess' = t
     \/ UNCHANGED <<windows, lastSuccess>>
  /\ status' = SourceStatus(lastSuccess', t)

WindowsChanged == changed \/ windows' # windows

(***************************************************************************)
(* What the end of an update cycle that started at tick t records about    *)
(* the source.  Nothing reads it when commands are sent.                   *)
(***************************************************************************)
Diagnose(t) ==
  /\ status' = SourceStatus(lastSuccess', t)
  /\ suppression' =
       IF \E w \in windows' : w.start <= t /\ t < w.end THEN "active_window"
       ELSE IF status' = "unavailable" /\ FailSafeClosed THEN "source_unavailable"
       ELSE "none"
=============================================================================
