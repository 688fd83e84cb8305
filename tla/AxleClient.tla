----------------------------- MODULE AxleClient -----------------------------
(***************************************************************************)
(* AxleClient.async_fetch_event: one fetch of the Axle event, retried      *)
(* after answers that may be passing.  Time is counted in units; an        *)
(* attempt takes up to Timeout.                                            *)
(***************************************************************************)
EXTENDS Integers

CONSTANTS MaxRetries,    \* AXLE_MAX_RETRIES
          Timeout,       \* axle_request_timeout_seconds
          BaseDelay,     \* AXLE_RETRY_BASE_DELAY_SECONDS
          Jitter         \* AXLE_RETRY_JITTER_SECONDS

ASSUME AxleClientAssumption ==
  /\ MaxRetries \in Nat /\ Timeout \in Nat /\ BaseDelay \in Nat /\ Jitter \in Nat

VARIABLES fetchPc,       \* where async_fetch_event is
          attempt,       \* attempt, from zero
          answer,        \* what the last attempt met
          elapsed        \* time since the fetch began

fetchVars == <<fetchPc, attempt, answer, elapsed>>

(***************************************************************************)
(* Answers: an event, no event (204, an empty or malformed payload), and   *)
(* exceptions; a body that is not JSON raises a ValueError.                *)
(***************************************************************************)
Good == {"event", "no event"}
Retryable == {"timeout", "429", "5xx", "client error"}
Final == {"4xx", "not json"}

AxleClientTypeOK ==
  /\ fetchPc \in {"idle", "request", "sleep", "returned", "raised"}
  /\ attempt \in 0 .. MaxRetries
  /\ answer \in Good \cup Retryable \cup Final \cup {"none"}
  /\ elapsed \in Nat

AxleClientInit ==
  /\ fetchPc = "idle" /\ attempt = 0 /\ answer = "none" /\ elapsed = 0

FetchEvent ==
  /\ fetchPc = "idle" /\ fetchPc' = "request"
  /\ UNCHANGED <<attempt, answer, elapsed>>

(***************************************************************************)
(* An attempt ends.  The first form of the last attempt is one too late.   *)
(***************************************************************************)
IsLastAttemptLate == attempt > MaxRetries

IsLastAttempt == attempt >= MaxRetries

AttemptEnds ==
  /\ fetchPc = "request"
  /\ \E a \in Good \cup Retryable \cup Final, d \in 0 .. Timeout :
       /\ a = "timeout" => d = Timeout
       /\ answer' = a /\ elapsed' = elapsed + d
       /\ fetchPc' = IF a \in Good THEN "returned"
                     ELSE IF a \in Retryable /\ ~IsLastAttempt THEN "sleep"
                     ELSE "raised"
  /\ UNCHANGED attempt

(***************************************************************************)
(* _retry_backoff_delay: base * 2 ** attempt, and jitter.                  *)
(***************************************************************************)
PowerOfTwo[n \in Nat] == IF n = 0 THEN 1 ELSE 2 * PowerOfTwo[n - 1]

RetryAfterSleep ==
  /\ fetchPc = "sleep" /\ fetchPc' = "request"
  /\ \E j \in 0 .. Jitter : elapsed' = elapsed + BaseDelay * PowerOfTwo[attempt] + j
  /\ attempt' = attempt + 1
  /\ UNCHANGED answer

FetchOver ==
  /\ fetchPc \in {"returned", "raised"}
  /\ fetchPc' = "idle" /\ attempt' = 0 /\ answer' = "none" /\ elapsed' = 0

AxleClientNext == FetchEvent \/ AttemptEnds \/ RetryAfterSleep \/ FetchOver

AxleClientSpec == AxleClientInit /\ [][AxleClientNext]_fetchVars
-----------------------------------------------------------------------------
(***************************************************************************)
(* A fetch gives up early only on an answer that waiting cannot mend, and  *)
(* on the last attempt otherwise; and however the attempts and delays      *)
(* fall, the update cycle that waits for it is held up no longer than      *)
(* MaxRetries + 1 timeouts, the doubling delays between them and their     *)
(* jitter.                                                                 *)
(***************************************************************************)
FetchBounded ==
  /\ fetchPc = "raised" => answer \in Final \/ attempt = MaxRetries
  /\ fetchPc = "returned" => answer \in Good
  /\ elapsed <= (MaxRetries + 1) * Timeout + BaseDelay * (PowerOfTwo[MaxRetries] - 1)
                  + MaxRetries * Jitter
=============================================================================
