--------------------------- MODULE CircuitBreaker ---------------------------
(***************************************************************************)
(* src/guardrails/circuit-breaker.ts: a breaker shared by all the calls to *)
(* one external service.                                                   *)
(*                                                                         *)
(* execute checks the state, awaits the service and then counts the        *)
(* outcome against whatever state the breaker is in by then: calls overlap,*)
(* so one admitted while the breaker was closed can end after it opened,   *)
(* half-opened or was reset.  A call that is turned away changes nothing   *)
(* and has no action here.                                                 *)
(***************************************************************************)
EXTENDS Naturals

CONSTANTS Call,                \* calls of execute that can overlap
          failure_threshold,   \* CircuitBreakerConfig
          success_threshold,
          timeout_seconds,
          MaxFailures          \* bound on failure_count

ASSUME BreakerAssumption ==
  /\ failure_threshold \in Nat \ {0}
  /\ success_threshold \in Nat \ {0}
  /\ timeout_seconds \in Nat
  /\ MaxFailures \in Nat

VARIABLES
  state, failure_count, success_count,
  since_failure,    \* seconds since last_failure_time, up to timeout_seconds
  in_flight,        \* the calls awaiting the service
  failed_in_a_row,  \* history: failures since the last success, and
  passed_in_a_row   \* successes since the last failure, of any call

history == <<failed_in_a_row, passed_in_a_row>>
breaker == <<state, failure_count, success_count, since_failure, in_flight, history>>

BreakerTypeOK ==
  /\ state \in {"closed", "open", "half_open"}
  /\ failure_count \in Nat
  /\ success_count \in Nat
  /\ since_failure \in 0..timeout_seconds
  /\ in_flight \subseteq Call
  /\ failed_in_a_row \in 0..failure_threshold
  /\ passed_in_a_row \in 0..success_threshold

(* The histories count no further than the threshold they are held to. *)
CountUp(n, limit) == IF n < limit THEN n + 1 ELSE n

-----------------------------------------------------------------------------
(* A fresh breaker has last_failure_time 0, which is longer ago than any   *)
(* timeout.                                                                *)
BreakerInit ==
  /\ state = "closed"
  /\ failure_count = 0
  /\ success_count = 0
  /\ since_failure = timeout_seconds
  /\ in_flight = {}
  /\ failed_in_a_row = 0
  /\ passed_in_a_row = 0

Tick ==
  /\ since_failure < timeout_seconds
  /\ since_failure' = since_failure + 1
  /\ UNCHANGED <<state, failure_count, success_count, in_flight, history>>

(* execute up to the await: the first call after the timeout half-opens an *)
(* open breaker, and any number of others follow it.                       *)
Admit(c) ==
  /\ c \notin in_flight
  /\ state = "open" => since_failure >= timeout_seconds
  /\ in_flight' = in_flight \cup {c}
  /\ IF state = "open"
     THEN /\ state' = "half_open"
          /\ success_count' = 0
     ELSE UNCHANGED <<state, success_count>>
  /\ UNCHANGED <<failure_count, since_failure, history>>

(* Mutations of on_success: probe successes are not counted; a success     *)
(* while closed forgets nothing.                                           *)
Answered(c) ==
  /\ c \in in_flight
  /\ in_flight' = in_flight \ {c}
  /\ failed_in_a_row' = 0
  /\ passed_in_a_row' = CountUp(passed_in_a_row, success_threshold)
  /\ UNCHANGED since_failure
SucceedCounting(c, probes, while_closed) ==
  /\ Answered(c)
  /\ IF state = "half_open" /\ probes >= success_threshold
     THEN state' = "closed" /\ failure_count' = 0 /\ success_count' = 0
     ELSE /\ success_count' = IF state = "half_open" THEN probes ELSE success_count
          /\ failure_count' = IF state = "closed" THEN while_closed ELSE failure_count
          /\ UNCHANGED state
SucceedUncounted(c)   == SucceedCounting(c, success_count, 0)
SucceedUnforgiving(c) == SucceedCounting(c, success_count + 1, failure_count)

(* on_success *)
Succeed(c) ==
  /\ c \in in_flight
  /\ in_flight' = in_flight \ {c}
  /\ \/ /\ state = "half_open"
        /\ success_count + 1 >= success_threshold
        /\ state' = "closed"
        /\ failure_count' = 0
        /\ success_count' = 0
     \/ /\ state = "half_open"
        /\ success_count + 1 < success_threshold
        /\ success_count' = success_count + 1
        /\ UNCHANGED <<state, failure_count>>
     \/ /\ state = "closed"
        /\ failure_count' = 0
        /\ UNCHANGED <<state, success_count>>
     \/ /\ state = "open"
        /\ UNCHANGED <<state, failure_count, success_count>>
  /\ failed_in_a_row' = 0
  /\ passed_in_a_row' = CountUp(passed_in_a_row, success_threshold)
  /\ UNCHANGED since_failure

(* Mutation: a failure while half-open does not reopen the breaker. *)
FailProbing(c) ==
  /\ c \in in_flight
  /\ failure_count < MaxFailures
  /\ in_flight' = in_flight \ {c}
  /\ failure_count' = failure_count + 1
  /\ since_failure' = 0
  /\ state' = IF state = "closed" /\ failure_count + 1 >= failure_threshold
              THEN "open" ELSE state
  /\ failed_in_a_row' = CountUp(failed_in_a_row, failure_threshold)
  /\ passed_in_a_row' = 0
  /\ UNCHANGED success_count

(* on_failure; in every state it counts and restarts the timeout. *)
Fail(c) ==
  /\ c \in in_flight
  /\ failure_count < MaxFailures
  /\ in_flight' = in_flight \ {c}
  /\ failure_count' = failure_count + 1
  /\ since_failure' = 0
  /\ state' = IF \/ state = "half_open"
                 \/ state = "closed" /\ failure_count + 1 >= failure_threshold
              THEN "open" ELSE state
  /\ success_count' = IF state = "half_open" THEN 0 ELSE success_count
  /\ failed_in_a_row' = CountUp(failed_in_a_row, failure_threshold)
  /\ passed_in_a_row' = 0

(* reset, the administrator's override. *)
ResetBreaker ==
  /\ state' = "closed"
  /\ failure_count' = 0
  /\ success_count' = 0
  /\ since_failure' = timeout_seconds
  /\ UNCHANGED <<in_flight, history>>

BreakerNext ==
  \/ Tick
  \/ ResetBreaker
  \/ \E c \in Call : Admit(c) \/ Succeed(c) \/ Fail(c)

(* Time passes, the service answers every call, and clients keep calling.  *)
Fairness ==
  /\ WF_breaker(Tick)
  /\ \A c \in Call : WF_breaker(Admit(c)) /\ WF_breaker(Succeed(c) \/ Fail(c))

BreakerSpec == BreakerInit /\ [][BreakerNext]_breaker /\ Fairness

-----------------------------------------------------------------------------
(* The counters always tell how the breaker came to be in its state: below *)
(* the threshold exactly while closed (a breaker that closes again has     *)
(* forgotten the failures that opened it), and probe successes are held    *)
(* only while half-open and never enough of them to close.                 *)
CountersMatchState ==
  /\ state = "closed" <=> failure_count < failure_threshold
  /\ state # "half_open" => success_count = 0
  /\ success_count < success_threshold

(* A closed breaker opens only on failure_threshold failures in a row: one *)
(* success between them, of whichever overlapping call, starts the count   *)
(* again.                                                                  *)
OpensOnFailuresInARow ==
  [][state = "closed" /\ state' = "open"
       => failed_in_a_row' = failure_threshold]_breaker

(* Without the administrator a breaker closes again only on                *)
(* success_threshold successes in a row; a single failure of any call      *)
(* ended since it half-opened, an old one included, forfeits them.         *)
ClosesOnSuccessesInARow ==
  [][state # "closed" /\ state' = "closed" /\ ~ ResetBreaker
       => state = "half_open" /\ passed_in_a_row' = success_threshold]_breaker

(* Once calls stop failing the breaker closes and stays closed: no late    *)
(* answer leaves it open or half-open for good.                            *)
RecoversWhenFailuresStop ==
  <>[][\A c \in Call : ~ Fail(c)]_breaker => <>[](state = "closed")
=============================================================================
