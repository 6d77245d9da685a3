----------------------------- MODULE RateLimiter -----------------------------
(***************************************************************************)
(* RateLimiter of src/guardrails/rate-limiter.ts: a token bucket for each  *)
(* key, refilled from the wall clock whenever it is looked at.             *)
(*                                                                         *)
(* The clock is Date.now(), in ticks of which Second make a second, and    *)
(* may be set to any time.  Tokens are counted in units of which Token     *)
(* make one: a bucket gains requests_per_minute of them in a tick, which   *)
(* are the code's fractions without their rounding.  Every method runs     *)
(* without an await.  requests_per_hour is read nowhere.                   *)
(***************************************************************************)
EXTENDS Integers, Sequences

CONSTANTS Key,                  \* tenants
          Instant,              \* the readings of the clock
          Second,
          requests_per_minute,
          burst_size,           \* 0 where it is not configured
          MaxLog,               \* bound: admissions to a bucket
          Unpromised

ASSUME LimiterAssumption ==
  /\ Instant \subseteq Nat
  /\ Second \in Nat \ {0}
  /\ requests_per_minute \in Nat \ {0}
  /\ burst_size \in Nat
  /\ MaxLog \in Nat
  /\ Unpromised \notin Nat

Token == 60 * Second
max_tokens == Token * (IF burst_size = 0 THEN requests_per_minute ELSE burst_size)

VARIABLES
  now,
  buckets,   \* [tokens, last_refill] of the keys that have a bucket
  admitted,  \* history: when each key's bucket admitted its requests
  promise    \* history: when the key told to wait was told to come back

vars == <<now, buckets, admitted, promise>>

Least(a, b) == IF a <= b THEN a ELSE b
Ceiling(a, b) == (a + b - 1) \div b

-----------------------------------------------------------------------------
Init ==
  /\ now \in Instant
  /\ buckets = <<>>
  /\ admitted = [k \in Key |-> <<>>]
  /\ promise = [k \in Key |-> Unpromised]

(* get_or_create_bucket, then refill_bucket, without what they store. *)
Bucket(k) ==
  IF k \in DOMAIN buckets THEN buckets[k]
  ELSE [tokens |-> max_tokens, last_refill |-> now]

(* Mutation: the burst is not a limit. *)
RefilledUncapped(k) ==
  Bucket(k).tokens + (now - Bucket(k).last_refill) * requests_per_minute

Refilled(k) ==
  Least(max_tokens, Bucket(k).tokens + (now - Bucket(k).last_refill) * requests_per_minute)

Store(k, tokens) ==
  buckets' = [j \in DOMAIN buckets \cup {k} |->
                IF j = k THEN [tokens |-> tokens, last_refill |-> now] ELSE buckets[j]]

(* Mutation: whole seconds are cut off, not rounded up. *)
RetryAfterCut(tokens) == (Token - tokens) \div (requests_per_minute * Second)

(* In seconds. *)
RetryAfter(tokens) == Ceiling(Token - tokens, requests_per_minute * Second)

CheckLimit(k) ==
  /\ UNCHANGED now
  /\ \/ /\ Refilled(k) >= Token
        /\ Len(admitted[k]) < MaxLog
        /\ Store(k, Refilled(k) - Token)
        /\ admitted' = [admitted EXCEPT ![k] = Append(@, now)]
        /\ promise' = [promise EXCEPT ![k] = Unpromised]
     \/ /\ Refilled(k) < Token
        /\ Store(k, Refilled(k))
        /\ promise' = [promise EXCEPT ![k] = now + Second * RetryAfter(Refilled(k))]
        /\ UNCHANGED admitted

(* A key that has a bucket is refilled, one that has none gets none. *)
GetUsage(k) ==
  /\ k \in DOMAIN buckets
  /\ Store(k, Refilled(k))
  /\ UNCHANGED <<now, admitted, promise>>

Reset(k) ==
  /\ buckets' = [j \in DOMAIN buckets \ {k} |-> buckets[j]]
  /\ admitted' = [admitted EXCEPT ![k] = <<>>]
  /\ promise' = [promise EXCEPT ![k] = Unpromised]
  /\ UNCHANGED now

(* Time passes, or the clock is set; set back, it voids what was told. *)
Clock(t) ==
  /\ t # now
  /\ now' = t
  /\ promise' = IF t < now THEN [k \in Key |-> Unpromised] ELSE promise
  /\ UNCHANGED <<buckets, admitted>>

Next ==
  \/ \E k \in Key : CheckLimit(k) \/ GetUsage(k) \/ Reset(k)
  \/ \E t \in Instant : Clock(t)

Spec == Init /\ [][Next]_vars

-----------------------------------------------------------------------------
TypeOK ==
  /\ now \in Instant
  /\ DOMAIN buckets \subseteq Key
  /\ \A k \in DOMAIN buckets :
       /\ buckets[k] \in [tokens : Int, last_refill : Instant]
       /\ buckets[k].tokens <= max_tokens
  /\ admitted \in [Key -> Seq(Instant)]
  /\ promise \in [Key -> Nat \cup {Unpromised}]

(* In any stretch of time a bucket admits no more than the burst and what  *)
(* the rate adds in that time, however the looks at it are spaced and      *)
(* wherever the clock is set: a look never adds what an earlier one did,   *)
(* and time gained by setting the clock back and forth is not paid twice.  *)
AdmissionsBounded ==
  \A k \in Key :
    \A j \in 1 .. Len(admitted[k]) : \A i \in 1 .. j :
      (j - i + 1) * Token
        <= max_tokens + (admitted[k][j] - admitted[k][i]) * requests_per_minute

(* A key that waits as long as it was told, and whose other requests do    *)
(* the same, is then admitted - unless the clock was set back meanwhile.   *)
RetryAfterSuffices ==
  \A k \in Key :
    promise[k] # Unpromised /\ now >= promise[k] => Refilled(k) >= Token
=============================================================================
