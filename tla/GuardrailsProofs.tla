-------------------------- MODULE GuardrailsProofs --------------------------
(***************************************************************************)
(* Proofs about the two guardrails of src/guardrails that count: the       *)
(* circuit breaker, for any number of overlapping calls and any            *)
(* configuration, and the rate limiter, for any keys, rate and burst, any  *)
(* clock and any spacing of the calls.                                     *)
(***************************************************************************)
EXTENDS CircuitBreaker, RateLimiter, SequenceTheorems, TLAPS

-----------------------------------------------------------------------------
(* The circuit breaker.  Its own counters never run ahead of the streaks   *)
(* of outcomes really seen (Streaks), so that reaching a threshold means   *)
(* the streak has reached it.                                              *)
Streaks ==
  /\ state = "closed" => failure_count <= failed_in_a_row
  /\ state = "half_open" => success_count <= passed_in_a_row

BreakerIInv == BreakerTypeOK /\ CountersMatchState /\ Streaks

(* A streak counter stays within its limit, and counts up to it.           *)
LEMMA CountUpBounded ==
  ASSUME NEW limit \in Nat \ {0}, NEW n \in 0..limit
  PROVE  /\ CountUp(n, limit) \in 0..limit
         /\ \A m \in Nat : m <= n /\ m + 1 <= limit => m + 1 <= CountUp(n, limit)
BY DEF CountUp

(* A fresh breaker satisfies the inductive invariant. *)
LEMMA BreakerInitIInv == BreakerInit => BreakerIInv
BY BreakerAssumption
   DEF BreakerInit, BreakerIInv, BreakerTypeOK, CountersMatchState, Streaks

(* Every step of any call, of the clock or of the administrator keeps it.  *)
LEMMA BreakerNextIInv == BreakerIInv /\ [BreakerNext]_breaker => BreakerIInv'
<1> SUFFICES ASSUME BreakerIInv, [BreakerNext]_breaker PROVE BreakerIInv'
  OBVIOUS
<1> USE BreakerAssumption DEF BreakerIInv, BreakerTypeOK, CountersMatchState, Streaks
<1>1. CASE Tick
  BY <1>1 DEF Tick, history
<1>2. CASE ResetBreaker
  BY <1>2 DEF ResetBreaker, history
<1>3. ASSUME NEW c \in Call, Admit(c) PROVE BreakerIInv'
  BY <1>3 DEF Admit, history
<1>4. ASSUME NEW c \in Call, Succeed(c) PROVE BreakerIInv'
  <2>1. failed_in_a_row' = 0 /\ since_failure' = since_failure /\ in_flight' \subseteq Call
    BY <1>4 DEF Succeed
  <2>2. passed_in_a_row' \in 0..success_threshold
    BY <1>4, CountUpBounded DEF Succeed
  <2>3. CASE state = "half_open" /\ success_count + 1 >= success_threshold
    BY <1>4, <2>1, <2>2, <2>3 DEF Succeed
  <2>4. CASE state = "half_open" /\ success_count + 1 < success_threshold
    <3>1. /\ success_count' = success_count + 1
          /\ UNCHANGED <<state, failure_count>>
      BY <1>4, <2>4 DEF Succeed
    <3>2. success_count + 1 <= passed_in_a_row'
      BY <1>4, <2>4, CountUpBounded DEF Succeed
    <3>3. QED
      BY <2>1, <2>2, <2>4, <3>1, <3>2
  <2>5. CASE state = "closed"
    BY <1>4, <2>1, <2>2, <2>5 DEF Succeed
  <2>6. CASE state = "open"
    BY <1>4, <2>1, <2>2, <2>6 DEF Succeed
  <2>7. QED
    BY <2>3, <2>4, <2>5, <2>6
<1>5. ASSUME NEW c \in Call, Fail(c) PROVE BreakerIInv'
  <2>1. /\ failure_count' = failure_count + 1
        /\ since_failure' = 0
        /\ in_flight' \subseteq Call
        /\ passed_in_a_row' = 0
    BY <1>5 DEF Fail
  <2>2. failed_in_a_row' \in 0..failure_threshold
    BY <1>5, CountUpBounded DEF Fail
  <2>3. CASE state = "closed" /\ failure_count + 1 < failure_threshold
    <3>1. state' = "closed" /\ success_count' = success_count
      BY <1>5, <2>3 DEF Fail
    <3>2. failure_count + 1 <= failed_in_a_row'
      BY <1>5, <2>3, CountUpBounded DEF Fail
    <3>3. QED
      BY <2>1, <2>2, <2>3, <3>1, <3>2
  <2>4. CASE ~ (state = "closed" /\ failure_count + 1 < failure_threshold)
    <3>1. state' = "open" /\ success_count' = 0
      BY <1>5, <2>4 DEF Fail
    <3>2. QED
      BY <2>1, <2>2, <2>4, <3>1
  <2>5. QED
    BY <2>3, <2>4
<1>6. CASE UNCHANGED breaker
  BY <1>6 DEF breaker, history
<1>7. QED
  BY <1>1, <1>2, <1>3, <1>4, <1>5, <1>6 DEF BreakerNext

(* The inductive invariant holds throughout. *)
THEOREM BreakerInvariant == BreakerSpec => []BreakerIInv
BY BreakerInitIInv, BreakerNextIInv, PTL DEF BreakerSpec

(* BreakerTypeOK and CountersMatchState: what the breaker counts always tells     *)
(* which state it is in, however the calls of execute overlap.             *)
THEOREM BreakerCounters == BreakerSpec => [](BreakerTypeOK /\ CountersMatchState)
<1>1. BreakerIInv => BreakerTypeOK /\ CountersMatchState
  BY DEF BreakerIInv
<1>2. QED
  BY <1>1, BreakerInvariant, PTL

(* on_failure opens a closed breaker only after failure_threshold failures *)
(* in a row.                                                               *)
THEOREM BreakerOpens == BreakerSpec => OpensOnFailuresInARow
<1>1. BreakerIInv /\ [BreakerNext]_breaker =>
        [state = "closed" /\ state' = "open" => failed_in_a_row' = failure_threshold]_breaker
  <2> SUFFICES ASSUME BreakerIInv, BreakerNext, state = "closed", state' = "open"
               PROVE  failed_in_a_row' = failure_threshold
    BY DEF breaker, history
  <2> USE BreakerAssumption DEF BreakerIInv, BreakerTypeOK, CountersMatchState, Streaks
  <2>1. PICK c \in Call : Fail(c)
    BY DEF BreakerNext, Tick, ResetBreaker, Admit, Succeed
  <2>2. failure_count + 1 = failure_threshold
    BY <2>1 DEF Fail
  <2>3. failure_threshold <= failed_in_a_row'
    BY <2>1, <2>2, CountUpBounded DEF Fail
  <2>4. failed_in_a_row' \in 0..failure_threshold
    BY <2>1, CountUpBounded DEF Fail
  <2>5. QED
    BY <2>3, <2>4
<1>2. QED
  BY <1>1, BreakerInvariant, PTL DEF BreakerSpec, OpensOnFailuresInARow

(* on_success closes a breaker only after success_threshold successes in a *)
(* row, all since it half-opened.                                          *)
THEOREM BreakerCloses == BreakerSpec => ClosesOnSuccessesInARow
<1>1. BreakerIInv /\ [BreakerNext]_breaker =>
        [state # "closed" /\ state' = "closed" /\ ~ ResetBreaker
           => state = "half_open" /\ passed_in_a_row' = success_threshold]_breaker
  <2> SUFFICES ASSUME BreakerIInv, BreakerNext, state # "closed", state' = "closed", ~ ResetBreaker
               PROVE  state = "half_open" /\ passed_in_a_row' = success_threshold
    BY DEF breaker, history
  <2> USE BreakerAssumption DEF BreakerIInv, BreakerTypeOK, CountersMatchState, Streaks
  <2>1. PICK c \in Call : Succeed(c)
    BY DEF BreakerNext, Tick, Admit, Fail
  <2>2. state = "half_open" /\ success_count + 1 = success_threshold
    BY <2>1 DEF Succeed
  <2>3. success_threshold <= passed_in_a_row'
    BY <2>1, <2>2, CountUpBounded DEF Succeed
  <2>4. passed_in_a_row' \in 0..success_threshold
    BY <2>1, CountUpBounded DEF Succeed
  <2>5. QED
    BY <2>2, <2>3, <2>4
<1>2. QED
  BY <1>1, BreakerInvariant, PTL DEF BreakerSpec, ClosesOnSuccessesInARow

-----------------------------------------------------------------------------
(* The rate limiter. *)
Rate == requests_per_minute

LEMMA Sizes ==
  /\ Token \in Nat \ {0} /\ Rate \in Nat \ {0} /\ Second \in Nat \ {0}
  /\ max_tokens \in Nat /\ max_tokens >= Token
<1>1. Token \in Nat \ {0} /\ Rate \in Nat \ {0} /\ Second \in Nat \ {0}
  BY LimiterAssumption DEF LimiterAssumption, Token, Rate
<1>2. ASSUME NEW b \in Nat \ {0} PROVE Token * b \in Nat /\ Token * b >= Token
  BY <1>1
<1>3. (IF burst_size = 0 THEN requests_per_minute ELSE burst_size) \in Nat \ {0}
  BY LimiterAssumption DEF LimiterAssumption
<1> QED
  BY <1>1, <1>2, <1>3 DEF max_tokens

(* Waiting Ceiling(a, b) seconds of b units each brings the a that lack. *)
LEMMA CeilingSuffices ==
  ASSUME NEW a \in Int, NEW b \in Nat \ {0}
  PROVE  Ceiling(a, b) \in Int /\ Ceiling(a, b) * b >= a
BY DEF Ceiling

(* Refilling at b and then at c is refilling at c. *)
LEMMA Spans ==
  ASSUME NEW a \in Int, NEW b \in Int, NEW c \in Int
  PROVE  /\ (b - a) * Rate + (c - b) * Rate = (c - a) * Rate
         /\ (b - a) * Rate \in Int
         /\ a <= b => (b - a) * Rate >= 0
BY Sizes

-----------------------------------------------------------------------------
(* What a bucket holds and what it has admitted since any one admission    *)
(* are together no more than the burst and the time since.                 *)
Spent ==
  \A k \in Key :
    /\ k \notin DOMAIN buckets => admitted[k] = <<>>
    /\ k \in DOMAIN buckets =>
         \A i \in 1 .. Len(admitted[k]) :
           (Len(admitted[k]) - i + 1) * Token + buckets[k].tokens
             <= max_tokens + (buckets[k].last_refill - admitted[k][i]) * Rate

(* A bucket whose key was told to wait has a token, or will by then. *)
Promised ==
  \A k \in Key :
    promise[k] # Unpromised =>
      /\ k \in DOMAIN buckets
      /\ buckets[k].last_refill <= now
      /\ \/ buckets[k].tokens >= Token
         \/ buckets[k].tokens + (promise[k] - buckets[k].last_refill) * Rate >= Token

IInv == TypeOK /\ Spent /\ AdmissionsBounded /\ Promised

(* What a look at a bucket finds. *)
LEMMA Looks ==
  ASSUME TypeOK, NEW k \in Key
  PROVE  /\ now \in Nat /\ Bucket(k).tokens \in Int /\ Bucket(k).last_refill \in Nat
         /\ Refilled(k) \in Int /\ Refilled(k) <= max_tokens
         /\ \/ Refilled(k) = max_tokens
            \/ Refilled(k) = Bucket(k).tokens + (now - Bucket(k).last_refill) * Rate
         /\ Refilled(k) <= Bucket(k).tokens + (now - Bucket(k).last_refill) * Rate
<1>1. now \in Nat /\ Bucket(k).tokens \in Int /\ Bucket(k).last_refill \in Nat
  <2>1. now \in Nat
    BY LimiterAssumption DEF LimiterAssumption, TypeOK
  <2>2. CASE k \in DOMAIN buckets
    BY <2>1, <2>2, LimiterAssumption DEF LimiterAssumption, TypeOK, Bucket
  <2>3. CASE k \notin DOMAIN buckets
    BY <2>1, <2>3, Sizes DEF Bucket
  <2> QED
    BY <2>1, <2>2, <2>3
<1>2. (now - Bucket(k).last_refill) * Rate \in Int
  <2>1. now - Bucket(k).last_refill \in Int /\ Rate \in Int
    BY <1>1, Sizes
  <2> QED
    BY <2>1
<1> QED
  BY <1>1, <1>2, Sizes DEF Refilled, Least, Rate

LEMMA Stores ==
  ASSUME TypeOK, NEW k \in Key, NEW tokens \in Int, Store(k, tokens)
  PROVE  /\ DOMAIN buckets' = DOMAIN buckets \cup {k}
         /\ buckets'[k].tokens = tokens /\ buckets'[k].last_refill = now
         /\ \A j \in DOMAIN buckets \ {k} : buckets'[j] = buckets[j]
BY DEF Store

(* A look refills, and may then take a token or none. *)
LEMMA LookSpends ==
  ASSUME TypeOK, Spent, NEW k \in Key
  PROVE  \A i \in 1 .. Len(admitted[k]) :
           (Len(admitted[k]) - i + 1) * Token + Refilled(k)
             <= max_tokens + (now - admitted[k][i]) * Rate
<1> TAKE i \in 1 .. Len(admitted[k])
<1>1. admitted[k] \in Seq(Instant) /\ admitted[k][i] \in Nat /\ Len(admitted[k]) \in Nat
  <2>1. admitted[k] \in Seq(Instant)
    BY DEF TypeOK
  <2> QED
    BY <2>1, ElementOfSeq, LenProperties, LimiterAssumption DEF LimiterAssumption
<1>2. k \in DOMAIN buckets /\ Bucket(k) = buckets[k]
  BY <1>1 DEF Spent, Bucket
<1> DEFINE n == (Len(admitted[k]) - i + 1) * Token
           last == Bucket(k).last_refill
           held == Bucket(k).tokens
<1>3. n + held <= max_tokens + (last - admitted[k][i]) * Rate
  BY <1>2 DEF Spent
<1>4. /\ last \in Nat /\ held \in Int /\ now \in Nat /\ Refilled(k) \in Int
      /\ Refilled(k) <= held + (now - last) * Rate
  BY Looks
<1>5. n \in Int
  BY <1>1, Sizes
<1>6. /\ (last - admitted[k][i]) * Rate + (now - last) * Rate = (now - admitted[k][i]) * Rate
      /\ (last - admitted[k][i]) * Rate \in Int /\ (now - last) * Rate \in Int
      /\ (now - admitted[k][i]) * Rate \in Int
  <2>1. last \in Int /\ now \in Int /\ admitted[k][i] \in Int
    BY <1>1, <1>4
  <2> QED
    BY <2>1, Spans, Zenon
<1>7. n + Refilled(k) <= max_tokens + (now - admitted[k][i]) * Rate
  <2> DEFINE p == (last - admitted[k][i]) * Rate
             q == (now - last) * Rate
             r == (now - admitted[k][i]) * Rate
  <2>1. p + q = r /\ p \in Int /\ q \in Int /\ r \in Int
    BY <1>6
  <2>2. n + held <= max_tokens + p /\ Refilled(k) <= held + q
    BY <1>3, <1>4
  <2>3. n \in Int /\ held \in Int /\ Refilled(k) \in Int /\ max_tokens \in Int
    BY <1>4, <1>5, Sizes
  <2> HIDE DEF n, held, p, q, r
  <2>4. n + Refilled(k) <= max_tokens + r
    BY <2>1, <2>2, <2>3
  <2> QED
    BY <2>4 DEF r
<1> QED
  BY <1>7 DEF n

(* A look keeps a promise: in the tokens it finds, or in those to come. *)
LEMMA LookKeepsPromise ==
  ASSUME TypeOK, Promised, NEW k \in Key, promise[k] # Unpromised
  PROVE  \/ Refilled(k) >= Token
         \/ Refilled(k) + (promise[k] - now) * Rate >= Token
<1> DEFINE last == Bucket(k).last_refill
           held == Bucket(k).tokens
           p == (now - last) * Rate
           q == (promise[k] - now) * Rate
           r == (promise[k] - last) * Rate
<1>1. /\ last \in Int /\ held \in Int /\ now \in Int /\ promise[k] \in Int /\ Refilled(k) \in Int
      /\ Refilled(k) = max_tokens \/ Refilled(k) = held + p
  BY Looks DEF TypeOK
<1>2. /\ last <= now
      /\ held >= Token \/ held + r >= Token
  BY DEF Promised, Bucket
<1>3. p + q = r /\ p \in Int /\ q \in Int /\ (last <= now => p >= 0)
  BY <1>1, Spans, Zenon
<1> HIDE DEF last, held, p, q, r
<1>4. Refilled(k) >= Token \/ Refilled(k) + q >= Token
  BY <1>1, <1>2, <1>3, Sizes
<1> QED
  BY <1>4 DEF q

LEMMA Initially == Init => IInv
<1> SUFFICES ASSUME Init PROVE IInv
  OBVIOUS
<1>1. /\ now \in Instant /\ DOMAIN buckets = {}
      /\ admitted = [k \in Key |-> <<>>] /\ promise = [k \in Key |-> Unpromised]
  BY DEF Init
<1>2. TypeOK
  BY <1>1 DEF TypeOK
<1>3. Spent /\ AdmissionsBounded /\ Promised
  BY <1>1 DEF Spent, AdmissionsBounded, Promised
<1> QED
  BY <1>2, <1>3 DEF IInv

(* The parts of the invariant about one key. *)
SpentOf(k) ==
  /\ k \notin DOMAIN buckets => admitted[k] = <<>>
  /\ k \in DOMAIN buckets =>
       \A i \in 1 .. Len(admitted[k]) :
         (Len(admitted[k]) - i + 1) * Token + buckets[k].tokens
           <= max_tokens + (buckets[k].last_refill - admitted[k][i]) * Rate
BoundedOf(k) ==
  \A j \in 1 .. Len(admitted[k]) : \A i \in 1 .. j :
    (j - i + 1) * Token <= max_tokens + (admitted[k][j] - admitted[k][i]) * Rate
PromisedOf(k) ==
  promise[k] # Unpromised =>
    /\ k \in DOMAIN buckets
    /\ buckets[k].last_refill <= now
    /\ \/ buckets[k].tokens >= Token
       \/ buckets[k].tokens + (promise[k] - buckets[k].last_refill) * Rate >= Token

LEMMA ByKey ==
  /\ Spent <=> \A k \in Key : SpentOf(k)
  /\ AdmissionsBounded <=> \A k \in Key : BoundedOf(k)
  /\ Promised <=> \A k \in Key : PromisedOf(k)
BY DEF Spent, SpentOf, AdmissionsBounded, BoundedOf, Promised, PromisedOf, Rate

(* A call for one key leaves the others' buckets alone. *)
LEMMA OthersKept ==
  ASSUME TypeOK, Spent, AdmissionsBounded, Promised,
         NEW k \in Key, NEW j \in Key \ {k},
         CheckLimit(k) \/ GetUsage(k) \/ Reset(k)
  PROVE  SpentOf(j)' /\ BoundedOf(j)' /\ PromisedOf(j)'
<1>1. /\ (j \in DOMAIN buckets') <=> (j \in DOMAIN buckets)
      /\ j \in DOMAIN buckets => buckets'[j] = buckets[j]
      /\ admitted'[j] = admitted[j] /\ promise'[j] = promise[j] /\ now' = now
  BY DEF CheckLimit, GetUsage, Reset, Store, TypeOK
<1>2. SpentOf(j) /\ BoundedOf(j) /\ PromisedOf(j)
  BY ByKey
<1>3. SpentOf(j)'
  BY <1>1, <1>2 DEF SpentOf
<1>4. BoundedOf(j)'
  BY <1>1, <1>2 DEF BoundedOf
<1>5. PromisedOf(j)'
  BY <1>1, <1>2 DEF PromisedOf
<1> QED
  BY <1>3, <1>4, <1>5

LEMMA AdmitStep ==
  ASSUME IInv, NEW k \in Key, now' = now,
         Refilled(k) >= Token, Store(k, Refilled(k) - Token),
         admitted' = [admitted EXCEPT ![k] = Append(@, now)],
         promise' = [promise EXCEPT ![k] = Unpromised]
  PROVE  SpentOf(k)' /\ BoundedOf(k)' /\ PromisedOf(k)'
<1> DEFINE log == admitted[k]
<1>1. /\ TypeOK /\ Spent /\ BoundedOf(k)
  BY ByKey DEF IInv
<1>2. log \in Seq(Instant) /\ Len(log) \in Nat /\ now \in Nat /\ Instant \subseteq Nat
  BY <1>1, Looks, LenProperties, LimiterAssumption DEF TypeOK, LimiterAssumption
<1>3. /\ admitted'[k] = Append(log, now)
      /\ Len(admitted'[k]) = Len(log) + 1
      /\ admitted'[k][Len(log) + 1] = now
      /\ \A i \in 1 .. Len(log) : admitted'[k][i] = log[i] /\ log[i] \in Nat
  <2>1. admitted'[k] = Append(log, now)
    BY <1>1 DEF TypeOK
  <2>2. now \in Instant
    BY <1>1 DEF TypeOK
  <2>3. /\ Len(Append(log, now)) = Len(log) + 1
        /\ Append(log, now)[Len(log) + 1] = now
        /\ \A i \in 1 .. Len(log) : Append(log, now)[i] = log[i]
    BY <1>2, <2>2, AppendProperties
  <2>4. \A i \in 1 .. Len(log) : log[i] \in Nat
    BY <1>2, ElementOfSeq
  <2> QED
    BY <2>1, <2>3, <2>4
<1>4. /\ k \in DOMAIN buckets' /\ buckets'[k].tokens = Refilled(k) - Token
      /\ buckets'[k].last_refill = now
  <2>1. Refilled(k) - Token \in Int
    BY <1>1, Looks, Sizes
  <2> QED
    BY <1>1, <2>1, Stores
<1>5. Refilled(k) \in Int /\ Refilled(k) <= max_tokens
  BY <1>1, Looks
<1>6. ASSUME NEW i \in 1 .. Len(log) + 1
      PROVE  /\ (Len(log) + 1 - i + 1) * Token + (Refilled(k) - Token)
                  <= max_tokens + (now - admitted'[k][i]) * Rate
             /\ (Len(log) + 1 - i + 1) * Token <= max_tokens + (now - admitted'[k][i]) * Rate
  <2> DEFINE n == (Len(log) - i + 1) * Token
             m == (Len(log) + 1 - i + 1) * Token
             r == (now - admitted'[k][i]) * Rate
  <2>1. m = n + Token /\ m \in Int /\ n \in Int
    BY <1>2, Sizes
  <2>2. r \in Int /\ n + Refilled(k) <= max_tokens + r
    <3>1. CASE i \in 1 .. Len(log)
      <4>1. n + Refilled(k) <= max_tokens + r
        BY <1>1, <1>3, <3>1, LookSpends
      <4>2. now \in Int /\ admitted'[k][i] \in Int
        BY <1>2, <1>3, <3>1
      <4> QED
        BY <4>1, <4>2, Spans, Zenon
    <3>2. CASE i = Len(log) + 1
      <4>1. r = 0 /\ n = 0
        BY <1>2, <1>3, <3>2, Sizes
      <4> QED
        BY <1>5, <4>1, Sizes
    <3> QED
      BY <1>2, <3>1, <3>2
  <2> HIDE DEF n, m, r
  <2>3. m + (Refilled(k) - Token) <= max_tokens + r /\ m <= max_tokens + r
    BY <1>5, <2>1, <2>2, Sizes
  <2> QED
    BY <2>3 DEF m, r
<1>7. SpentOf(k)'
  BY <1>3, <1>4, <1>6 DEF SpentOf
<1>8. BoundedOf(k)'
  <2>1. ASSUME NEW j \in 1 .. Len(log) + 1, NEW i \in 1 .. j
        PROVE  (j - i + 1) * Token
                 <= max_tokens + (admitted'[k][j] - admitted'[k][i]) * Rate
    <3>1. CASE j = Len(log) + 1
      BY <1>2, <1>3, <1>6, <3>1
    <3>2. CASE j \in 1 .. Len(log)
      <4>1. i \in 1 .. Len(log)
        BY <1>2, <3>2
      <4> QED
        BY <1>1, <1>3, <3>2, <4>1 DEF BoundedOf
    <3> QED
      BY <1>2, <3>1, <3>2
  <2> QED
    BY <1>3, <2>1 DEF BoundedOf
<1>9. PromisedOf(k)'
  BY <1>1 DEF PromisedOf, TypeOK
<1> QED
  BY <1>7, <1>8, <1>9

LEMMA RefuseStep ==
  ASSUME IInv, NEW k \in Key, now' = now,
         Refilled(k) < Token, Store(k, Refilled(k)),
         promise' = [promise EXCEPT ![k] = now + Second * RetryAfter(Refilled(k))],
         UNCHANGED admitted
  PROVE  SpentOf(k)' /\ BoundedOf(k)' /\ PromisedOf(k)' /\ promise'[k] \in Nat
<1>1. TypeOK /\ Spent /\ BoundedOf(k) /\ SpentOf(k)
  BY ByKey DEF IInv
<1>2. now \in Nat /\ Refilled(k) \in Int
  BY <1>1, Looks
<1>3. /\ k \in DOMAIN buckets' /\ buckets'[k].tokens = Refilled(k)
      /\ buckets'[k].last_refill = now
  BY <1>1, <1>2, Stores
<1>4. SpentOf(k)'
  BY <1>1, <1>3, LookSpends DEF SpentOf
<1>5. BoundedOf(k)'
  BY <1>1 DEF BoundedOf
<1> DEFINE wait == RetryAfter(Refilled(k))
           lack == Token - Refilled(k)
           gain == Rate * Second
<1>6. /\ wait \in Int /\ wait * gain >= lack
      /\ lack \in Int /\ lack > 0 /\ gain \in Nat \ {0}
  <2>1. lack \in Int /\ lack > 0 /\ gain \in Nat \ {0}
    BY <1>2, Sizes
  <2>2. wait = Ceiling(lack, gain)
    BY DEF RetryAfter, Rate
  <2> HIDE DEF wait, lack, gain
  <2>3. Ceiling(lack, gain) \in Int /\ Ceiling(lack, gain) * gain >= lack
    BY <2>1, CeilingSuffices, Zenon
  <2> QED
    BY <2>1, <2>2, <2>3
<1>7. wait \in Nat
  <2> HIDE DEF wait, lack, gain
  <2>1. wait * gain > 0
    BY <1>6
  <2>2. ~(wait <= 0)
    BY <1>6, <2>1
  <2> QED
    BY <1>6, <2>2
<1>8. promise'[k] = now + Second * wait
  BY <1>1 DEF TypeOK
<1>9. promise'[k] \in Nat /\ (promise'[k] - now) * Rate = wait * gain
  <2> HIDE DEF wait
  <2>1. Second * wait \in Nat /\ Rate \in Nat /\ Second \in Nat
    BY <1>7, Sizes
  <2>2. promise'[k] \in Nat /\ promise'[k] - now = Second * wait
    BY <1>2, <1>8, <2>1
  <2>3. (Second * wait) * Rate = wait * (Rate * Second)
    BY <1>7, <2>1
  <2> QED
    BY <2>2, <2>3
<1>10. PromisedOf(k)'
  <2> HIDE DEF wait, gain
  <2>1. now <= now /\ Refilled(k) + wait * gain >= Token
    BY <1>2, <1>6, Sizes DEF lack
  <2> QED
    BY <1>3, <1>9, <2>1 DEF PromisedOf
<1> QED
  BY <1>4, <1>5, <1>9, <1>10

LEMMA UsageStep ==
  ASSUME IInv, NEW k \in Key, GetUsage(k)
  PROVE  SpentOf(k)' /\ BoundedOf(k)' /\ PromisedOf(k)'
<1>1. TypeOK /\ Spent /\ Promised /\ BoundedOf(k) /\ SpentOf(k)
  BY ByKey DEF IInv
<1>2. /\ now \in Nat /\ Refilled(k) \in Int
      /\ now' = now /\ admitted' = admitted /\ promise' = promise /\ Store(k, Refilled(k))
  BY <1>1, Looks DEF GetUsage
<1>3. /\ k \in DOMAIN buckets' /\ buckets'[k].tokens = Refilled(k)
      /\ buckets'[k].last_refill = now
  BY <1>1, <1>2, Stores
<1>4. SpentOf(k)'
  BY <1>1, <1>2, <1>3, LookSpends DEF SpentOf
<1>5. BoundedOf(k)'
  BY <1>1, <1>2 DEF BoundedOf
<1>6. PromisedOf(k)'
  BY <1>1, <1>2, <1>3, LookKeepsPromise DEF PromisedOf
<1> QED
  BY <1>4, <1>5, <1>6

LEMMA ResetStep ==
  ASSUME IInv, NEW k \in Key, Reset(k)
  PROVE  SpentOf(k)' /\ BoundedOf(k)' /\ PromisedOf(k)'
<1>1. /\ k \notin DOMAIN buckets' /\ admitted'[k] = <<>> /\ promise'[k] = Unpromised
  BY DEF Reset, IInv, TypeOK
<1> QED
  BY <1>1 DEF SpentOf, BoundedOf, PromisedOf

LEMMA ClockStep ==
  ASSUME IInv, NEW t \in Instant, Clock(t), NEW k \in Key
  PROVE  SpentOf(k)' /\ BoundedOf(k)' /\ PromisedOf(k)'
<1>1. SpentOf(k) /\ BoundedOf(k) /\ PromisedOf(k) /\ TypeOK
  BY ByKey DEF IInv
<1>2. buckets' = buckets /\ admitted' = admitted /\ now' = t
      /\ now \in Nat /\ t \in Nat
  BY <1>1, LimiterAssumption DEF Clock, TypeOK, LimiterAssumption
<1>3. SpentOf(k)' /\ BoundedOf(k)'
  BY <1>1, <1>2 DEF SpentOf, BoundedOf
<1>4. PromisedOf(k)'
  <2>1. CASE t < now
    BY <2>1 DEF Clock, PromisedOf
  <2>2. CASE ~(t < now)
    <3>1. promise' = promise
      BY <2>2 DEF Clock
    <3>2. k \in DOMAIN buckets /\ buckets[k].last_refill <= now => buckets[k].last_refill <= t
      <4>1. k \in DOMAIN buckets => buckets[k].last_refill \in Nat
        BY <1>1, LimiterAssumption DEF TypeOK, LimiterAssumption
      <4>2. now <= t
        BY <1>2, <2>2
      <4> QED
        BY <1>2, <4>1, <4>2
    <3> QED
      BY <1>1, <1>2, <3>1, <3>2 DEF PromisedOf
  <2> QED
    BY <2>1, <2>2
<1> QED
  BY <1>3, <1>4

LEMMA TypeStep ==
  ASSUME IInv, [Next]_vars
  PROVE  TypeOK'
<1>1. TypeOK
  BY DEF IInv
<1>2. ASSUME NEW k \in Key, NEW tokens \in Int, tokens <= max_tokens, Store(k, tokens), now' = now
      PROVE  /\ DOMAIN buckets' \subseteq Key
             /\ \A j \in DOMAIN buckets' : /\ buckets'[j] \in [tokens : Int, last_refill : Instant]
                                           /\ buckets'[j].tokens <= max_tokens
  BY <1>1, <1>2 DEF TypeOK, Store
<1>3. \A k \in Key : Refilled(k) \in Int /\ Refilled(k) <= max_tokens
                     /\ Refilled(k) - Token \in Int /\ Refilled(k) - Token <= max_tokens
  BY <1>1, Looks, Sizes
<1>4. ASSUME NEW k \in Key, CheckLimit(k) PROVE TypeOK'
  <2>1. CASE Refilled(k) >= Token
    <3>1. /\ now' = now /\ Store(k, Refilled(k) - Token)
          /\ admitted' = [admitted EXCEPT ![k] = Append(@, now)]
          /\ promise' = [promise EXCEPT ![k] = Unpromised]
      BY <1>3, <1>4, <2>1, Sizes DEF CheckLimit
    <3>2. admitted' \in [Key -> Seq(Instant)] /\ promise' \in [Key -> Nat \cup {Unpromised}]
      BY <1>1, <3>1, AppendProperties DEF TypeOK
    <3> QED
      BY <1>1, <1>2, <1>3, <3>1, <3>2 DEF TypeOK
  <2>2. CASE ~(Refilled(k) >= Token)
    <3>1. /\ now' = now /\ Store(k, Refilled(k)) /\ admitted' = admitted /\ Refilled(k) < Token
          /\ promise' = [promise EXCEPT ![k] = now + Second * RetryAfter(Refilled(k))]
      BY <1>4, <2>2 DEF CheckLimit
    <3>2. promise'[k] \in Nat
      BY <3>1, RefuseStep
    <3>3. promise' \in [Key -> Nat \cup {Unpromised}]
      BY <1>1, <3>1, <3>2 DEF TypeOK
    <3> QED
      BY <1>1, <1>2, <1>3, <3>1, <3>3 DEF TypeOK
  <2> QED
    BY <2>1, <2>2
<1>5. ASSUME NEW k \in Key, GetUsage(k) PROVE TypeOK'
  BY <1>1, <1>2, <1>3, <1>5 DEF GetUsage, TypeOK
<1>6. ASSUME NEW k \in Key, Reset(k) PROVE TypeOK'
  <2>1. <<>> \in Seq(Instant)
    BY EmptySeq
  <2> QED
    BY <1>1, <1>6, <2>1 DEF Reset, TypeOK
<1>7. ASSUME NEW t \in Instant, Clock(t) PROVE TypeOK'
  BY <1>1, <1>7 DEF Clock, TypeOK
<1>8. CASE UNCHANGED vars
  BY <1>1, <1>8 DEF vars, TypeOK
<1> QED
  BY <1>4, <1>5, <1>6, <1>7, <1>8 DEF Next

LEMMA Invariance == Spec => []IInv
<1>1. ASSUME IInv, [Next]_vars PROVE IInv'
  <2>1. TypeOK'
    BY <1>1, TypeStep
  <2>2. TypeOK /\ Spent /\ AdmissionsBounded /\ Promised
    BY <1>1 DEF IInv
  <2>3. ASSUME NEW k \in Key, CheckLimit(k) \/ GetUsage(k) \/ Reset(k), NEW j \in Key
        PROVE  SpentOf(j)' /\ BoundedOf(j)' /\ PromisedOf(j)'
    <3>1. CASE j # k
      BY <2>2, <2>3, <3>1, OthersKept
    <3>2. CheckLimit(k) => SpentOf(k)' /\ BoundedOf(k)' /\ PromisedOf(k)'
      BY <1>1, AdmitStep, RefuseStep DEF CheckLimit
    <3> QED
      BY <1>1, <2>3, <3>1, <3>2, UsageStep, ResetStep
  <2>4. ASSUME UNCHANGED vars, NEW j \in Key PROVE SpentOf(j)' /\ BoundedOf(j)' /\ PromisedOf(j)'
    BY <2>2, <2>4, ByKey DEF vars, SpentOf, BoundedOf, PromisedOf
  <2>5. \A j \in Key : SpentOf(j)' /\ BoundedOf(j)' /\ PromisedOf(j)'
    BY <1>1, <2>3, <2>4, ClockStep DEF Next
  <2>6. (\A j \in Key : SpentOf(j))' /\ (\A j \in Key : BoundedOf(j))'
        /\ (\A j \in Key : PromisedOf(j))'
    BY <2>5
  <2>7. Spent' /\ AdmissionsBounded' /\ Promised'
    BY <2>6 DEF Spent, SpentOf, AdmissionsBounded, BoundedOf, Promised, PromisedOf, Rate
  <2> QED
    BY <2>1, <2>7 DEF IInv
<1> QED
  BY Initially, <1>1, PTL DEF Spec

(* Every variable keeps its type; no bucket ever holds more than its burst. *)
THEOREM TypeCorrect == Spec => []TypeOK
<1>1. IInv => TypeOK
  BY DEF IInv
<1> QED
  BY Invariance, <1>1, PTL

(* For every rate, burst and clock, what a bucket admits in any stretch of *)
(* time is bounded by the burst and the time.                              *)
THEOREM AdmissionsAreBounded == Spec => []AdmissionsBounded
<1>1. IInv => AdmissionsBounded
  BY DEF IInv
<1> QED
  BY Invariance, <1>1, PTL

(* For every rate, burst and moment of refusal, rounded up as it is, the   *)
(* wait a caller is told is long enough.                                   *)
THEOREM WaitsSuffice == Spec => []RetryAfterSuffices
<1>1. ASSUME IInv PROVE RetryAfterSuffices
  <2>1. ASSUME NEW k \in Key, promise[k] # Unpromised, now >= promise[k]
        PROVE  Refilled(k) >= Token
    <3>1. TypeOK /\ Promised
      BY <1>1 DEF IInv
    <3>2. promise[k] \in Nat /\ now \in Nat /\ Refilled(k) \in Int
      BY <2>1, <3>1, Looks DEF TypeOK
    <3>3. (promise[k] - now) * Rate \in Int /\ (promise[k] - now) * Rate <= 0
      BY <2>1, <3>2, Sizes
    <3> DEFINE p == (promise[k] - now) * Rate
    <3>4. Refilled(k) >= Token \/ Refilled(k) + p >= Token
      BY <2>1, <3>1, LookKeepsPromise
    <3>5. p \in Int /\ p <= 0
      BY <3>3
    <3> HIDE DEF p
    <3> QED
      BY <3>2, <3>4, <3>5, Sizes
  <2> QED
    BY <2>1 DEF RetryAfterSuffices
<1> QED
  BY Invariance, <1>1, PTL
=============================================================================
