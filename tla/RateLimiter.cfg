SPECIFICATION Spec
CONSTANTS
  Key = {t1, t2}
  Instant <- MCInstant
  Second = 2
  requests_per_minute = 40
  burst_size = 2
  MaxLog = 3
  Unpromised = unpromised
INVARIANTS
  AdmissionsBounded
  RetryAfterSuffices
