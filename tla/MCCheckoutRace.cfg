CONSTANTS
  q1 = q1  q2 = q2  v2consent = v2consent  other = other
  Requests = {q1, q2}
  Worker = worker
  Consents = {v2consent, other}
  MaxPayments = 1
  MaxAttempts = 2
  MaxTries = 1
  MaxCrashes = 1
SPECIFICATION Spec
SYMMETRY RaceSymmetry
INVARIANTS
  ReadyAttemptIsReferenced
CHECK_DEADLOCK FALSE
