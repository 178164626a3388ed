CONSTANTS
  q1 = q1  q2 = q2  v2consent = v2consent  other = other
  Requests = {q1}
  Worker = worker
  Consents = {v2consent}
  MaxPayments = 2
  MaxAttempts = 2
  MaxTries = 2
  MaxCrashes = 0
SPECIFICATION Spec
INVARIANTS
  OnePayableCheckout
CHECK_DEADLOCK FALSE
