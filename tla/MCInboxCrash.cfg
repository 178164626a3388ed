CONSTANTS
  q1 = q1  q2 = q2  v2consent = v2consent  other = other
  Requests = {q1}
  Worker = worker
  Consents = {v2consent}
  MaxPayments = 1
  MaxAttempts = 2
  MaxTries = 2
  MaxCrashes = 1
SPECIFICATION Spec
PROPERTIES
  EventsAreHandled
CHECK_DEADLOCK FALSE
