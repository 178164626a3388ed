CONSTANTS
  r1 = r1  f1 = f1  m1 = m1  l1 = l1
  Renewals = {r1, f1}
  Free = {f1}
  Manual = {m1}
  Liabilities = {l1}
  MaxPayments = 2
SPECIFICATION Spec
INVARIANTS
  TypeOK
  ConfirmedOnce
  ReconciliationCollectedOnce
  ClosedOwesNoRenewal
PROPERTIES
  SettlesOnce
  CollectedReconciliationCloses
CHECK_DEADLOCK FALSE
