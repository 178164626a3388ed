CONSTANTS
  c1 = c1  c2 = c2  w1 = w1  w2 = w2  r1 = r1  r2 = r2  a1 = a1  a2 = a2
  MaxPayments = 3
  MaxLinks = 2
  Contracts = {c1, c2}
  Workers = {w1, w2}
  MaxEvents = 2
  Histories <- TwoChanges
  MaxAttempts = 2
  MaxFaults = 1
  MaxCycles = 2
  MaxLevel = 1
  MaxSessions = 3
  Refreshes = {r1, r2}
  Processes = {w1, w2}
  NoProcess = NoProcess
  MaxMessages = 2
  Reports = {"READ"}
  Handlers = {r1, r2}
  Agents = {a1, a2}
  NoAgent = NoAgent
  CallRequests = {r1, r2}
  MaxCalls = 2
  MaxCallbacks = 1
  MaxUnanswered = 2
SPECIFICATION BackOfficeSpec
INVARIANTS
  BackOfficeTypeOK
  LiabilityCollectedOnce
  SettledByItsPayment
  NumbersAreConsecutive
  RevisionsAdvance
  ProcessedIsShown
  SentOnce
  OneClockRuns
  FirstResponseAgrees
  OneLiveSession
  RotatedOnce
  OneSyncOwner
  ReportsAreShown
  OneCallPerItem
PROPERTIES
  CollectedMoneySettles
  InvoiceCatchesUp
  OverdueIsRecorded
CHECK_DEADLOCK FALSE
