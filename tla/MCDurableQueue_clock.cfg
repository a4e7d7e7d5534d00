SPECIFICATION Spec
CONSTANTS
  e1 = e1
  e2 = e2
  e3 = e3
  e4 = e4
  pA = pA
  pB = pB
  bad = bad
  EventIDs = {e1, e2}
  Payloads = {pA}
  Malformed = {}
  Bytes <- MCBytes
  Delays = {0, 1}
  Reasons = {"r"}
  MaxNackDelay = 1
  Capacity = 2
  DedupCapacity = 2
  QuarantineCapacity = 1
  MaxPayloadBytes <- MCMaxPayloadBytes
  MaxLogicalBytes <- MCMaxLogicalBytes
  LeaseDuration = 1
  CompletionTTL = 1
  CleanupBatch = 1
  ClockSteps <- Jumping
  NoPayload = NoPayload
  NoNack = NoNack
  MaxNow = 2
  MaxAccepted = 3
  MaxDeliveries = 3
SYMMETRY MCSymmetry
INVARIANTS
  IndexesMatch
  LedgerBalances
  TokensFenced
  NackRetrySafe
PROPERTIES
  Reliable
  RecordsKept
