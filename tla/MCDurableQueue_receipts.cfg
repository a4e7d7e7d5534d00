SPECIFICATION LiveSpec
CONSTANTS
  e1 = e1
  e2 = e2
  e3 = e3
  e4 = e4
  pA = pA
  pB = pB
  bad = bad
  EventIDs = {e1, e2}
  Payloads = {pA, bad}
  Malformed = {bad}
  Bytes <- MCBytes
  Delays = {0}
  Reasons = {"r"}
  MaxNackDelay = 1
  Capacity = 2
  DedupCapacity = 2
  QuarantineCapacity = 1
  MaxPayloadBytes <- MCMaxPayloadBytes
  MaxLogicalBytes <- MCMaxLogicalBytes
  LeaseDuration = 2
  CompletionTTL = 2
  CleanupBatch = 1
  ClockSteps <- Running
  NoPayload = NoPayload
  NoNack = NoNack
  MaxNow = 5
  MaxAccepted = 3
  MaxDeliveries = 3
INVARIANTS
  ReceiptsHonoured
PROPERTIES
  ExpiredSwept
