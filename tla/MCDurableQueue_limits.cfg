SPECIFICATION Spec
CONSTANTS
  e1 = e1
  e2 = e2
  e3 = e3
  e4 = e4
  pA = pA
  pB = pB
  bad = bad
  EventIDs = {e1, e2, e3, e4}
  Payloads = {pA, pB}
  Malformed = {}
  Bytes <- MCBytes
  Delays = {0}
  Reasons = {"r"}
  MaxNackDelay = 1
  Capacity = 2
  DedupCapacity = 3
  QuarantineCapacity = 1
  MaxPayloadBytes <- MCMaxPayloadBytes
  MaxLogicalBytes <- MCMaxLogicalBytes
  LeaseDuration = 1
  CompletionTTL = 1
  CleanupBatch = 2
  ClockSteps <- Running
  NoPayload = NoPayload
  NoNack = NoNack
  MaxNow = 3
  MaxAccepted = 4
  MaxDeliveries = 3
SYMMETRY MCSymmetry
INVARIANTS
  CountersMatch
  BytesMatch
  WithinLimits
