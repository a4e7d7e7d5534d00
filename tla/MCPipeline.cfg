SPECIFICATION PipeSpec
CONSTANTS
  e1 = e1
  e2 = e2
  good = good
  poison = poison
  w1 = w1
  w2 = w2
  EventIDs = {e1, e2}
  Payloads = {good, poison}
  Malformed = {}
  Bytes <- MCBytes
  Feeds <- MCFeeds
  Unstorable = {poison}
  Workers = {w1, w2}
  WorkTimeout = 3
  ExpiryMargin = 1
  Delays = {0}
  Reasons = {"invalid event"}
  MaxNackDelay = 1
  Capacity = 2
  DedupCapacity = 2
  QuarantineCapacity = 1
  MaxPayloadBytes = 300
  MaxLogicalBytes <- MCMaxLogicalBytes
  LeaseDuration = 2
  CompletionTTL = 1
  CleanupBatch = 1
  ClockSteps <- Running
  NoPayload = NoPayload
  NoNack = NoNack
  MaxNow = 6
  MaxAccepted = 2
  MaxDeliveries = 3
SYMMETRY MCSymmetry
INVARIANTS
  CommitBeforeAck
  EventsKept
  ReceiptInTime
CHECK_DEADLOCK FALSE
