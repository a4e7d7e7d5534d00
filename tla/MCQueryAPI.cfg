SPECIFICATION QuerySpec
CONSTANTS
  h1 = h1
  h2 = h2
  j1 = j1
  j2 = j2
  Runners = {j1, j2}
  Checksum <- MCChecksum
  NoChecksum = NoChecksum
  MaxAttempts = 2
  Handlers = {h1, h2}
  Rows <- MCRows
  Queries <- MCQueries
  AllGPUs = 0
  NoBound = NoBound
  Micro = 2
  MaxConcurrent = 1
  MaxResponseBytes = 7
  RowBytes = 2
SYMMETRY MCSymmetry
INVARIANTS
  AnswerExact
  NothingLeaked
  MigrationOutcome
