SPECIFICATION LiveStreamSpec
CONSTANTS
  Files <- MCFiles
  Count = 4
  MaxReplay = 4
INVARIANTS
  NoGap
  AcceptedExact
PROPERTIES
  RunEnds
