SPECIFICATION LiveCleanupSpec
CONSTANTS
  v1 = v1
  v2 = v2
  Volumes = {v1, v2}
  Path <- SamePath
  MaxFaults = 2
  MaxRestarts = 2
  MaxDeploys = 1
INVARIANTS
  SuccessMeansGone
PROPERTIES
  ForeignKept
  AdoptionSafe
  CleanRecovers
