SPECIFICATION LiveConsoleSpec
CONSTANTS
  r1 = r1
  r2 = r2
  f1 = f1
  f2 = f2
  Roots = {r1, r2}
  Forwards = {f1, f2}
  MaxBuilds = 2
  None = None
INVARIANTS
  ForwardsOwned
  DeployedWasBuilt
PROPERTIES
  OperationEnds
