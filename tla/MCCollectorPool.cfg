SPECIFICATION LivePoolSpec
CONSTANTS
  w1 = w1
  w2 = w2
  w3 = w3
  Workers = {w1, w2, w3}
INVARIANTS
  FailureReported
PROPERTIES
  CollectorExits
CHECK_DEADLOCK FALSE
