SPECIFICATION MemSpec
CONSTANTS
  a = a
  b = b
  c = c
  d = d
  x = x
  y = y
  IDs = {a, b, c, d}
  Contents = {x, y}
  Unknown = Unknown
  Capacity = 2
  DedupCapacity = 3
  TTL = 2
  MaxClock = 5
  MaxReceived = 5
SYMMETRY MCSymmetry
INVARIANTS
  TombstonesExact
PROPERTIES
  ImplementsFifo
  WindowKept
