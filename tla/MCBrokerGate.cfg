SPECIFICATION LiveGateSpec
CONSTANTS
  h1 = h1
  h2 = h2
  cleaner = cleaner
  main = main
  Nobody = Nobody
  Handlers = {h1, h2}
  Slots = 2
  Polls = 1
  MaxDue = 1
INVARIANTS
  NoUseAfterClose
  NothingHeld
PROPERTIES
  CallsReturn
  ShutdownCompletes
