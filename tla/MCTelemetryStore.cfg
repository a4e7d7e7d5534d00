SPECIFICATION LiveStoreSpec
CONSTANTS
  s1 = s1
  s2 = s2
  None = None
  Events <- MCEvents
  Sessions = {s1, s2}
INVARIANTS
  MetadataExact
  ReturnedIsStored
PROPERTIES
  DuplicateChangesNothing
  PersistEnds
