CONSTANTS
  s1 = s1
  s2 = s2
  i1 = i1
  i2 = i2
  Savers = {s1, s2}
  Ids = {i1, i2}
  MaxSaves = 3
SPECIFICATION Spec
INVARIANTS StorageSound FiltersHonoured
PROPERTIES SavedReadsBack KeysStable RefusalsExplained
CHECK_DEADLOCK FALSE
