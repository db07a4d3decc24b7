SPECIFICATION FairSpec
CONSTANTS
  r1 = r1
  r2 = r2
  Thread <- MCThread
  Scenarios <- MCScenarios
INVARIANTS
  DriverExclusion
  UnmixedAreCounted
  SavedIsThere
  ModelIsSound
  NewRowsAreNew
PROPERTIES
  RequestsEnd
CHECK_DEADLOCK FALSE
