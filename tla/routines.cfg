SPECIFICATION FairRoutines
CONSTANTS
  Ids = {nightly}
  Periods = {0, 1, 2}
  MaxTime = 2
  MaxManual = 1
  MaxUpdates = 2
  MaxCrashes = 1
  None = None
CHECK_DEADLOCK FALSE

  
PROPERTIES
  
  DueIsHandled
