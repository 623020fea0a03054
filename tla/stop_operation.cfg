SPECIFICATION FairStops
CONSTANTS
  Keys = {k1, k2}
  Handlers = {h1, h2}
  Faults = {"record", "disconnect", "exec"}
  MaxFaults = 1
  MaxRestarts = 2
  None = None
INVARIANTS
  KeyStopsOnce
  RepliesAgree
  OutcomeIsEarned
PROPERTIES
  KeyedStopResolves
