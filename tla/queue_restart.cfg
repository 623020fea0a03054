SPECIFICATION Spec
CONSTANTS
  s1 = s1
  s2 = s2
  Sessions = {s1, s2}
  Configs = {"unmetered"}
  Keys = {}
  MaxCommands = 3
  MaxExecs = 2
  MaxRunningAgents = 1
  MaxCrashes = 1
  Faults = {}
  Routes = {"continue", "direct", "stop"}
  None = None
  Api = Api
  Boot = Boot
  Policy <- MCPolicy
SYMMETRY SessionSymmetry
CHECK_DEADLOCK FALSE
INVARIANTS
  TypeOK
  CapacityRespected
  LiveChildHasRunningRow
  RunningRowIsOwned
  
