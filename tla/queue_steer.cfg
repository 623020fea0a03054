SPECIFICATION Spec
CONSTANTS
  s1 = s1
  s2 = s2
  Sessions = {s1}
  Configs = {"unmetered"}
  Keys = {"k"}
  MaxCommands = 2
  MaxExecs = 2
  MaxRunningAgents = 1
  MaxCrashes = 1
  Faults = {"prepare", "create", "spawn", "capture", "publish", "cleanup"}
  Routes = {"continue", "replace", "cancel", "requeue"}
  None = None
  Api = Api
  Boot = Boot
  Policy <- MCPolicy
CHECK_DEADLOCK FALSE
INVARIANTS
  VerdictMatchesExecution
  BoundWasPrompted
PROPERTIES
  TerminalStatesStick
  
