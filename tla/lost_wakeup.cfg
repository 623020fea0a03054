SPECIFICATION FairQueue
CONSTANTS
  s1 = s1
  s2 = s2
  Sessions = {s1, s2}
  Configs = {"unmetered"}
  Keys = {}
  MaxCommands = 2
  MaxExecs = 2
  MaxRunningAgents = 1
  MaxCrashes = 0
  Faults = {}
  Routes = {"continue"}
  None = None
  Api = Api
  Boot = Boot
  Policy <- MCPolicy
CHECK_DEADLOCK FALSE
PROPERTIES
  QueueDrains
