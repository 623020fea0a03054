SPECIFICATION Spec
CONSTANTS
  s1 = s1
  s2 = s2
  Sessions = {s1}
  Configs = {"ask", "never", "auto"}
  Keys = {}
  MaxCommands = 2
  MaxExecs = 2
  MaxRunningAgents = 1
  MaxCrashes = 0
  Faults = {"turn"}
  Routes = {"continue", "defer", "cancel_queue", "replace", "respond", "dispatch"}
  None = None
  Api = Api
  Boot = Boot
  Policy <- MCPolicy
CHECK_DEADLOCK FALSE
INVARIANTS
  HeadAuthorized
  NeverIsNeverLaunched
