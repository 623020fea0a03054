SPECIFICATION Spec
CONSTANTS
  Ids = {w1}
  Repos = {r1, r2}
  Handlers = {h1, h2}
  ArchivedHours = 0
  RetentionHours = 1
  UtcOffset = 0
  None = None
SYMMETRY Symmetry
INVARIANTS
  
  OrphansAreSwept
  QuietWhileDraining
