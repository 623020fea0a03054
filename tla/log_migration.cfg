SPECIFICATION FairMigration
CONSTANTS
  Requests = {r1, r2}
  Keys = {1, 2}
  Texts <- MCTexts
  Bad = Bad
  MaxEdits = 1
  MaxFaults = 2
  Capture = Capture
  None = None
  a = a
  b = b
INVARIANTS
  EvidenceSurvives
  PlainCopyIsGenuine
PROPERTIES
  OwnerNeverReplaced
  MigrationResumes
