SPECIFICATION FairApprovals
CONSTANTS
  Approvals = {tool, question}
  Questions = {question}
  Responders = {r1, r2}
CHECK_DEADLOCK FALSE
INVARIANTS
  OneDecision
PROPERTIES
  AgentIsAnswered
