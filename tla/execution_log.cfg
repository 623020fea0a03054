SPECIFICATION Spec
CONSTANTS
  Lines = 2
  LineBytes <- MCLineBytes
  ControlBytes = 1
  ControlOverdraft = 1
  FrameBytes = 2
  PageBytes = 4
  PageSizes = {3}
  MaxFrames = 2
  MaxFaults = 2
  None = None
INVARIANTS
  CacheAgreesWithOwner
  AcknowledgedIsDurable
  ConfirmedIsFinal
  ControlIsBounded
PROPERTIES
  DurableEvidence
