SPECIFICATION FairCapture
CONSTANTS
  Lines = 2
  LineBytes <- MCLineBytes
  ControlBytes = 1
  ControlOverdraft = 1
  FrameBytes = 2
  PageBytes = 4
  PageSizes = {3}
  MaxFrames = 4
  MaxFaults = 2
  None = None
  ui = ui
  HistoryBytes = 2
  MsgBytes <- MCMsgBytes
  Subscribers = {ui}
CHECK_DEADLOCK FALSE
INVARIANTS
  CompleteMeansEverything
  ShownIsDurable
  StreamsAccountForAll
PROPERTIES
  ExitIsPublished
  UnrecordedIsStopped
  StreamsEnd
