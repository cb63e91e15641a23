SPECIFICATION LifecycleSpec
CONSTANTS
  r1 = r1
  r2 = r2
  a = a
  b = b
  icon = icon
  scpd = scpd
  NotOpen = NotOpen
  None = None
  NoThread = NoThread
  NumVars = 2
  Value <- MCValue
  Initial <- MCInitial
  Requests <- MCRequests
  Content <- MCContent
  Buffers <- MCBuffers
  Offsets <- MCOffsets
  Icons <- MCIcons
  Scpds <- MCScpds
  Sinks <- MCSinks
  Filters <- MCFilters
  MaxRetries = 2
INVARIANT FinishAssertion
CHECK_DEADLOCK FALSE
