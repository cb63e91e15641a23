SPECIFICATION InfoSpec
CONSTANTS
  u1 = u1
  u2 = u2
  NoUri = NoUri
  NoMeta = NoMeta
  Absent = Absent
  Uris <- MCUris
  Metas <- MCMetas
  Pairs <- MCPairs
  Tags <- MCTags
  MaxTags = 1
  Positions <- MCPositions
  Durations <- MCDurations
  Targets <- MCTargets
  QueriesFail = {TRUE, FALSE}
INVARIANTS
  TimeTypeOK
  OldTimeStaysHidden
  PlayingShowsTransportURI
  StreamFieldsAreOwn
PROPERTIES
  ThreadRests
  ShownTimeFollows
  TitleIsShown
