SPECIFICATION RequestSpec
CONSTANTS
  u1 = u1
  m1 = m1
  NoUri = NoUri
  NoMeta = NoMeta
  Absent = Absent
  Uris <- MCUris
  Metas <- MCMetas
  Pairs <- MCPairs
  Levels <- MCLevels
  Decibels <- MCDecibels
  Initials <- MCInitials
INVARIANTS
  TypeOK
  PlayingShowsTransportURI
  ControlTypeOK
  VolumeDBNamesVolume
  HeardIsShown
  AnswersAsDescribed
  ErrorsAreReported
