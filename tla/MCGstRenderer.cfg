SPECIFICATION FairSpec
CONSTANTS
  a = a
  b = b
  ma = ma
  mb = mb
  NoUri = NoUri
  NoMeta = NoMeta
  Absent = Absent
  Uris <- MCUris
  Metas <- MCMetas
  Pairs <- MCPairs
  Usages <- MCAll
  MaxBus = 2
\* a handler that waits for READY may wait for good
CHECK_DEADLOCK FALSE
INVARIANTS
  TypeOKOutput
  NextIsQueued
  PlayingMeansRunning
  PausedIsSilent
  NamedTrackIsHeard
PROPERTIES
  ImplementsTransport
  FinishedTrackStops
