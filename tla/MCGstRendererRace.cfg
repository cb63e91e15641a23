SPECIFICATION Spec
CONSTANTS
  a = a
  b = b
  ma = ma
  mb = mb
  NoUri = NoUri
  NoMeta = NoMeta
  Absent = Absent
  Uris <- MCUris
  Metas <- MCMetas
  Pairs <- MCPairs
  Usages <- MCAny
  MaxBus = 2
\* a handler that waits for READY may wait for good
CHECK_DEADLOCK FALSE
PROPERTY PlaybinGetsTheURI
