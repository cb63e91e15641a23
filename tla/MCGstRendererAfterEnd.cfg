SPECIFICATION Spec
CONSTANTS
  a = a
  b = b
  ma = ma
  mb = mb
  NoUri = NoUri
  NoMeta = NoMeta
  Absent = Absent
  Uris <- MCUris
  Metas <- MCMetas
  Pairs <- MCPairs
  Usages <- MCSimple
  MaxBus = 2
INVARIANT CurrentSetWhenItPlays
