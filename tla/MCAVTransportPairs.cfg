SPECIFICATION TransportSpec
CONSTANTS
  a = a
  b = b
  ma = ma
  mb = mb
  NoUri = NoUri
  NoMeta = NoMeta
  Absent = Absent
  Uris <- MCUris
  Metas <- MCMetas
  Pairs <- MCPairs
INVARIANT UriComesWithItsMeta
