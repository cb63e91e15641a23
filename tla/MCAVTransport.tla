--------------------------- MODULE MCAVTransport ---------------------------
(* Two streams; a controller sends a stream with its own metadata or with  *)
(* none, or the empty URI.                                                 *)
EXTENDS AVTransport

CONSTANTS a, b, ma, mb

MCUris == {a, b}
MCMetas == {ma, mb}
MCPairs == {<<a, ma>>, <<a, NoMeta>>, <<b, mb>>, <<b, NoMeta>>, <<NoUri, NoMeta>>}
=============================================================================
