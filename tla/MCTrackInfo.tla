---------------------------- MODULE MCTrackInfo ----------------------------
(* Positions on both sides of a minute and of an hour, a short and a long  *)
(* stream, Seek texts as print_upnp_time writes them and with 60 minutes;  *)
(* two streams, one with a document that has a title and a composer, the   *)
(* other with none, and the empty URI; tags with and without a title.      *)
EXTENDS TrackInfo

CONSTANTS u1, u2

MCPositions == {0, 1, 59, 3600}
MCDurations == {59, 3600}
MCTargets == {<<0, 0, 1>>, <<0, 60, 0>>}

Audio == [sort |-> "audio", has |-> [f \in {"title", "composer"} |-> "sent"]]
MCUris == {u1, u2}
MCMetas == {Audio}
MCPairs == {<<u1, Audio>>, <<u2, NoMeta>>, <<NoUri, NoMeta>>}
MCTags == {{"title", "composer"}, {"artist"}}
=============================================================================
