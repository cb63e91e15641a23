------------------------- MODULE MCServiceRequests -------------------------
(* One stream; the levels and decibels where something changes: both ends  *)
(* of the scale, the step in the middle, the values of single levels (one  *)
(* that is exact as a float, one that is not) and values beside them.      *)
EXTENDS ServiceRequests

CONSTANTS u1, m1

MCUris == {u1}
MCMetas == {m1}
MCPairs == {<<u1, m1>>, <<NoUri, NoMeta>>}

MCLevels == {-1, 0, 1, 49, 50, 51, 100, 150}
MCDecibels == {MinDB - 10, MinDB, DecibelOf(1), DecibelOf(5), MidDB - 1, MidDB,
               DecibelOf(51) + 10, MaxDB, MaxDB + 10}
MCInitials == {MinDB - 10, DecibelOf(27), MidDB + 1, MaxDB}
=============================================================================
