----------------------------- MODULE TrackInfo -----------------------------
(***************************************************************************)
(* What a control point is told about the track: its time (TrackTime) and  *)
(* its metadata (StreamMeta).  The two have no variable in common, so in a *)
(* behaviour one of them is followed and the other rests.                  *)
(***************************************************************************)
EXTENDS TrackTime, StreamMeta

VARIABLE followed   \* which of the two; never changes

infoVars == <<timeVars, metaVars, followed>>

InfoInit ==
  /\ TimeInit /\ MetaInit
  /\ followed \in {"time", "metadata"}
  /\ followed = "metadata" => ~unknown

InfoNext ==
  \/ followed = "time" /\ TimeNext /\ UNCHANGED <<metaVars, followed>>
  \/ followed = "metadata" /\ MetaNext /\ UNCHANGED <<timeVars, followed>>

InfoSpec == InfoInit /\ [][InfoNext]_infoVars /\ MetaFairness
=============================================================================
