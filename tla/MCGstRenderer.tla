--------------------------- MODULE MCGstRenderer ---------------------------
(* Two streams that are sent with their own metadata.  A simple controller *)
(* sets a URI while STOPPED, plays and stops; others set URIs in any state,*)
(* pause, queue tracks, send the empty URI, leave out metadata.  Which of  *)
(* the two is heard is a question for those that do not queue; the others  *)
(* send one stream.                                                        *)
EXTENDS GstRenderer

CONSTANTS a, b, ma, mb

MCUris == {a, b}
MCMetas == {ma, mb}
MCPairs == {<<a, ma>>, <<b, mb>>, <<NoUri, NoMeta>>}

Simple == [setURIIn |-> {"STOPPED"}, streams |-> MCUris, queueing |-> FALSE,
           incomplete |-> FALSE, clearing |-> FALSE, pausing |-> FALSE,
           buffering |-> FALSE]
Queued == [Simple EXCEPT !.queueing = TRUE]
Any == [Simple EXCEPT !.setURIIn = TransportStates, !.pausing = TRUE]

MCSimple == {Simple}
MCQueued == {Queued}
MCAny == {Any}
MCAll == {[Simple EXCEPT !.clearing = TRUE],
          [Any EXCEPT !.clearing = TRUE],
          [Any EXCEPT !.queueing = TRUE, !.streams = {a}],
          [Queued EXCEPT !.incomplete = TRUE, !.streams = {a}],
          [Any EXCEPT !.buffering = TRUE, !.clearing = TRUE, !.streams = {a}]}
=============================================================================
