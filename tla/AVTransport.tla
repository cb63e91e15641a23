---------------------------- MODULE AVTransport ----------------------------
(***************************************************************************)
(* The AVTransport service (upnp_transport.c): what the action handlers    *)
(* and the feedback of the output do to the state variables.  Every        *)
(* handler holds transport_mutex from its first access to its last, so it  *)
(* is one step.  The output is any output: a command may fail, feedback    *)
(* may come at any time.  GstRenderer.tla has the one output there is.     *)
(*                                                                         *)
(* transport_state_ and the variable TransportState are assigned together  *)
(* and only in change_transport_state; sv.TransportState stands for both.  *)
(* The time variables are left out, and so are handlers that only read     *)
(* (Get...) or that fail on a missing argument before the first lock.      *)
(***************************************************************************)
EXTENDS Naturals

CONSTANTS Uris,    \* URIs of streams
          Metas,   \* metadata documents
          NoUri,   \* the empty URI
          NoMeta,  \* the empty metadata
          Pairs,   \* the <<uri, metadata>> pairs that controllers send
          Absent   \* upnp_get_string() found no such argument

ASSUME TransportAssumption ==
  /\ NoUri \notin Uris /\ NoMeta \notin Metas
  /\ Pairs \subseteq (Uris \cup {NoUri}) \X (Metas \cup {NoMeta})

TransportStates == {"STOPPED", "PLAYING", "PAUSED_PLAYBACK"}

(* The action lists of change_transport_state. *)
ActionLists == {{"PLAY"}, {"PLAY", "SEEK"}, {"PAUSE", "STOP", "SEEK"},
                {"PLAY", "STOP", "SEEK"}}

VARIABLE sv   \* the state variables of the service

-----------------------------------------------------------------------------
(* Helpers of the handlers, as functions from variables to variables. *)

TracksOf(uri) == IF uri = NoUri THEN 0 ELSE 1

ReplaceTransportUriAndMeta(s, uri, meta) ==
  [s EXCEPT !.AVTransportURI = uri,
            !.AVTransportURIMetaData = meta,
            !.NumberOfTracks = TracksOf(uri)]

ReplaceCurrentUriAndMeta(s, uri, meta) ==
  [s EXCEPT !.CurrentTrack = TracksOf(uri),
            !.CurrentTrackURI = uri,
            !.CurrentTrackMetaData = meta]

ActionsIn(state, uri) ==
  CASE state = "STOPPED" /\ uri = NoUri -> {"PLAY"}
    [] state = "STOPPED" /\ uri # NoUri -> {"PLAY", "SEEK"}
    [] state = "PLAYING" -> {"PAUSE", "STOP", "SEEK"}
    [] state = "PAUSED_PLAYBACK" -> {"PLAY", "STOP", "SEEK"}

(* change_transport_state: the actions on offer are only refreshed when    *)
(* the state is a new one, so that SEEK, which depends on the URI, is      *)
(* stale after a URI is set, or forgotten, while STOPPED.                  *)
ChangeTransportState(s, state) ==
  IF s.TransportState = state THEN s
  ELSE [s EXCEPT !.TransportState = state,
                 !.CurrentTransportActions = ActionsIn(state, s.AVTransportURI)]

-----------------------------------------------------------------------------
(* The handlers. *)

(* Faulty: the current track is not updated while playing. *)
SetURILeavesCurrent(s, uri, meta) == ReplaceTransportUriAndMeta(s, uri, meta)

(* set_avtransport_uri *)
AfterSetURI(s, uri, meta) ==
  LET t == ReplaceTransportUriAndMeta(s, uri, meta)
  IN  IF s.TransportState = "PLAYING"
      THEN ReplaceCurrentUriAndMeta(t, uri, meta) ELSE t

(* Faulty: missing metadata is stored like any other. *)
AfterSetNextUnchecked(s, uri, meta) ==
  [s EXCEPT !.NextAVTransportURI = uri, !.NextAVTransportURIMetaData = meta]

(* set_next_avtransport_uri; without metadata it fails, but only after it  *)
(* has set the URI.                                                        *)
AfterSetNextURI(s, uri, meta) ==
  IF meta = Absent
  THEN [s EXCEPT !.NextAVTransportURI = uri]
  ELSE [s EXCEPT !.NextAVTransportURI = uri, !.NextAVTransportURIMetaData = meta]

(* play, when the output played *)
AfterPlay(s) ==
  ReplaceCurrentUriAndMeta(ChangeTransportState(s, "PLAYING"),
                           s.AVTransportURI, s.AVTransportURIMetaData)

AfterPause(s) == ChangeTransportState(s, "PAUSED_PLAYBACK")

AfterStop(s) == ChangeTransportState(s, "STOPPED")

(* inform_play_transition_from_output(PLAY_STOPPED) *)
AfterPlayStopped(s) ==
  ChangeTransportState(
    ReplaceCurrentUriAndMeta(ReplaceTransportUriAndMeta(s, NoUri, NoMeta),
                             NoUri, NoMeta),
    "STOPPED")

(* inform_play_transition_from_output(PLAY_STARTED_NEXT_STREAM) *)
AfterStartedNext(s) ==
  [ReplaceCurrentUriAndMeta(
     ReplaceTransportUriAndMeta(s, s.NextAVTransportURI, s.NextAVTransportURIMetaData),
     s.NextAVTransportURI, s.NextAVTransportURIMetaData)
   EXCEPT !.NextAVTransportURI = NoUri, !.NextAVTransportURIMetaData = NoMeta]

-----------------------------------------------------------------------------
(* The initial values of upnp_transport_get_service. *)
InitialVariables ==
  [TransportState |-> "STOPPED",
   CurrentTransportActions |-> {"PLAY"},
   AVTransportURI |-> NoUri, AVTransportURIMetaData |-> NoMeta,
   NumberOfTracks |-> 0,
   CurrentTrack |-> 0,
   CurrentTrackURI |-> NoUri, CurrentTrackMetaData |-> NoMeta,
   NextAVTransportURI |-> NoUri, NextAVTransportURIMetaData |-> NoMeta]

TransportInit == sv = InitialVariables

SetAVTransportURI ==
  \E p \in Pairs : sv' = AfterSetURI(sv, p[1], p[2])

SetNextAVTransportURI ==
  \E p \in Pairs : sv' = AfterSetNextURI(sv, p[1], p[2])

SetNextAVTransportURIWithoutMeta ==
  \E p \in Pairs : sv' = AfterSetNextURI(sv, p[1], Absent)

Play ==
  /\ sv.TransportState \in {"STOPPED", "PAUSED_PLAYBACK"}
  /\ sv' = AfterPlay(sv)

Pause ==
  /\ sv.TransportState = "PLAYING"
  /\ sv' = AfterPause(sv)

Stop ==
  /\ sv.TransportState \in {"PLAYING", "PAUSED_PLAYBACK"}
  /\ sv' = AfterStop(sv)

PlayStopped == sv' = AfterPlayStopped(sv)

PlayStartedNextStream == sv' = AfterStartedNext(sv)

TransportNext ==
  \/ SetAVTransportURI \/ SetNextAVTransportURI \/ SetNextAVTransportURIWithoutMeta
  \/ Play \/ Pause \/ Stop
  \/ PlayStopped \/ PlayStartedNextStream

TransportSpec == TransportInit /\ [][TransportNext]_sv

-----------------------------------------------------------------------------
(* Properties. *)

TypeOK ==
  sv \in [TransportState : TransportStates,
          CurrentTransportActions : ActionLists,
          AVTransportURI : Uris \cup {NoUri},
          AVTransportURIMetaData : Metas \cup {NoMeta},
          NumberOfTracks : {0, 1},
          CurrentTrack : {0, 1},
          CurrentTrackURI : Uris \cup {NoUri},
          CurrentTrackMetaData : Metas \cup {NoMeta},
          NextAVTransportURI : Uris \cup {NoUri},
          NextAVTransportURIMetaData : Metas \cup {NoMeta}]

(* While PLAYING a control point sees the same track whether it asks       *)
(* GetMediaInfo (AVTransportURI, NrTracks) or GetPositionInfo (the current *)
(* track), whatever was set, switched or ended in between.                 *)
PlayingShowsTransportURI ==
  sv.TransportState = "PLAYING" =>
    /\ sv.CurrentTrackURI = sv.AVTransportURI
    /\ sv.CurrentTrackMetaData = sv.AVTransportURIMetaData
    /\ sv.CurrentTrack = sv.NumberOfTracks

(* upnp_transport.c, above replace_transport_uri_and_meta: "Transport uri  *)
(* always comes in uri/meta pairs."  Fails: SetNextAVTransportURI without  *)
(* metadata leaves the metadata of the track queued before beside the new  *)
(* URI, and the switch makes that pair the transport's.                    *)
UriComesWithItsMeta ==
  \/ <<sv.AVTransportURI, sv.AVTransportURIMetaData>> \in Pairs
  \/ sv.AVTransportURIMetaData = NoMeta
=============================================================================
