---------------------------- MODULE StreamMeta ----------------------------
(***************************************************************************)
(* What the stream says about itself: tags of the pipeline become          *)
(* song_meta_ (output_gstreamer.c), song_meta_ becomes a DIDL document     *)
(* (song-meta-data.c), and update_meta_from_stream (upnp_transport.c)      *)
(* writes it over the metadata that the controller sent.  The latter reads *)
(* the old document before it takes transport_mutex, and writes the new    *)
(* one when it has it; requests come in between.                           *)
(*                                                                         *)
(* A document is a record of its sort ("audio", "other", or "made" here)   *)
(* and of its elements, a function from the names of the elements it has   *)
(* to where their text comes from: "sent" by the controller, "none"        *)
(* (empty), or the stream that it describes.  The handlers are those of    *)
(* AVTransport; output and pipeline are kept as far as tags depend on them.*)
(* How the threads meet over gsuri_ is the subject of GstRenderer; here a  *)
(* handler is one step.                                                    *)
(***************************************************************************)
EXTENDS AVTransport, Sequences

CONSTANTS Tags,     \* sets of fields that come together in one message
          MaxTags   \* bound: messages waiting on the bus

Fields == {"title", "artist", "album", "genre", "composer"}
None == "none"

(* Documents of these sorts, whose elements have their text from there. *)
Documents(sorts, origins) ==
  [sort : sorts, has : UNION {[elements -> origins] : elements \in SUBSET Fields}]

(* What controllers send, and what can become of it. *)
SentDocument == Documents({"audio", "other"}, {"sent", None})
Document == Documents({"audio", "other", "made"}, {"sent", None} \cup Uris)

ASSUME MetaAssumption ==
  /\ Tags \subseteq SUBSET Fields
  /\ MaxTags \in Nat
  /\ None \notin Uris
  /\ Metas \subseteq SentDocument /\ NoMeta \notin Document

VARIABLES
  wanted,     \* meta_update_callback_ is set
  song,       \* song_meta_: for each field the stream it comes from, or None
  output,     \* gsuri_ and gs_next_uri_
  pipe,       \* pipeline: its state, the state asked for, the stream in it
  messages,   \* on the bus: tags of a stream, or its end
  writing,    \* update_meta_from_stream waits for the mutex with this document
  hasty       \* history: the track was changed too early, see StreamFieldsAreOwn

metaVars == <<sv, wanted, song, output, pipe, messages, writing, hasty>>

Nothing == [sort |-> "nothing", has |-> [f \in {} |-> None]]
EndMessage == [of |-> NoUri, fields |-> {}]

-----------------------------------------------------------------------------
(* replace_transport_uri_and_meta: its answer *)
RequiresStreamMeta(meta) == meta = NoMeta \/ meta.sort = "audio"

(* Faulty: nothing is forgotten. *)
SongKept(s) == s

(* SongMetaData_clear; the composer stays. *)
SongCleared(s) == [f \in Fields |-> IF f = "composer" THEN s[f] ELSE None]

(* MetaModify_add_tag for each tag of a message *)
SongWith(s, fields, uri) == [f \in Fields |-> IF f \in fields THEN uri ELSE s[f]]

(* SongMetaData_to_DIDL: a new document when there was none, otherwise the *)
(* elements that it has, and that are known, get another content.          *)
ToDIDL(s, original) ==
  IF original = NoMeta THEN [sort |-> "made", has |-> s]
  ELSE [original EXCEPT !.has =
          [f \in DOMAIN @ |-> IF s[f] = None THEN @[f] ELSE s[f]]]

-----------------------------------------------------------------------------
(* Requests: the handlers of AVTransport, and what they make the output do.*)

(* A track that begins now may get the tags of another. *)
Unsettled ==
  messages # <<>> \/ writing # Nothing \/ (pipe.stream # NoUri /\ pipe.state # "PLAYING")

MetaSetURI(p) ==
  /\ sv' = AfterSetURI(sv, p[1], p[2])
  /\ wanted' = RequiresStreamMeta(p[2])
  /\ song' = SongCleared(song)
  /\ output' = [output EXCEPT !.uri = p[1]]
  /\ pipe' = IF pipe.state # "PLAYING" THEN pipe
             ELSE [state |-> "READY", stream |-> p[1],
                   target |-> IF p[1] = NoUri THEN "READY" ELSE "PLAYING"]
  /\ hasty' = Unsettled
  /\ UNCHANGED <<messages, writing>>

MetaSetNextURI(p) ==
  /\ sv' = AfterSetNextURI(sv, p[1], p[2])
  /\ output' = [output EXCEPT !.next = p[1]]
  /\ UNCHANGED <<wanted, song, pipe, messages, writing, hasty>>

(* play: fails when there is nothing to play. *)
MetaPlay ==
  /\ sv.TransportState # "PLAYING"
  /\ IF pipe.state = "PAUSED"
     THEN sv' = AfterPlay(sv) /\ pipe' = [pipe EXCEPT !.state = "PLAYING", !.target = "PLAYING"]
     ELSE /\ sv' = IF output.uri = NoUri THEN sv ELSE AfterPlay(sv)
          /\ pipe' = [state |-> "READY", stream |-> output.uri,
                      target |-> IF output.uri = NoUri THEN "READY" ELSE "PLAYING"]
  /\ UNCHANGED <<wanted, song, output, messages, writing, hasty>>

MetaPause ==
  /\ Pause
  /\ pipe.target # "READY"
  /\ pipe' = [pipe EXCEPT !.target = "PAUSED",
                          !.state = IF @ = "PLAYING" THEN "PAUSED" ELSE @]
  /\ UNCHANGED <<wanted, song, output, messages, writing, hasty>>

MetaStop ==
  /\ Stop
  /\ pipe' = [state |-> "READY", target |-> "READY", stream |-> NoUri]
  /\ UNCHANGED <<wanted, song, output, messages, writing, hasty>>

-----------------------------------------------------------------------------
(* The pipeline. *)

StreamBegins ==
  /\ pipe.state # pipe.target
  /\ pipe' = [pipe EXCEPT !.state = pipe.target]
  /\ UNCHANGED <<sv, wanted, song, output, messages, writing, hasty>>

PostTags ==
  /\ pipe.stream # NoUri /\ Len(messages) < MaxTags
  /\ \E t \in Tags : messages' = Append(messages, [of |-> pipe.stream, fields |-> t])
  /\ UNCHANGED <<sv, wanted, song, output, pipe, writing, hasty>>

(* prepare_next_stream with a next URI, its report, and the switch: nothing *)
(* is forgotten of the last stream.                                        *)
StartNext ==
  /\ pipe.state = "PLAYING" /\ pipe.stream # NoUri /\ output.next # NoUri
  /\ output' = [uri |-> output.next, next |-> NoUri]
  /\ pipe' = [pipe EXCEPT !.stream = output.next]
  /\ sv' = AfterStartedNext(sv)
  /\ hasty' = TRUE
  /\ UNCHANGED <<wanted, song, messages, writing>>

(* prepare_next_stream without one, and the end of the stream. *)
PostEnd ==
  /\ pipe.state = "PLAYING" /\ pipe.stream # NoUri /\ output.next = NoUri
  /\ Len(messages) < MaxTags
  /\ output' = [output EXCEPT !.uri = NoUri]
  /\ pipe' = [pipe EXCEPT !.stream = NoUri]
  /\ messages' = Append(messages, EndMessage)
  /\ UNCHANGED <<sv, wanted, song, writing, hasty>>

-----------------------------------------------------------------------------
(* my_bus_callback on the main loop. *)

TakeNext == writing = Nothing /\ messages # <<>> /\ messages' = Tail(messages)

OnEnd ==
  /\ TakeNext /\ Head(messages) = EndMessage
  /\ IF output.next = NoUri
     THEN /\ sv' = AfterPlayStopped(sv)
          /\ UNCHANGED <<output, pipe, hasty>>
     ELSE /\ sv' = AfterStartedNext(sv)
          /\ output' = [uri |-> output.next, next |-> NoUri]
          /\ pipe' = [state |-> "READY", target |-> "PLAYING", stream |-> output.next]
          /\ hasty' = TRUE
  /\ UNCHANGED <<wanted, song, writing>>

(* GST_MESSAGE_TAG, and update_meta_from_stream up to service_lock *)
OnTags ==
  /\ TakeNext /\ Head(messages) # EndMessage
  /\ LET heard == SongWith(song, Head(messages).fields, Head(messages).of)
     IN  IF ~wanted THEN UNCHANGED <<song, writing>>
         ELSE /\ song' = heard
              /\ writing' = IF heard = song \/ heard["title"] = None THEN Nothing
                            ELSE ToDIDL(heard, sv.AVTransportURIMetaData)
  /\ UNCHANGED <<sv, wanted, output, pipe, hasty>>

(* Faulty: only the metadata of the track is written. *)
WriteTrackMeta ==
  /\ writing # Nothing
  /\ sv' = [sv EXCEPT !.CurrentTrackMetaData = writing]
  /\ writing' = Nothing
  /\ UNCHANGED <<wanted, song, output, pipe, messages, hasty>>

(* update_meta_from_stream has the mutex *)
WriteMeta ==
  /\ writing # Nothing
  /\ sv' = [sv EXCEPT !.AVTransportURIMetaData = writing, !.CurrentTrackMetaData = writing]
  /\ writing' = Nothing
  /\ UNCHANGED <<wanted, song, output, pipe, messages, hasty>>

-----------------------------------------------------------------------------
MetaInit ==
  /\ TransportInit
  /\ wanted = FALSE
  /\ song = [f \in Fields |-> None]
  /\ output = [uri |-> NoUri, next |-> NoUri]
  /\ pipe = [state |-> "READY", target |-> "READY", stream |-> NoUri]
  /\ messages = <<>>
  /\ writing = Nothing
  /\ hasty = FALSE

MetaNext ==
  \/ \E p \in Pairs : MetaSetURI(p) \/ MetaSetNextURI(p)
  \/ MetaPlay \/ MetaPause \/ MetaStop
  \/ StreamBegins \/ PostTags \/ StartNext \/ PostEnd
  \/ OnEnd \/ OnTags \/ WriteMeta

(* The main loop goes on; its thread gets the mutex, which no handler here *)
(* keeps.                                                                  *)
MetaFairness == WF_metaVars(OnEnd) /\ WF_metaVars(OnTags) /\ WF_metaVars(WriteMeta)

MetaSpec == MetaInit /\ [][MetaNext]_metaVars /\ MetaFairness

-----------------------------------------------------------------------------
(* Properties; PlayingShowsTransportURI of AVTransport is to hold, too.    *)

(* After a SetAVTransportURI that came at rest no track is shown with the  *)
(* texts of another: whatever the stream wrote into the metadata of the    *)
(* transport describes the stream of its URI.  The composer is not kept    *)
(* apart, see SongCleared.  Nor are the others when the URI was set while  *)
(* tags of the last stream were on their way or its pipeline was only      *)
(* paused, or when a queued track began.                                   *)
StreamFieldsAreOwn ==
  ~hasty /\ sv.AVTransportURIMetaData # NoMeta =>
    \A f \in DOMAIN sv.AVTransportURIMetaData.has \ {"composer"} :
      sv.AVTransportURIMetaData.has[f] \in {"sent", None, sv.AVTransportURI}

TitleOnItsWay(uri) ==
  /\ wanted /\ ~hasty /\ sv.AVTransportURI = uri
  /\ \E i \in DOMAIN messages : messages[i].of = uri /\ "title" \in messages[i].fields

TitleShown(uri) ==
  /\ sv.AVTransportURIMetaData # NoMeta
  /\ "title" \in DOMAIN sv.AVTransportURIMetaData.has =>
       sv.AVTransportURIMetaData.has["title"] = uri

(* update_meta_from_stream: "We only really want to send back meta data if *)
(* we didn't get anything useful or if this is an audio item."  A title    *)
(* that comes while its track is on is shown in the end, although only     *)
(* changes of song_meta_ are passed on; unless the track is over before.   *)
TitleIsShown ==
  \A uri \in Uris :
    TitleOnItsWay(uri) ~> (TitleShown(uri) \/ ~wanted \/ hasty \/ sv.AVTransportURI # uri)
=============================================================================
