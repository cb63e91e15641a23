---------------------------- MODULE GstRenderer ----------------------------
(***************************************************************************)
(* AVTransport together with the GStreamer output (output_gstreamer.c).    *)
(*                                                                         *)
(* Three kinds of threads meet here:                                       *)
(*   - libupnp threads run the action handlers, one at a time, under       *)
(*     transport_mutex;                                                    *)
(*   - the streaming thread of the pipeline calls prepare_next_stream      *)
(*     ("about-to-finish"), which swaps gsuri_ and gs_next_uri_ without    *)
(*     any lock and then waits for transport_mutex to report the switch;   *)
(*   - the GLib main loop runs my_bus_callback on the messages of the      *)
(*     pipeline, with the same unlocked swap and the same report.          *)
(* All three read and write gsuri_ and drive the pipeline, so each access  *)
(* of these is a step, and the steps of the threads interleave.  A swap    *)
(* itself is one step.                                                     *)
(*                                                                         *)
(* The pipeline (playbin) is external: it is modelled as far as the output *)
(* uses it.  A change to READY drops the stream and waits until the        *)
(* streaming thread has left its callback; messages posted before stay on  *)
(* the bus.  A change out of READY takes the URI that is set then; one set *)
(* later is for the stream after that.  A change to PLAYING without a URI  *)
(* fails.  A pipeline that has posted end-of-stream stays in the state     *)
(* PLAYING, and posts it again when it is resumed after a pause.           *)
(***************************************************************************)
EXTENDS AVTransport, Sequences

CONSTANTS Usages,   \* ways in which the renderer is used, see UsageType
          MaxBus    \* bound: messages waiting on the bus

(* What controllers do, and how the program was started. *)
UsageType ==
  [setURIIn : SUBSET TransportStates,  \* they set a URI in these states
   streams : SUBSET Uris,              \* of these streams
   queueing : BOOLEAN,                 \* they use SetNextAVTransportURI
   incomplete : BOOLEAN,               \* they call it without metadata, too
   clearing : BOOLEAN,                 \* they send the empty URI, too
   pausing : BOOLEAN,                  \* they use Pause
   buffering : BOOLEAN]                \* --gstout-buffer-duration is above 0

ASSUME RendererAssumption == Usages \subseteq UsageType /\ MaxBus \in Nat

VARIABLES
  gsuri,      \* gsuri_; NoUri is NULL
  gsnext,     \* gs_next_uri_; NoUri is NULL
  callback,   \* play_trans_callback_ is set
  player,     \* the pipeline, see PlayerType
  bus,        \* messages the main loop has not taken yet
  handler,    \* the action whose handler holds transport_mutex, or "none"
  handlerPc,  \* what that handler does next
  streamPc,   \* what the streaming thread does next
  loopPc,     \* what the main loop does next
  usage,      \* how this renderer is used; never changes
  crossed     \* history: URIs were swapped between another thread's write
              \* of gsuri_ and its read; no step depends on it

outVars == <<gsuri, gsnext, callback, player, bus, handler, handlerPc,
             streamPc, loopPc, usage, crossed>>
vars == <<sv, outVars>>

MaybeUri == Uris \cup {NoUri}
Messages == {"EOS", "LOW", "FULL"}

PlayerType ==
  [state : {"READY", "PAUSED", "PLAYING"},   \* what get_state answers
   target : {"READY", "PAUSED", "PLAYING"},  \* what was last asked for
   uri : MaybeUri,        \* the property "uri"
   stream : MaybeUri,     \* the stream in the pipeline; NoUri: none
   drained : BOOLEAN,     \* about-to-finish was emitted for it
   follow : BOOLEAN,      \* uri was set meanwhile: goes on without a gap
   ended : BOOLEAN,       \* it was played to its end
   posted : BOOLEAN,      \* and end-of-stream was posted
   filling : BOOLEAN]     \* the buffer runs low

-----------------------------------------------------------------------------
(* The pipeline: gst_element_set_state and g_object_set. *)

(* Faulty: the flags of the dropped stream stay. *)
ToReadyKeepsFlags(p) ==
  [p EXCEPT !.state = "READY", !.target = "READY", !.stream = NoUri]

ToReady(p) ==
  [p EXCEPT !.state = "READY", !.target = "READY", !.stream = NoUri,
            !.drained = FALSE, !.follow = FALSE, !.ended = FALSE,
            !.posted = FALSE, !.filling = FALSE]

(* A change to PAUSED or PLAYING fails when there is nothing to play. *)
CanRun(p) == p.stream # NoUri \/ p.uri # NoUri

(* From READY the pipeline takes its URI and has to preroll first. *)
ToRunning(p, state) ==
  IF ~CanRun(p) THEN p
  ELSE IF p.state = "READY"
  THEN [p EXCEPT !.target = state,
                 !.stream = IF p.stream = NoUri THEN p.uri ELSE p.stream]
  ELSE [p EXCEPT !.state = state, !.target = state,
                 !.posted = p.posted /\ ~(p.state = "PAUSED" /\ state = "PLAYING")]

(* Faulty: only a pipeline without a URI is given one. *)
SetUriOnce(p, uri) == IF p.uri = NoUri THEN [p EXCEPT !.uri = uri] ELSE p

(* g_object_set of "uri": beside a stream it is the one to follow. *)
SetUri(p, uri) ==
  [p EXCEPT !.uri = uri, !.follow = p.stream # NoUri /\ uri # NoUri]

(* A change to READY has to wait while the streaming thread is in its      *)
(* callback.                                                               *)
StreamIdle == streamPc = "idle"

-----------------------------------------------------------------------------
(* Action handlers.  Pause and SetNextAVTransportURI have one access to    *)
(* what they share with the other threads; Play, Stop and a                *)
(* SetAVTransportURI have several, and hold transport_mutex meanwhile.     *)

MutexFree == handler = "none"

Begin(action, pc) == MutexFree /\ handler' = action /\ handlerPc' = pc
At(pc) == handlerPc = pc
Goto(pc) == handlerPc' = pc /\ UNCHANGED handler
Finish == handler' = "none" /\ handlerPc' = "idle"

(* Faulty: the next URI is not passed to the output. *)
SetNextForgetsOutput(uri, meta) ==
  /\ usage.queueing /\ MutexFree
  /\ sv' = AfterSetNextURI(sv, uri, meta)
  /\ UNCHANGED outVars

(* set_next_avtransport_uri and output_gstreamer_set_next_uri *)
HandleSetNext(uri, meta) ==
  /\ usage.queueing /\ MutexFree
  /\ sv' = AfterSetNextURI(sv, uri, meta)
  /\ gsnext' = uri
  /\ UNCHANGED <<gsuri, callback, player, bus, handler, handlerPc, streamPc, loopPc,
                 usage, crossed>>

(* Faulty: pausing is accepted in every state. *)
HandlePauseAnyState ==
  /\ usage.pausing /\ MutexFree
  /\ player' = ToRunning(player, "PAUSED")
  /\ sv' = IF CanRun(player) THEN AfterPause(sv) ELSE sv
  /\ UNCHANGED <<gsuri, gsnext, callback, bus, handler, handlerPc, streamPc, loopPc,
                 usage, crossed>>

(* Faulty: only the variables are paused. *)
HandlePauseForgetsOutput ==
  /\ usage.pausing /\ MutexFree
  /\ sv.TransportState = "PLAYING"
  /\ sv' = IF CanRun(player) THEN AfterPause(sv) ELSE sv
  /\ UNCHANGED outVars

(* pause_stream and output_gstreamer_pause *)
HandlePause ==
  /\ usage.pausing /\ MutexFree
  /\ sv.TransportState = "PLAYING"
  /\ player' = ToRunning(player, "PAUSED")
  /\ sv' = IF CanRun(player) THEN AfterPause(sv) ELSE sv
  /\ UNCHANGED <<gsuri, gsnext, callback, bus, handler, handlerPc, streamPc, loopPc,
                 usage, crossed>>

(* set_avtransport_uri, and output_gstreamer_set_uri up to its write *)
HandleSetURI(p) ==
  /\ Begin("SetURI", "check")
  /\ sv.TransportState \in usage.setURIIn
  /\ sv' = AfterSetURI(sv, p[1], p[2])
  /\ gsuri' = p[1]
  /\ UNCHANGED <<gsnext, callback, player, bus, streamPc, loopPc, usage, crossed>>

(* "If already playing, update the playbin's URI" *)
CheckPlaying ==
  /\ At("check")
  /\ IF player.state = "PLAYING" THEN Goto("play") ELSE Finish
  /\ UNCHANGED <<sv, gsuri, gsnext, callback, player, bus, streamPc, loopPc, usage,
                 crossed>>

(* play: calls output_gstreamer_play *)
HandlePlay ==
  /\ Begin("Play", "play")
  /\ sv.TransportState \in {"STOPPED", "PAUSED_PLAYBACK"}
  /\ callback' = TRUE
  /\ UNCHANGED <<sv, gsuri, gsnext, player, bus, streamPc, loopPc, usage, crossed>>

(* output_gstreamer_play, for Play and SetAVTransportURI, in four steps:   *)
(* it reads the state of the pipeline,                                     *)
PlayReadsState ==
  /\ At("play")
  /\ Goto(IF player.state = "PAUSED" THEN "start" ELSE "ready")
  /\ UNCHANGED <<sv, gsuri, gsnext, callback, player, bus, streamPc, loopPc, usage,
                 crossed>>

(* puts it to READY,                                                       *)
PlayToReady ==
  /\ At("ready") /\ handler # "Stop" /\ StreamIdle
  /\ player' = ToReady(player)
  /\ Goto("load")
  /\ UNCHANGED <<sv, gsuri, gsnext, callback, bus, streamPc, loopPc, usage, crossed>>

(* gives it the URI,                                                       *)
PlayLoads ==
  /\ At("load")
  /\ player' = SetUri(player, gsuri)
  /\ Goto("start")
  /\ UNCHANGED <<sv, gsuri, gsnext, callback, bus, streamPc, loopPc, usage, crossed>>

(* Faulty: a failure of the output is not noticed. *)
PlayStartsRegardless ==
  /\ At("start")
  /\ player' = ToRunning(player, "PLAYING")
  /\ sv' = IF handler = "Play" THEN AfterPlay(sv) ELSE sv
  /\ Finish
  /\ UNCHANGED <<gsuri, gsnext, callback, bus, streamPc, loopPc, usage, crossed>>

(* and starts it.  When that fails play answers error 704 and leaves the   *)
(* variables alone; output_gstreamer_set_uri does not look.                *)
PlayStarts ==
  /\ At("start")
  /\ player' = ToRunning(player, "PLAYING")
  /\ sv' = IF handler = "Play" /\ CanRun(player) THEN AfterPlay(sv) ELSE sv
  /\ Finish
  /\ UNCHANGED <<gsuri, gsnext, callback, bus, streamPc, loopPc, usage, crossed>>

(* stop: calls output_gstreamer_stop *)
HandleStop ==
  /\ Begin("Stop", "ready")
  /\ sv.TransportState \in {"PLAYING", "PAUSED_PLAYBACK"}
  /\ UNCHANGED <<sv, gsuri, gsnext, callback, player, bus, streamPc, loopPc, usage,
                 crossed>>

(* The pipeline is in READY.  A swap that crossed a start before this does *)
(* no longer matter, unless the main loop is in one.                       *)
StopFinishes ==
  /\ At("ready") /\ handler = "Stop" /\ StreamIdle
  /\ player' = ToReady(player)
  /\ sv' = AfterStop(sv)
  /\ Finish
  /\ crossed' = (crossed /\ loopPc # "idle")
  /\ UNCHANGED <<gsuri, gsnext, callback, bus, streamPc, loopPc, usage>>

-----------------------------------------------------------------------------
(* The pipeline by itself. *)

(* The stream has prerolled; the pipeline reaches the state asked for. *)
Preroll ==
  /\ player.state = "READY" /\ player.target # "READY"
  /\ player' = [player EXCEPT !.state = player.target]
  /\ UNCHANGED <<sv, gsuri, gsnext, callback, bus, handler, handlerPc, streamPc, loopPc,
                 usage, crossed>>

Running == player.state = "PLAYING" /\ player.stream # NoUri /\ ~player.ended

(* A handler, or the main loop, is between its write of gsuri_ (or what it *)
(* read of it) and the g_object_set that reads gsuri_ again.               *)
Crossable ==
  \/ handler # "Stop" /\ handlerPc \in {"check", "play", "ready", "load"}
  \/ loopPc \in {"swap", "ready", "load"}

(* prepare_next_stream, on the streaming thread: the swap,                 *)
AboutToFinish ==
  /\ Running /\ ~player.drained /\ StreamIdle
  /\ gsuri' = gsnext
  /\ gsnext' = NoUri
  /\ player' = [player EXCEPT !.drained = TRUE]
  /\ streamPc' = "swapped"
  /\ crossed' = (crossed \/ Crossable)
  /\ UNCHANGED <<sv, callback, bus, handler, handlerPc, loopPc, usage>>

(* then what it does with gsuri_, read again,                              *)
PassNextStream ==
  /\ streamPc = "swapped"
  /\ player' = IF gsuri # NoUri THEN SetUri(player, gsuri) ELSE player
  /\ streamPc' = IF gsuri # NoUri /\ callback THEN "report" ELSE "idle"
  /\ UNCHANGED <<sv, gsuri, gsnext, callback, bus, handler, handlerPc, loopPc, usage,
                 crossed>>

(* and inform_play_transition_from_output(PLAY_STARTED_NEXT_STREAM), once  *)
(* it has transport_mutex.                                                 *)
StreamReports ==
  /\ streamPc = "report" /\ MutexFree
  /\ sv' = AfterStartedNext(sv)
  /\ streamPc' = "idle"
  /\ UNCHANGED <<gsuri, gsnext, callback, player, bus, handler, handlerPc, loopPc, usage,
                 crossed>>

(* The next stream begins without a gap. *)
SwitchStream ==
  /\ Running /\ player.drained /\ player.follow /\ StreamIdle
  /\ player' = [player EXCEPT !.stream = player.uri, !.drained = FALSE,
                              !.follow = FALSE]
  /\ UNCHANGED <<sv, gsuri, gsnext, callback, bus, streamPc, loopPc, handler, handlerPc, usage,
                 crossed>>

(* The last sample was played: the pipeline says so on the bus. *)
EndOfStream ==
  /\ Running /\ player.drained /\ ~player.follow /\ StreamIdle
  /\ Len(bus) < MaxBus
  /\ player' = [player EXCEPT !.ended = TRUE, !.posted = TRUE]
  /\ bus' = Append(bus, "EOS")
  /\ UNCHANGED <<sv, gsuri, gsnext, callback, streamPc, loopPc, handler, handlerPc, usage,
                 crossed>>

(* Resumed after its end, it says so again. *)
EndOfStreamAgain ==
  /\ player.state = "PLAYING" /\ player.ended /\ ~player.posted
  /\ Len(bus) < MaxBus
  /\ player' = [player EXCEPT !.posted = TRUE]
  /\ bus' = Append(bus, "EOS")
  /\ UNCHANGED <<sv, gsuri, gsnext, callback, streamPc, loopPc, handler, handlerPc, usage,
                 crossed>>

(* The buffer of the stream runs low, and is full again. *)
BufferLow ==
  /\ usage.buffering /\ Running /\ ~player.filling
  /\ Len(bus) < MaxBus
  /\ player' = [player EXCEPT !.filling = TRUE]
  /\ bus' = Append(bus, "LOW")
  /\ UNCHANGED <<sv, gsuri, gsnext, callback, streamPc, loopPc, handler, handlerPc, usage,
                 crossed>>

BufferFull ==
  /\ player.filling
  /\ Len(bus) < MaxBus
  /\ player' = [player EXCEPT !.filling = FALSE]
  /\ bus' = Append(bus, "FULL")
  /\ UNCHANGED <<sv, gsuri, gsnext, callback, streamPc, loopPc, handler, handlerPc, usage,
                 crossed>>

-----------------------------------------------------------------------------
(* my_bus_callback on the main loop. *)

TakeMessage(m) ==
  /\ loopPc = "idle"
  /\ bus # <<>> /\ Head(bus) = m
  /\ bus' = Tail(bus)

(* End-of-stream with a next URI: the pipeline is restarted with it. *)
OnEosNext ==
  /\ TakeMessage("EOS")
  /\ gsnext # NoUri
  /\ loopPc' = "swap"
  /\ UNCHANGED <<sv, gsuri, gsnext, callback, player, handler, handlerPc, streamPc, usage,
                 crossed>>

(* gs_next_uri_, read again, may have been taken by the streaming thread. *)
LoopSwaps ==
  /\ loopPc = "swap"
  /\ gsuri' = gsnext
  /\ gsnext' = NoUri
  /\ loopPc' = "ready"
  /\ UNCHANGED <<sv, callback, player, bus, handler, handlerPc, streamPc, usage, crossed>>

LoopToReady ==
  /\ loopPc = "ready" /\ StreamIdle
  /\ player' = ToReady(player)
  /\ loopPc' = "load"
  /\ UNCHANGED <<sv, gsuri, gsnext, callback, bus, handler, handlerPc, streamPc, usage,
                 crossed>>

LoopLoads ==
  /\ loopPc = "load"
  /\ player' = SetUri(player, gsuri)
  /\ loopPc' = "start"
  /\ UNCHANGED <<sv, gsuri, gsnext, callback, bus, handler, handlerPc, streamPc, usage,
                 crossed>>

(* Whether the pipeline starts is not looked at. *)
LoopStarts ==
  /\ loopPc = "start"
  /\ player' = ToRunning(player, "PLAYING")
  /\ loopPc' = IF callback THEN "next" ELSE "idle"
  /\ UNCHANGED <<sv, gsuri, gsnext, callback, bus, handler, handlerPc, streamPc, usage,
                 crossed>>

(* Faulty: the end of the last stream is not reported. *)
OnEosSilently ==
  /\ TakeMessage("EOS")
  /\ gsnext = NoUri
  /\ UNCHANGED <<sv, gsuri, gsnext, callback, player, handler, handlerPc, loopPc, streamPc,
                 usage, crossed>>

(* End-of-stream with nothing queued. *)
OnEosStopped ==
  /\ TakeMessage("EOS")
  /\ gsnext = NoUri
  /\ loopPc' = IF callback THEN "stopped" ELSE "idle"
  /\ UNCHANGED <<sv, gsuri, gsnext, callback, player, handler, handlerPc, streamPc, usage,
                 crossed>>

(* GST_MESSAGE_BUFFERING pauses or plays, whatever the transport state. *)
OnBufferLow ==
  /\ TakeMessage("LOW")
  /\ player' = ToRunning(player, "PAUSED")
  /\ UNCHANGED <<sv, gsuri, gsnext, callback, loopPc, streamPc, handler, handlerPc, usage,
                 crossed>>

OnBufferFull ==
  /\ TakeMessage("FULL")
  /\ player' = ToRunning(player, "PLAYING")
  /\ UNCHANGED <<sv, gsuri, gsnext, callback, loopPc, streamPc, handler, handlerPc, usage,
                 crossed>>

(* The report of the main loop, once it has transport_mutex. *)
LoopReports ==
  /\ loopPc \in {"next", "stopped"} /\ MutexFree
  /\ sv' = IF loopPc = "next" THEN AfterStartedNext(sv) ELSE AfterPlayStopped(sv)
  /\ loopPc' = "idle"
  /\ UNCHANGED <<gsuri, gsnext, callback, player, bus, streamPc, handler, handlerPc, usage,
                 crossed>>

-----------------------------------------------------------------------------
Init ==
  /\ TransportInit
  /\ gsuri = NoUri /\ gsnext = NoUri
  /\ callback = FALSE
  /\ player = [state |-> "READY", target |-> "READY", uri |-> NoUri,
               stream |-> NoUri, drained |-> FALSE, follow |-> FALSE,
               ended |-> FALSE, posted |-> FALSE, filling |-> FALSE]
  /\ bus = <<>>
  /\ handler = "none" /\ handlerPc = "idle"
  /\ streamPc = "idle" /\ loopPc = "idle"
  /\ usage \in Usages
  /\ crossed = FALSE

Sent == {p \in Pairs : /\ p[1] \in usage.streams \cup {NoUri}
                       /\ usage.clearing \/ p[1] # NoUri}

Requests == \/ \E p \in Sent : HandleSetURI(p) \/ HandleSetNext(p[1], p[2])
            \/ \E p \in Sent : usage.incomplete /\ HandleSetNext(p[1], Absent)
            \/ HandlePlay \/ HandlePause \/ HandleStop

HandlerSteps == \/ CheckPlaying \/ PlayReadsState \/ PlayToReady \/ PlayLoads
                \/ PlayStarts \/ StopFinishes

Pipeline == \/ Preroll \/ SwitchStream \/ EndOfStream \/ EndOfStreamAgain
            \/ BufferLow \/ BufferFull
            \/ AboutToFinish \/ PassNextStream \/ StreamReports

LoopSteps == \/ OnEosNext \/ LoopSwaps \/ LoopToReady \/ LoopLoads \/ LoopStarts
             \/ OnEosStopped \/ OnBufferLow \/ OnBufferFull

Next == Requests \/ HandlerSteps \/ Pipeline \/ LoopSteps \/ LoopReports

Spec == Init /\ [][Next]_vars

(* The pipeline plays on, the main loop takes its messages and a handler   *)
(* goes on; nobody has to send a request.  A thread that waits for         *)
(* transport_mutex gets it if it is free again and again.                  *)
Fairness ==
  /\ WF_vars(HandlerSteps)
  /\ WF_vars(Preroll) /\ WF_vars(AboutToFinish) /\ WF_vars(PassNextStream)
  /\ WF_vars(SwitchStream)
  /\ SF_vars(EndOfStream) /\ SF_vars(EndOfStreamAgain)
  /\ WF_vars(LoopSteps)
  /\ SF_vars(StreamReports) /\ SF_vars(LoopReports)

FairSpec == Spec /\ Fairness

-----------------------------------------------------------------------------
(* Properties. *)

(* A pipeline as it can be: it has a stream exactly when it is in, or on   *)
(* its way to, a state other than READY, and what was signalled of that    *)
(* stream came in order.                                                   *)
PossiblePlayer(p) ==
  /\ p \in PlayerType
  /\ p.stream = NoUri <=> p.target = "READY"
  /\ p.target = "READY" => p.state = "READY"
  /\ p.drained \/ p.filling \/ p.follow => p.stream # NoUri
  /\ p.follow => p.uri # NoUri
  /\ p.ended => p.drained
  /\ p.posted => p.ended

(* Every variable has values of its kind. *)
TypeOKOutput ==
  /\ TypeOK
  /\ gsuri \in MaybeUri /\ gsnext \in MaybeUri
  /\ callback \in BOOLEAN
  /\ PossiblePlayer(player)
  /\ bus \in Seq(Messages)
  /\ <<handler, handlerPc>> \in
       {<<"none", "idle">>, <<"SetURI", "check">>, <<"Stop", "ready">>}
       \cup {"SetURI", "Play"} \X {"play", "ready", "load", "start"}
  /\ streamPc \in {"idle", "swapped", "report"}
  /\ loopPc \in {"idle", "swap", "ready", "load", "start", "next", "stopped"}
  /\ usage \in Usages
  /\ crossed \in BOOLEAN

(* A switch or an end of the stream that the transport has not been told. *)
ReportInFlight == streamPc # "idle" \/ loopPc # "idle"

(* Something is heard. *)
Audible == Running

(* What the output makes of requests and feedback is something AVTransport *)
(* allows: every theorem about AVTransport holds of the whole renderer.    *)
ImplementsTransport == TransportSpec

(* A next URI that control points are shown is queued in the output, once  *)
(* the reports that are under way have arrived; it is not shown after it   *)
(* was taken.  An empty URI may be set between the swap and the check of   *)
(* prepare_next_stream, which then reports nothing.                        *)
NextIsQueued ==
  ~usage.clearing /\ ~ReportInFlight /\ sv.NextAVTransportURI # NoUri
  => gsnext = sv.NextAVTransportURI

(* While PLAYING, and with no handler or restart of the main loop halfway, *)
(* the pipeline has been told to play and nothing else: no failed start,   *)
(* pause or stop is hidden from the transport state.  Three things do hide *)
(* one: a swap of URIs that takes the URI of a start in progress, an empty *)
(* URI set while PLAYING, and with buffering on messages about the buffer. *)
PlayingMeansRunning ==
  (/\ ~crossed /\ ~usage.clearing /\ ~usage.buffering
   /\ MutexFree /\ loopPc \notin {"load", "start"}
   /\ sv.TransportState = "PLAYING")
  => player.target = "PLAYING"

(* output_gstreamer.c, output_gstreamer_set_uri: "If already playing,      *)
(* update the playbin's URI".  A SetAVTransportURI that finds the pipeline *)
(* playing leaves it with the URI that was sent.  Fails: prepare_next_     *)
(* stream takes gsuri_ away between its write and the read in              *)
(* output_gstreamer_play.                                                  *)
PlaybinGetsTheURI ==
  [][handler = "SetURI" /\ At("start") /\ handler' = "none"
     => player'.uri = sv.AVTransportURI]_vars

(* While PAUSED_PLAYBACK nothing is heard.  With buffering on, a buffer    *)
(* that fills starts a paused stream, and with queueing an end-of-stream   *)
(* that was still on the bus at the Pause starts the next one.             *)
PausedIsSilent ==
  (/\ ~usage.buffering /\ ~usage.queueing
   /\ sv.TransportState = "PAUSED_PLAYBACK") => ~Audible

(* While PLAYING, a current track that has a URI is the one that is heard, *)
(* for controllers that only set a URI while STOPPED.  One that is set     *)
(* while PAUSED is shown after Play but not played, and so is one that is  *)
(* set while PLAYING when the pipeline has not prerolled yet.              *)
NamedTrackIsHeard ==
  (/\ usage.setURIIn = {"STOPPED"}
   /\ ~usage.queueing /\ ~usage.pausing /\ ~usage.buffering
   /\ sv.TransportState = "PLAYING" /\ Audible /\ ~ReportInFlight
   /\ sv.CurrentTrackURI # NoUri)
  => player.stream = sv.CurrentTrackURI

Finished == sv.TransportState = "PLAYING" /\ player.drained

(* A handler waits with transport_mutex for the streaming thread to leave  *)
(* its callback, and that thread waits there for transport_mutex.          *)
WaitForEachOther == At("ready") /\ streamPc = "report"

(* NEWS, 2012-10-12: "When we're finished with the current track, we go    *)
(* back to STOPPED, so that controllers will send us the next song."  The  *)
(* transport does not stay in PLAYING with a stream that comes to its end, *)
(* unless a handler and the streaming thread wait for each other.          *)
FinishedTrackStops ==
  Finished /\ ~usage.buffering ~> ~Finished \/ WaitForEachOther

(* The same without exception.  Fails: a Stop that comes while the         *)
(* streaming thread waits for transport_mutex in prepare_next_stream waits *)
(* for that thread.                                                        *)
FinishedTrackEnds == Finished ~> ~Finished

(* upnp_transport.c, set_avtransport_uri: "Transport URI/Meta set now,     *)
(* current URI/Meta when it starts playing."  Fails: after the end of a    *)
(* track the pipeline is still in PLAYING, so the next SetAVTransportURI   *)
(* starts to play although the transport is STOPPED.                       *)
CurrentSetWhenItPlays ==
  Audible /\ ~player.drained /\ ~ReportInFlight /\ MutexFree
  => player.stream = sv.CurrentTrackURI
=============================================================================
