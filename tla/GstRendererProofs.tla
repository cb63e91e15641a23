-------------------------- MODULE GstRendererProofs -------------------------
(***************************************************************************)
(* The renderer with its GStreamer output implements AVTransport, so it    *)
(* inherits what AVTransportProofs shows; a next URI that control points   *)
(* are shown is really queued, or its switch is about to be reported; and  *)
(* the transport state says what the pipeline does, as far as it can.  For *)
(* any streams, any use of the service and any bus.                        *)
(***************************************************************************)
EXTENDS GstRenderer, AVTransportProofs

-----------------------------------------------------------------------------
(* Refinement.  The step in which Play or Stop sets the variables comes    *)
(* long after the handler looked at the transport state; it is still the   *)
(* same, as everything that changes it needs transport_mutex.              *)

HeldState ==
  /\ handler = "Play" => sv.TransportState \in {"STOPPED", "PAUSED_PLAYBACK"}
  /\ handler = "Stop" => sv.TransportState \in {"PLAYING", "PAUSED_PLAYBACK"}

(* The threads beside the handlers: the pipeline and the main loop before  *)
(* its report.                                                             *)
LEMMA OthersKeepVariables ==
  ASSUME \/ Preroll \/ SwitchStream \/ EndOfStream \/ EndOfStreamAgain
         \/ BufferLow \/ BufferFull \/ AboutToFinish \/ PassNextStream \/ LoopSteps
  PROVE  sv' = sv /\ handler' = handler /\ handlerPc' = handlerPc
BY DEF Preroll, SwitchStream, EndOfStream, EndOfStreamAgain, BufferLow, BufferFull,
       AboutToFinish, PassNextStream, LoopSteps, OnEosNext, LoopSwaps, LoopToReady,
       LoopLoads, LoopStarts, OnEosStopped, OnBufferLow, OnBufferFull

LEMMA NextHeldState == HeldState /\ [Next]_vars => HeldState'
<1> SUFFICES ASSUME HeldState, [Next]_vars PROVE HeldState'
  OBVIOUS
<1> USE DEF HeldState, Begin, Goto, Finish, MutexFree
<1>1. CASE Requests
  BY <1>1 DEF Requests, HandleSetURI, HandleSetNext, HandlePlay, HandlePause, HandleStop,
              outVars
<1>2. CASE HandlerSteps
  BY <1>2 DEF HandlerSteps, CheckPlaying, PlayReadsState, PlayToReady, PlayLoads,
              PlayStarts, StopFinishes
<1>3. CASE StreamReports \/ LoopReports
  BY <1>3 DEF StreamReports, LoopReports
<1>4. CASE UNCHANGED vars
  BY <1>4 DEF vars, outVars
<1> QED
  BY <1>1, <1>2, <1>3, <1>4, OthersKeepVariables DEF Next, Pipeline

LEMMA InitImplements == Init => TransportInit /\ HeldState
BY DEF Init, HeldState

(* Every step is a step of AVTransport or leaves its variables alone: the  *)
(* output only calls back what AVTransport is ready for at any time.       *)
LEMMA StepImplements == HeldState /\ [Next]_vars => [TransportNext]_sv
<1> SUFFICES ASSUME HeldState, [Next]_vars PROVE [TransportNext]_sv
  OBVIOUS
<1> USE DEF TransportNext
<1>1. ASSUME NEW p \in Pairs, HandleSetURI(p) PROVE SetAVTransportURI
  BY <1>1 DEF HandleSetURI, SetAVTransportURI
<1>2. ASSUME NEW p \in Pairs, HandleSetNext(p[1], p[2]) PROVE SetNextAVTransportURI
  BY <1>2 DEF HandleSetNext, SetNextAVTransportURI
<1>3. ASSUME NEW p \in Pairs, HandleSetNext(p[1], Absent)
      PROVE  SetNextAVTransportURIWithoutMeta
  BY <1>3 DEF HandleSetNext, SetNextAVTransportURIWithoutMeta
<1>4. CASE HandlePause
  BY <1>4 DEF HandlePause, Pause
<1>5. CASE HandlePlay \/ HandleStop \/ CheckPlaying \/ PlayReadsState
  BY <1>5 DEF HandlePlay, HandleStop, CheckPlaying, PlayReadsState
<1>6. CASE PlayToReady \/ PlayLoads
  BY <1>6 DEF PlayToReady, PlayLoads
<1>7. CASE PlayStarts
  BY <1>7 DEF PlayStarts, HeldState, Play
<1>8. CASE StopFinishes
  BY <1>8 DEF StopFinishes, HeldState, Stop
<1>9. CASE StreamReports
  BY <1>9 DEF StreamReports, PlayStartedNextStream
<1>10. CASE LoopReports
  BY <1>10 DEF LoopReports, PlayStartedNextStream, PlayStopped
<1>11. CASE UNCHANGED vars
  BY <1>11 DEF vars
<1> QED
  BY <1>1, <1>2, <1>3, <1>4, <1>5, <1>6, <1>7, <1>8, <1>9, <1>10, <1>11,
     OthersKeepVariables
     DEF Next, Requests, Sent, HandlerSteps, Pipeline

(* GstRenderer implements AVTransport. *)
THEOREM RendererImplementsTransport == Spec => ImplementsTransport
<1> QED
  BY InitImplements, NextHeldState, StepImplements, PTL
     DEF Spec, TransportSpec, ImplementsTransport

(* So its variables show one track while PLAYING. *)
THEOREM RendererShowsSameTrack == Spec => []PlayingShowsTransportURI
BY RendererImplementsTransport, SameTrackShown, PTL DEF ImplementsTransport

-----------------------------------------------------------------------------
(* The pipeline. *)

LEMMA ToReadyOK ==
  ASSUME NEW p, PossiblePlayer(p)
  PROVE  LET q == ToReady(p)
         IN  /\ PossiblePlayer(q)
             /\ q.state = "READY" /\ q.target = "READY" /\ q.stream = NoUri
             /\ q.uri = p.uri /\ q.follow = FALSE /\ q.filling = FALSE
BY DEF PossiblePlayer, PlayerType, ToReady, MaybeUri

LEMMA SetUriOK ==
  ASSUME NEW p, PossiblePlayer(p), NEW uri \in MaybeUri
  PROVE  LET q == SetUri(p, uri)
         IN  /\ PossiblePlayer(q)
             /\ q.state = p.state /\ q.target = p.target /\ q.stream = p.stream
             /\ q.uri = uri /\ q.filling = p.filling
             /\ q.follow = (p.stream # NoUri /\ uri # NoUri)
<1> DEFINE f == p.stream # NoUri /\ uri # NoUri
<1>1. SetUri(p, uri) = [p EXCEPT !.uri = uri, !.follow = f] /\ f \in BOOLEAN
  BY DEF SetUri
<1>2. f => p.stream # NoUri /\ uri # NoUri
  OBVIOUS
<1> HIDE DEF f
<1>3. LET q == SetUri(p, uri)
      IN  /\ PossiblePlayer(q)
          /\ q.state = p.state /\ q.target = p.target /\ q.stream = p.stream
          /\ q.uri = uri /\ q.filling = p.filling
          /\ q.follow = f
  BY <1>1, <1>2 DEF PossiblePlayer, PlayerType
<1> QED BY <1>3 DEF f

LEMMA ToRunningOK ==
  ASSUME NEW p, PossiblePlayer(p), NEW state \in {"PAUSED", "PLAYING"}
  PROVE  LET q == ToRunning(p, state)
         IN  /\ PossiblePlayer(q)
             /\ q.uri = p.uri /\ q.follow = p.follow /\ q.filling = p.filling
             /\ ~CanRun(p) => q = p
             /\ CanRun(p) =>
                  /\ q.target = state
                  /\ q.state = IF p.state = "READY" THEN "READY" ELSE state
                  /\ q.stream = IF p.stream = NoUri THEN p.uri ELSE p.stream
                  /\ q.stream # NoUri
<1>1. CASE ~CanRun(p)
  BY <1>1 DEF ToRunning
<1>2. CASE CanRun(p) /\ p.state = "READY"
  <2> DEFINE s == IF p.stream = NoUri THEN p.uri ELSE p.stream
  <2>1. ToRunning(p, state) = [p EXCEPT !.target = state, !.stream = s]
    BY <1>2 DEF ToRunning
  <2>2. s \in MaybeUri /\ s # NoUri
    BY <1>2 DEF CanRun, PossiblePlayer, PlayerType
  <2> HIDE DEF s
  <2>3. LET q == ToRunning(p, state)
        IN  /\ PossiblePlayer(q)
            /\ q.uri = p.uri /\ q.follow = p.follow /\ q.filling = p.filling
            /\ q.target = state /\ q.state = "READY" /\ q.stream = s
    BY <1>2, <2>1, <2>2 DEF PossiblePlayer, PlayerType
  <2> QED BY <1>2, <2>2, <2>3 DEF s
<1>3. CASE CanRun(p) /\ p.state # "READY"
  <2> DEFINE posted == p.posted /\ ~(p.state = "PAUSED" /\ state = "PLAYING")
  <2>1. ToRunning(p, state) =
          [p EXCEPT !.state = state, !.target = state, !.posted = posted]
    BY <1>3 DEF ToRunning
  <2>2. posted \in BOOLEAN /\ (posted => p.posted)
    BY DEF PossiblePlayer, PlayerType
  <2>3. p.stream # NoUri
    BY <1>3 DEF PossiblePlayer, PlayerType
  <2> HIDE DEF posted
  <2> QED BY <1>3, <2>1, <2>2, <2>3 DEF PossiblePlayer, PlayerType
<1> QED BY <1>1, <1>2, <1>3

(* What the pipeline does by itself, to itself. *)
LEMMA PrerollOK ==
  ASSUME PossiblePlayer(player), Preroll
  PROVE  /\ PossiblePlayer(player')
         /\ player'.state = player.target /\ player'.target = player.target
         /\ player'.uri = player.uri /\ player'.stream = player.stream
         /\ player'.follow = player.follow /\ player'.filling = player.filling
BY DEF Preroll, PossiblePlayer, PlayerType

LEMMA SwitchStreamOK ==
  ASSUME PossiblePlayer(player), SwitchStream
  PROVE  /\ PossiblePlayer(player')
         /\ player.follow
         /\ player'.state = player.state /\ player'.target = player.target
         /\ player'.uri = player.uri /\ player'.stream = player.uri
         /\ player'.follow = FALSE /\ player'.filling = player.filling
BY DEF SwitchStream, Running, PossiblePlayer, PlayerType

Signals == \/ AboutToFinish \/ EndOfStream \/ EndOfStreamAgain
           \/ BufferLow \/ BufferFull

LEMMA SignalsOK ==
  ASSUME PossiblePlayer(player), Signals
  PROVE  /\ PossiblePlayer(player')
         /\ player'.state = player.state /\ player'.target = player.target
         /\ player'.uri = player.uri /\ player'.stream = player.stream
         /\ player'.follow = player.follow
         /\ player.stream # NoUri /\ player.target # "READY"
         /\ ~BufferLow /\ ~BufferFull => player'.filling = player.filling
<1>1. CASE AboutToFinish
  BY <1>1 DEF AboutToFinish, Running, PossiblePlayer, PlayerType, BufferLow, BufferFull
<1>2. CASE EndOfStream
  BY <1>2 DEF EndOfStream, Running, PossiblePlayer, PlayerType
<1>3. CASE EndOfStreamAgain
  BY <1>3 DEF EndOfStreamAgain, PossiblePlayer, PlayerType
<1>4. CASE BufferLow
  BY <1>4 DEF BufferLow, Running, PossiblePlayer, PlayerType
<1>5. CASE BufferFull
  BY <1>5 DEF BufferFull, PossiblePlayer, PlayerType
<1> QED BY <1>1, <1>2, <1>3, <1>4, <1>5 DEF Signals

LEMMA PassNextOK ==
  ASSUME PossiblePlayer(player), gsuri \in MaybeUri, PassNextStream
  PROVE  /\ PossiblePlayer(player')
         /\ player'.state = player.state /\ player'.target = player.target
         /\ player'.stream = player.stream /\ player'.filling = player.filling
         /\ gsuri = NoUri => player' = player
         /\ gsuri # NoUri => player'.uri = gsuri
BY SetUriOK DEF PassNextStream

-----------------------------------------------------------------------------
(* Types, and the next URI. *)

(* The pipeline gets a URI, and messages, only after Play has installed    *)
(* the callback; and only then do the threads have something to do.        *)
CallbackInstalled ==
  ~callback =>
    /\ player.uri = NoUri /\ player.stream = NoUri /\ bus = <<>>
    /\ streamPc = "idle" /\ loopPc = "idle"
    /\ handler # "Play" /\ (handler = "SetURI" => At("check"))

(* The step from the output's next URI to the one shown is either done or  *)
(* has its report under way.                                               *)
NextTracked ==
  ~usage.clearing /\ sv.NextAVTransportURI # NoUri =>
    \/ gsnext = sv.NextAVTransportURI
    \/ streamPc = "swapped" /\ gsuri # NoUri
    \/ streamPc = "report"
    \/ loopPc \in {"ready", "load", "start", "next"}

RendererInv == /\ TransportInv /\ HeldState
               /\ TypeOKOutput
               /\ CallbackInstalled
               /\ NextTracked

(* The parts of the invariant that the steps below use. *)
LEMMA Facts ==
  ASSUME RendererInv
  PROVE  /\ TypeOK /\ PossiblePlayer(player) /\ bus \in Seq(Messages)
         /\ gsuri \in MaybeUri /\ gsnext \in MaybeUri /\ player.uri \in MaybeUri
         /\ <<handler, handlerPc>> \in
              {<<"none", "idle">>, <<"SetURI", "check">>, <<"Stop", "ready">>}
              \cup {"SetURI", "Play"} \X {"play", "ready", "load", "start"}
         /\ loopPc \in {"idle", "swap", "ready", "load", "start", "next", "stopped"}
         /\ streamPc \in {"idle", "swapped", "report"}
BY DEF RendererInv, TypeOKOutput, PossiblePlayer, PlayerType

(* A renderer is used in one way. *)
LEMMA UsageStays == [Next]_vars => usage' = usage
<1> SUFFICES ASSUME [Next]_vars PROVE usage' = usage
  OBVIOUS
<1>1. CASE Requests
  BY <1>1 DEF Requests, HandleSetURI, HandleSetNext, HandlePlay, HandlePause, HandleStop,
              outVars
<1>2. CASE HandlerSteps
  BY <1>2 DEF HandlerSteps, CheckPlaying, PlayReadsState, PlayToReady, PlayLoads,
              PlayStarts, StopFinishes
<1>3. CASE Pipeline
  BY <1>3 DEF Pipeline, Preroll, SwitchStream, EndOfStream, EndOfStreamAgain, BufferLow,
              BufferFull, AboutToFinish, PassNextStream, StreamReports
<1>4. CASE LoopSteps \/ LoopReports
  BY <1>4 DEF LoopSteps, OnEosNext, LoopSwaps, LoopToReady, LoopLoads, LoopStarts,
              OnEosStopped, OnBufferLow, OnBufferFull, LoopReports
<1>5. CASE UNCHANGED vars
  BY <1>5 DEF vars, outVars
<1> QED BY <1>1, <1>2, <1>3, <1>4, <1>5 DEF Next

LEMMA InitRendererInv == Init => RendererInv
<1> SUFFICES ASSUME Init PROVE RendererInv
  OBVIOUS
<1>1. TransportInv /\ HeldState
  BY InitImplements, InitTransportInv
<1>2. PossiblePlayer(player)
  BY DEF Init, PossiblePlayer, PlayerType, MaybeUri
<1>3. TypeOKOutput
  <2>1. bus \in Seq(Messages)
    BY DEF Init
  <2>2. TypeOK
    BY <1>1 DEF TransportInv
  <2> QED BY <1>2, <2>1, <2>2 DEF Init, TypeOKOutput, MaybeUri
<1>4. CallbackInstalled /\ NextTracked
  BY DEF Init, CallbackInstalled, NextTracked, TransportInit, InitialVariables
<1> QED BY <1>1, <1>2, <1>3, <1>4 DEF RendererInv

(* Every step keeps the pipeline possible, ... *)
LEMMA NextPlayer == RendererInv /\ [Next]_vars => PossiblePlayer(player')
<1> SUFFICES ASSUME RendererInv, [Next]_vars PROVE PossiblePlayer(player')
  OBVIOUS
<1>0. PossiblePlayer(player) /\ gsuri \in MaybeUri
  BY Facts
<1>1. CASE Requests
  BY <1>0, <1>1, ToRunningOK
     DEF Requests, HandleSetURI, HandleSetNext, HandlePlay, HandlePause, HandleStop, outVars
<1>2. CASE CheckPlaying \/ PlayReadsState \/ PlayToReady \/ StopFinishes
  BY <1>0, <1>2, ToReadyOK DEF CheckPlaying, PlayReadsState, PlayToReady, StopFinishes
<1>3. CASE PlayLoads \/ LoopLoads
  BY <1>0, <1>3, SetUriOK DEF PlayLoads, LoopLoads
<1>4. CASE PlayStarts \/ LoopStarts \/ OnBufferLow \/ OnBufferFull
  BY <1>0, <1>4, ToRunningOK DEF PlayStarts, LoopStarts, OnBufferLow, OnBufferFull
<1>5. CASE StreamReports \/ LoopReports \/ OnEosNext \/ LoopSwaps \/ OnEosStopped
  BY <1>0, <1>5 DEF StreamReports, LoopReports, OnEosNext, LoopSwaps, OnEosStopped
<1>6. CASE LoopToReady
  BY <1>0, <1>6, ToReadyOK DEF LoopToReady
<1>7. CASE UNCHANGED vars
  BY <1>0, <1>7 DEF vars, outVars
<1> QED
  BY <1>0, <1>1, <1>2, <1>3, <1>4, <1>5, <1>6, <1>7, PrerollOK, SwitchStreamOK, SignalsOK,
     PassNextOK
     DEF Next, HandlerSteps, Pipeline, LoopSteps, Signals

(* ... and every other variable of its type. *)
LEMMA NextTypes == RendererInv /\ TypeOK' /\ [Next]_vars => TypeOKOutput'
<1> SUFFICES ASSUME RendererInv, TypeOK', [Next]_vars PROVE TypeOKOutput'
  OBVIOUS
<1>0. TypeOKOutput
  BY DEF RendererInv
<1>1. PossiblePlayer(player') /\ usage' = usage
  BY NextPlayer, UsageStays
<1>2. NoUri \in MaybeUri /\ Messages = {"EOS", "LOW", "FULL"}
  BY DEF MaybeUri, Messages
<1> USE DEF TypeOKOutput, Begin, At, Goto, Finish, MutexFree
<1>3. ASSUME NEW p \in Pairs, HandleSetURI(p) PROVE TypeOKOutput'
  <2>1. p[1] \in MaybeUri
    BY PairTypes DEF MaybeUri
  <2> QED BY <1>0, <1>1, <1>3, <2>1 DEF HandleSetURI
<1>4. ASSUME NEW p \in Pairs, NEW meta, HandleSetNext(p[1], meta) PROVE TypeOKOutput'
  <2>1. p[1] \in MaybeUri
    BY PairTypes DEF MaybeUri
  <2> QED BY <1>0, <1>1, <1>4, <2>1 DEF HandleSetNext
<1>5. CASE HandlePlay \/ HandlePause \/ HandleStop
  BY <1>0, <1>1, <1>5 DEF HandlePlay, HandlePause, HandleStop
<1>6. CASE CheckPlaying \/ PlayReadsState \/ PlayToReady
  BY <1>0, <1>1, <1>6 DEF CheckPlaying, PlayReadsState, PlayToReady
<1>7. CASE PlayLoads \/ PlayStarts \/ StopFinishes
  BY <1>0, <1>1, <1>7 DEF PlayLoads, PlayStarts, StopFinishes
<1>8. CASE Preroll \/ SwitchStream \/ PassNextStream \/ StreamReports \/ LoopReports
  BY <1>0, <1>1, <1>8 DEF Preroll, SwitchStream, PassNextStream, StreamReports, LoopReports
<1>9. CASE AboutToFinish
  BY <1>0, <1>1, <1>2, <1>9 DEF AboutToFinish
<1>10. CASE EndOfStream \/ EndOfStreamAgain \/ BufferLow \/ BufferFull
  <2>1. bus' \in Seq(Messages)
    BY <1>0, <1>2, <1>10 DEF EndOfStream, EndOfStreamAgain, BufferLow, BufferFull
  <2> QED
    BY <1>0, <1>1, <1>10, <2>1 DEF EndOfStream, EndOfStreamAgain, BufferLow, BufferFull
<1>11. CASE OnEosNext \/ OnEosStopped \/ OnBufferLow \/ OnBufferFull
  <2>1. bus' \in Seq(Messages)
    BY <1>0, <1>11 DEF OnEosNext, OnEosStopped, OnBufferLow, OnBufferFull, TakeMessage
  <2> QED
    BY <1>0, <1>1, <1>11, <2>1 DEF OnEosNext, OnEosStopped, OnBufferLow, OnBufferFull
<1>12. CASE LoopSwaps \/ LoopToReady \/ LoopLoads \/ LoopStarts
  BY <1>0, <1>1, <1>2, <1>12 DEF LoopSwaps, LoopToReady, LoopLoads, LoopStarts
<1>13. CASE UNCHANGED vars
  BY <1>0, <1>1, <1>13 DEF vars, outVars
<1> QED
  BY <1>3, <1>4, <1>5, <1>6, <1>7, <1>8, <1>9, <1>10, <1>11, <1>12, <1>13
     DEF Next, Requests, Sent, HandlerSteps, Pipeline, LoopSteps

(* Every step keeps the callback in order. *)
LEMMA NextCallback == RendererInv /\ [Next]_vars => CallbackInstalled'
<1> SUFFICES ASSUME RendererInv, [Next]_vars, ~callback' PROVE CallbackInstalled'
  BY DEF CallbackInstalled
<1> USE DEF CallbackInstalled, Begin, At, Goto, Finish, MutexFree
<1>0. PossiblePlayer(player) /\ gsuri \in MaybeUri
  BY Facts
<1>1. ~callback => /\ player.uri = NoUri /\ player.stream = NoUri /\ bus = <<>>
                   /\ streamPc = "idle" /\ loopPc = "idle"
                   /\ handler # "Play" /\ (handler = "SetURI" => handlerPc = "check")
  BY DEF RendererInv
<1>2. callback' = callback \/ HandlePlay
  <2>1. CASE Requests
    BY <2>1 DEF Requests, HandleSetURI, HandleSetNext, HandlePause, HandleStop, outVars
  <2>2. CASE HandlerSteps
    BY <2>2 DEF HandlerSteps, CheckPlaying, PlayReadsState, PlayToReady, PlayLoads,
                PlayStarts, StopFinishes
  <2>3. CASE Pipeline
    BY <2>3 DEF Pipeline, Preroll, SwitchStream, EndOfStream, EndOfStreamAgain, BufferLow,
                BufferFull, AboutToFinish, PassNextStream, StreamReports
  <2>4. CASE LoopSteps \/ LoopReports
    BY <2>4 DEF LoopSteps, OnEosNext, LoopSwaps, LoopToReady, LoopLoads, LoopStarts,
                OnEosStopped, OnBufferLow, OnBufferFull, LoopReports
  <2>5. CASE UNCHANGED vars
    BY <2>5 DEF vars, outVars
  <2> QED BY <2>1, <2>2, <2>3, <2>4, <2>5 DEF Next
<1>3. ~HandlePlay
  BY DEF HandlePlay
<1>4. /\ ~callback
      /\ player.uri = NoUri /\ player.stream = NoUri /\ bus = <<>>
      /\ player.state = "READY" /\ player.target = "READY"
      /\ streamPc = "idle" /\ loopPc = "idle"
      /\ handler # "Play" /\ (handler = "SetURI" => handlerPc = "check")
  BY <1>0, <1>1, <1>2, <1>3 DEF PossiblePlayer
<1>5. CASE Requests
  <2>1. CASE HandlePause
    BY <1>0, <1>4, <2>1, ToRunningOK DEF HandlePause, CanRun
  <2>2. CASE ~HandlePause
    BY <1>3, <1>4, <1>5, <2>2
       DEF Requests, HandleSetURI, HandleSetNext, HandleStop, outVars
  <2> QED BY <2>1, <2>2
<1>6. CASE HandlerSteps
  <2>1. handler \in {"none", "SetURI", "Stop"} /\ handlerPc \in {"idle", "check", "ready"}
    BY <1>4, Facts
  <2>2. CASE CheckPlaying
    BY <1>4, <2>2 DEF CheckPlaying
  <2>3. CASE PlayToReady \/ StopFinishes
    BY <1>0, <1>4, <2>1, <2>3, ToReadyOK, Facts DEF PlayToReady, StopFinishes
  <2> QED BY <1>6, <2>1, <2>2, <2>3 DEF HandlerSteps, PlayReadsState, PlayLoads, PlayStarts
<1>7. CASE StreamReports \/ LoopReports
  BY <1>4, <1>7 DEF StreamReports, LoopReports
<1>8. ~Preroll /\ ~SwitchStream /\ ~Signals /\ ~PassNextStream
  BY <1>0, <1>4, SwitchStreamOK, SignalsOK DEF Preroll, PassNextStream, PossiblePlayer
<1>9. ~LoopSteps
  BY <1>4 DEF LoopSteps, OnEosNext, LoopSwaps, LoopToReady, LoopLoads, LoopStarts,
              OnEosStopped, OnBufferLow, OnBufferFull, TakeMessage
<1>10. CASE UNCHANGED vars
  BY <1>4, <1>10 DEF vars, outVars
<1> QED
  BY <1>5, <1>6, <1>7, <1>8, <1>9, <1>10 DEF Next, Pipeline, Signals

(* What the handlers and reports make of the transport state and of the    *)
(* URIs.                                                                   *)
LEMMA AfterHandlers ==
  ASSUME TypeOK
  PROVE  /\ \A uri, meta :
              LET t == AfterSetURI(sv, uri, meta)
              IN  /\ t.TransportState = sv.TransportState /\ t.AVTransportURI = uri
                  /\ t.NextAVTransportURI = sv.NextAVTransportURI
         /\ \A uri, meta :
              LET t == AfterSetNextURI(sv, uri, meta)
              IN  t.TransportState = sv.TransportState /\ t.NextAVTransportURI = uri
         /\ LET t == AfterPlay(sv)
            IN  /\ t.TransportState = "PLAYING"
                /\ t.AVTransportURI = sv.AVTransportURI
                /\ t.CurrentTrackURI = sv.AVTransportURI
                /\ t.NextAVTransportURI = sv.NextAVTransportURI
         /\ LET t == AfterPause(sv)
            IN  /\ t.TransportState = "PAUSED_PLAYBACK"
                /\ t.AVTransportURI = sv.AVTransportURI
                /\ t.NextAVTransportURI = sv.NextAVTransportURI
         /\ LET t == AfterStop(sv)
            IN  /\ t.TransportState = "STOPPED" /\ t.AVTransportURI = sv.AVTransportURI
                /\ t.NextAVTransportURI = sv.NextAVTransportURI
         /\ LET t == AfterPlayStopped(sv)
            IN  /\ t.TransportState = "STOPPED" /\ t.AVTransportURI = NoUri
                /\ t.NextAVTransportURI = sv.NextAVTransportURI
         /\ LET t == AfterStartedNext(sv)
            IN  /\ t.TransportState = sv.TransportState
                /\ t.NextAVTransportURI = NoUri
<1> USE DEF TypeOK, ReplaceTransportUriAndMeta, ReplaceCurrentUriAndMeta, ChangeTransportState
<1>1. ASSUME NEW uri, NEW meta
      PROVE  LET t == AfterSetURI(sv, uri, meta)
             IN  /\ t.TransportState = sv.TransportState /\ t.AVTransportURI = uri
                 /\ t.NextAVTransportURI = sv.NextAVTransportURI
  BY DEF AfterSetURI
<1>2. ASSUME NEW uri, NEW meta
      PROVE  LET t == AfterSetNextURI(sv, uri, meta)
             IN  t.TransportState = sv.TransportState /\ t.NextAVTransportURI = uri
  <2>1. CASE meta = Absent
    BY <2>1 DEF AfterSetNextURI
  <2>2. CASE meta # Absent
    BY <2>2 DEF AfterSetNextURI
  <2> QED BY <2>1, <2>2
<1>3. LET t == AfterPlay(sv)
      IN  /\ t.TransportState = "PLAYING"
          /\ t.AVTransportURI = sv.AVTransportURI
          /\ t.CurrentTrackURI = sv.AVTransportURI
          /\ t.NextAVTransportURI = sv.NextAVTransportURI
  BY DEF AfterPlay
<1>4. LET t == AfterPause(sv)
      IN  /\ t.TransportState = "PAUSED_PLAYBACK" /\ t.AVTransportURI = sv.AVTransportURI
          /\ t.NextAVTransportURI = sv.NextAVTransportURI
  BY DEF AfterPause
<1>5. LET t == AfterStop(sv)
      IN  /\ t.TransportState = "STOPPED" /\ t.AVTransportURI = sv.AVTransportURI
          /\ t.NextAVTransportURI = sv.NextAVTransportURI
  BY DEF AfterStop
<1>6. LET t == AfterPlayStopped(sv)
      IN  /\ t.TransportState = "STOPPED" /\ t.AVTransportURI = NoUri
          /\ t.NextAVTransportURI = sv.NextAVTransportURI
  BY DEF AfterPlayStopped
<1>7. LET t == AfterStartedNext(sv)
      IN  t.TransportState = sv.TransportState /\ t.NextAVTransportURI = NoUri
  BY DEF AfterStartedNext
<1> QED BY <1>1, <1>2, <1>3, <1>4, <1>5, <1>6, <1>7

(* Every step keeps track of the next URI. *)
LEMMA NextKeepsNext == RendererInv /\ [Next]_vars => NextTracked'
<1> SUFFICES ASSUME RendererInv, [Next]_vars, ~usage'.clearing PROVE NextTracked'
  BY DEF NextTracked
<1> USE DEF NextTracked
<1>0. /\ TypeOK /\ PossiblePlayer(player) /\ ~usage.clearing
      /\ loopPc # "idle" \/ streamPc # "idle" \/ bus # <<>> => callback
      /\ sv.NextAVTransportURI # NoUri =>
           \/ gsnext = sv.NextAVTransportURI
           \/ streamPc = "swapped" /\ gsuri # NoUri
           \/ streamPc = "report"
           \/ loopPc \in {"ready", "load", "start", "next"}
  BY Facts, UsageStays DEF RendererInv, CallbackInstalled
<1>1. ASSUME NEW p \in Sent, HandleSetURI(p) PROVE NextTracked'
  <2>1. p[1] # NoUri
    BY <1>0 DEF Sent
  <2> QED BY <1>0, <1>1, <2>1, AfterHandlers DEF HandleSetURI
<1>2. ASSUME NEW p, NEW meta, HandleSetNext(p[1], meta) PROVE NextTracked'
  BY <1>0, <1>2, AfterHandlers DEF HandleSetNext
<1>3. CASE HandlePlay \/ HandlePause \/ HandleStop
  BY <1>0, <1>3, AfterHandlers DEF HandlePlay, HandlePause, HandleStop
<1>4. CASE HandlerSteps
  BY <1>0, <1>4, AfterHandlers
     DEF HandlerSteps, CheckPlaying, PlayReadsState, PlayToReady, PlayLoads, PlayStarts,
         StopFinishes
<1>5. CASE Preroll \/ SwitchStream \/ EndOfStream \/ EndOfStreamAgain
  BY <1>0, <1>5 DEF Preroll, SwitchStream, EndOfStream, EndOfStreamAgain
<1>6. CASE BufferLow \/ BufferFull \/ OnBufferLow \/ OnBufferFull
  BY <1>0, <1>6 DEF BufferLow, BufferFull, OnBufferLow, OnBufferFull, TakeMessage
<1>7. CASE AboutToFinish
  BY <1>0, <1>7 DEF AboutToFinish, StreamIdle
<1>8. CASE PassNextStream
  BY <1>0, <1>8 DEF PassNextStream
<1>9. CASE StreamReports
  BY <1>0, <1>9, AfterHandlers DEF StreamReports
<1>10. CASE LoopReports
  BY <1>0, <1>10, AfterHandlers DEF LoopReports
<1>11. CASE OnEosNext \/ OnEosStopped
  BY <1>0, <1>11 DEF OnEosNext, OnEosStopped, TakeMessage
<1>12. CASE LoopSwaps \/ LoopToReady \/ LoopLoads \/ LoopStarts
  BY <1>0, <1>12 DEF LoopSwaps, LoopToReady, LoopLoads, LoopStarts
<1>13. CASE UNCHANGED vars
  BY <1>0, <1>13 DEF vars, outVars
<1> QED
  BY <1>1, <1>2, <1>3, <1>4, <1>5, <1>6, <1>7, <1>8, <1>9, <1>10, <1>11, <1>12, <1>13
     DEF Next, Requests, Pipeline, LoopSteps

LEMMA NextRendererInv == RendererInv /\ [Next]_vars => RendererInv'
<1>1. RendererInv /\ [Next]_vars => TransportInv' /\ HeldState'
  BY StepImplements, NextTransportInv, NextHeldState DEF RendererInv
<1>2. TransportInv' => TypeOK'
  BY DEF TransportInv
<1> QED BY <1>1, <1>2, NextTypes, NextCallback, NextKeepsNext DEF RendererInv

(* The invariant of the renderer holds in every reachable state. *)
THEOREM RendererInvariance == Spec => []RendererInv
BY InitRendererInv, NextRendererInv, PTL DEF Spec

(* Types, and no step drives the pipeline into an impossible state. *)
THEOREM RendererTypes == Spec => []TypeOKOutput
<1>1. RendererInv => TypeOKOutput
  BY DEF RendererInv
<1> QED BY <1>1, RendererInvariance, PTL

(* The next URI that is shown is the one that is queued, although the      *)
(* streaming thread and the main loop take it without a lock.              *)
THEOREM ShownNextIsQueued == Spec => []NextIsQueued
<1>1. RendererInv => NextIsQueued
  BY DEF RendererInv, NextTracked, NextIsQueued, ReportInFlight
<1> QED BY <1>1, RendererInvariance, PTL

-----------------------------------------------------------------------------
(* PLAYING.  Without buffering only end-of-stream waits on the bus, so the *)
(* main loop never pauses the pipeline.                                    *)

NoBufferMessages ==
  ~usage.buffering => ~player.filling /\ \A i \in DOMAIN bus : bus[i] = "EOS"

LEMMA NextNoBuffer ==
  RendererInv /\ NoBufferMessages /\ [Next]_vars => NoBufferMessages'
<1> SUFFICES ASSUME RendererInv, NoBufferMessages, [Next]_vars, ~usage'.buffering
             PROVE  ~player'.filling /\ \A i \in DOMAIN bus' : bus'[i] = "EOS"
  BY DEF NoBufferMessages
<1> DEFINE Quiet == ~player'.filling /\ \A i \in DOMAIN bus' : bus'[i] = "EOS"
<1>0. /\ PossiblePlayer(player) /\ bus \in Seq(Messages)
      /\ gsuri \in MaybeUri /\ ~usage.buffering
  BY Facts, UsageStays
<1>1. ~player.filling /\ \A i \in DOMAIN bus : bus[i] = "EOS"
  BY <1>0 DEF NoBufferMessages
<1>2. CASE Requests
  BY <1>0, <1>1, <1>2, ToRunningOK
     DEF Requests, HandleSetURI, HandleSetNext, HandlePlay, HandlePause, HandleStop, outVars
<1>3. CASE CheckPlaying \/ PlayReadsState \/ PlayToReady \/ StopFinishes
  BY <1>0, <1>1, <1>3, ToReadyOK DEF CheckPlaying, PlayReadsState, PlayToReady, StopFinishes
<1>4. CASE PlayLoads \/ LoopLoads
  BY <1>0, <1>1, <1>4, SetUriOK DEF PlayLoads, LoopLoads
<1>5. CASE PlayStarts \/ LoopStarts
  BY <1>0, <1>1, <1>5, ToRunningOK DEF PlayStarts, LoopStarts
<1>6. CASE LoopToReady
  BY <1>0, <1>1, <1>6, ToReadyOK DEF LoopToReady
<1>7. CASE Preroll \/ SwitchStream \/ PassNextStream
  BY <1>0, <1>1, <1>7, PrerollOK, SwitchStreamOK, PassNextOK
     DEF Preroll, SwitchStream, PassNextStream
<1>8. CASE EndOfStream \/ EndOfStreamAgain
  <2>1. player'.filling = player.filling /\ bus' = Append(bus, "EOS")
    BY <1>0, <1>8 DEF EndOfStream, EndOfStreamAgain, PossiblePlayer, PlayerType
  <2> QED BY <1>0, <1>1, <2>1
<1>9. CASE AboutToFinish
  <2>1. player'.filling = player.filling /\ bus' = bus
    BY <1>0, <1>9 DEF AboutToFinish, PossiblePlayer, PlayerType
  <2> QED BY <1>1, <2>1
<1>10. ~BufferLow /\ ~BufferFull /\ ~OnBufferLow /\ ~OnBufferFull
  BY <1>0, <1>1 DEF BufferLow, BufferFull, OnBufferLow, OnBufferFull, TakeMessage
<1>11. CASE StreamReports \/ LoopReports \/ LoopSwaps
  BY <1>1, <1>11 DEF StreamReports, LoopReports, LoopSwaps
<1>12. CASE OnEosNext \/ OnEosStopped
  BY <1>0, <1>1, <1>12 DEF OnEosNext, OnEosStopped, TakeMessage
<1>13. CASE UNCHANGED vars
  BY <1>1, <1>13 DEF vars, outVars
<1> QED
  BY <1>2, <1>3, <1>4, <1>5, <1>6, <1>7, <1>8, <1>9, <1>10, <1>11, <1>12, <1>13
     DEF Next, HandlerSteps, Pipeline, LoopSteps

(* Where no swap came in between, a thread that is about to read gsuri_    *)
(* finds a URI there; ...                                                  *)
UriIsThere ==
  /\ handler = "SetURI" /\ ~At("start") => gsuri # NoUri
  /\ loopPc = "swap" => gsnext # NoUri
  /\ loopPc \in {"ready", "load"} => gsuri # NoUri

(* ... there is something to start, or the other thread is about to load   *)
(* it; ...                                                                 *)
StartsWithUri ==
  /\ handler = "SetURI" /\ At("start") => CanRun(player) \/ loopPc = "load"
  /\ loopPc = "start" /\ sv.TransportState = "PLAYING" => CanRun(player) \/ At("load")

(* ... and outside the restarts the pipeline has been told to play.        *)
ToldToPlay ==
  (/\ handlerPc \notin {"load", "start"} /\ loopPc \notin {"load", "start"}
   /\ sv.TransportState = "PLAYING")
  => player.target = "PLAYING"

PlayingInv ==
  ~crossed /\ ~usage.clearing /\ ~usage.buffering
  => UriIsThere /\ StartsWithUri /\ ToldToPlay

LEMMA NextPlaying ==
  RendererInv /\ NoBufferMessages /\ PlayingInv /\ [Next]_vars => PlayingInv'
<1> SUFFICES ASSUME RendererInv, NoBufferMessages, PlayingInv, [Next]_vars,
                    ~crossed', ~usage'.clearing, ~usage'.buffering
             PROVE  UriIsThere' /\ StartsWithUri' /\ ToldToPlay'
  BY DEF PlayingInv
<1> DEFINE Goal == UriIsThere' /\ StartsWithUri' /\ ToldToPlay'
<1>0. /\ TypeOK /\ PossiblePlayer(player) /\ bus \in Seq(Messages)
      /\ gsuri \in MaybeUri /\ HeldState
      /\ <<handler, handlerPc>> \in
           {<<"none", "idle">>, <<"SetURI", "check">>, <<"Stop", "ready">>}
           \cup {"SetURI", "Play"} \X {"play", "ready", "load", "start"}
      /\ ~usage.clearing /\ ~usage.buffering
      /\ ~player.filling /\ \A i \in DOMAIN bus : bus[i] = "EOS"
  BY Facts, UsageStays DEF RendererInv, NoBufferMessages
<1> USE DEF Begin, At, Goto, Finish, MutexFree, UriIsThere, StartsWithUri, ToldToPlay, CanRun
(* A Stop ends what was crossed; whatever comes before it holds no more.   *)
<1>1. CASE StopFinishes
  <2>1. sv'.TransportState = "STOPPED" /\ handler' = "none" /\ handlerPc' = "idle"
    BY <1>0, <1>1, AfterHandlers DEF StopFinishes
  <2>2. loopPc' = loopPc /\ gsuri' = gsuri /\ gsnext' = gsnext
    BY <1>1 DEF StopFinishes
  <2>3. loopPc = "idle" \/ ~crossed
    BY <1>1 DEF StopFinishes
  <2> QED BY <1>0, <2>1, <2>2, <2>3 DEF PlayingInv
<1>2. SUFFICES ASSUME ~StopFinishes PROVE Goal
  BY <1>1
<1>3. ~crossed
  <2>1. CASE Requests
    BY <2>1 DEF Requests, HandleSetURI, HandleSetNext, HandlePlay, HandlePause, HandleStop,
                outVars
  <2>2. CASE HandlerSteps
    BY <1>2, <2>2 DEF HandlerSteps, CheckPlaying, PlayReadsState, PlayToReady, PlayLoads,
                      PlayStarts
  <2>3. CASE Pipeline
    BY <2>3 DEF Pipeline, Preroll, SwitchStream, EndOfStream, EndOfStreamAgain, BufferLow,
                BufferFull, AboutToFinish, PassNextStream, StreamReports
  <2>4. CASE LoopSteps \/ LoopReports
    BY <2>4 DEF LoopSteps, OnEosNext, LoopSwaps, LoopToReady, LoopLoads, LoopStarts,
                OnEosStopped, OnBufferLow, OnBufferFull, LoopReports
  <2>5. CASE UNCHANGED vars
    BY <2>5 DEF vars, outVars
  <2> QED BY <2>1, <2>2, <2>3, <2>4, <2>5 DEF Next
<1>4. UriIsThere /\ StartsWithUri /\ ToldToPlay
  BY <1>0, <1>3 DEF PlayingInv
<1>5. ASSUME NEW p \in Sent, HandleSetURI(p) PROVE Goal
  <2>1. p[1] # NoUri
    BY <1>0 DEF Sent
  <2> QED BY <1>0, <1>4, <1>5, <2>1, AfterHandlers DEF HandleSetURI
<1>6. ASSUME NEW p \in Sent, NEW meta, HandleSetNext(p[1], meta) PROVE Goal
  <2>1. p[1] # NoUri
    BY <1>0 DEF Sent
  <2> QED BY <1>0, <1>4, <1>6, <2>1, AfterHandlers DEF HandleSetNext
<1>7. CASE HandlePlay \/ HandleStop
  BY <1>0, <1>4, <1>7 DEF HandlePlay, HandleStop
<1>8. CASE HandlePause
  <2>1. CASE CanRun(player)
    <3>1. sv'.TransportState = "PAUSED_PLAYBACK"
      BY <1>0, <1>8, <2>1, AfterHandlers DEF HandlePause
    <3> QED BY <1>0, <1>4, <1>8, <3>1 DEF HandlePause
  <2>2. CASE ~CanRun(player)
    <3>1. player' = player /\ sv' = sv
      BY <1>0, <1>8, <2>2, ToRunningOK DEF HandlePause
    <3> QED BY <1>0, <1>4, <1>8, <3>1 DEF HandlePause
  <2> QED BY <2>1, <2>2
<1>9. CASE CheckPlaying \/ PlayReadsState
  <2>1. player.state = "PAUSED" => player.stream # NoUri
    BY <1>0 DEF PossiblePlayer
  <2>2. UNCHANGED <<sv, gsuri, gsnext, player, loopPc>>
    BY <1>9 DEF CheckPlaying, PlayReadsState
  <2>3. CASE CheckPlaying
    BY <1>4, <2>2, <2>3 DEF CheckPlaying
  <2>4. CASE PlayReadsState
    <3>1. /\ handlerPc = "play" /\ handler' = handler
          /\ handlerPc' = IF player.state = "PAUSED" THEN "start" ELSE "ready"
      BY <2>4 DEF PlayReadsState
    <3> QED BY <1>4, <2>1, <2>2, <3>1
  <2> QED BY <1>9, <2>3, <2>4
<1>10. CASE PlayToReady
  <2>1. /\ UNCHANGED <<sv, gsuri, gsnext, handler, loopPc>>
        /\ handlerPc = "ready" /\ handlerPc' = "load"
    BY <1>10 DEF PlayToReady
  <2> QED BY <1>4, <2>1
<1>11. CASE PlayLoads
  <2>1. /\ player'.uri = gsuri /\ player'.stream = player.stream
        /\ handlerPc = "load" /\ handlerPc' = "start" /\ handler' = handler
        /\ UNCHANGED <<sv, gsuri, gsnext, loopPc>>
    BY <1>0, <1>11, SetUriOK DEF PlayLoads
  <2>2. sv.TransportState = "PLAYING" => handler = "SetURI"
    BY <1>0, <2>1 DEF HeldState
  <2> QED BY <1>4, <2>1, <2>2
<1>12. CASE PlayStarts
  <2>1. /\ handlerPc = "start" /\ handlerPc' = "idle" /\ handler' = "none"
        /\ UNCHANGED <<gsuri, gsnext, loopPc>>
        /\ handler \in {"SetURI", "Play"}
    BY <1>0, <1>12 DEF PlayStarts
  <2>2. CASE CanRun(player)
    <3>1. player'.target = "PLAYING" /\ player'.stream # NoUri
      BY <1>0, <1>12, <2>2, ToRunningOK DEF PlayStarts
    <3> QED BY <1>4, <2>1, <3>1
  <2>3. CASE ~CanRun(player)
    <3>1. \/ handler = "Play" /\ sv.TransportState # "PLAYING"
          \/ handler = "SetURI" /\ loopPc = "load"
      BY <1>0, <1>4, <2>1, <2>3 DEF HeldState
    <3>2. sv' = sv
      BY <1>12, <2>3 DEF PlayStarts
    <3> QED BY <1>4, <2>1, <3>1, <3>2
  <2> QED BY <2>2, <2>3
<1>13. CASE Preroll \/ SwitchStream
  <2>1. /\ player'.target = player.target /\ player'.uri = player.uri
        /\ player.stream # NoUri => player'.stream # NoUri
    BY <1>0, <1>13, PrerollOK, SwitchStreamOK DEF PossiblePlayer
  <2> QED BY <1>4, <1>13, <2>1 DEF Preroll, SwitchStream
<1>14. CASE EndOfStream \/ EndOfStreamAgain
  <2>1. player'.target = player.target /\ player'.uri = player.uri
        /\ player'.stream = player.stream
    BY <1>0, <1>14, SignalsOK DEF Signals
  <2> QED BY <1>4, <1>14, <2>1 DEF EndOfStream, EndOfStreamAgain
<1>15. CASE AboutToFinish
  <2>1. player'.target = player.target /\ player'.uri = player.uri
        /\ player'.stream = player.stream
    BY <1>0, <1>15, SignalsOK DEF Signals
  <2>2. ~Crossable
    BY <1>15 DEF AboutToFinish
  <2>3. /\ handler = "SetURI" => handlerPc = "start"
        /\ loopPc \notin {"swap", "ready", "load"}
    BY <1>0, <2>2 DEF Crossable
  <2>4. UNCHANGED <<sv, handler, handlerPc, loopPc>>
    BY <1>15 DEF AboutToFinish
  <2> QED BY <1>4, <2>1, <2>3, <2>4
<1>16. CASE PassNextStream
  <2>1. /\ player'.target = player.target /\ player'.stream = player.stream
        /\ player.uri # NoUri => player'.uri # NoUri
    BY <1>0, <1>16, PassNextOK
  <2> QED BY <1>4, <1>16, <2>1 DEF PassNextStream
<1>17. ~BufferLow /\ ~BufferFull /\ ~OnBufferLow /\ ~OnBufferFull
  BY <1>0 DEF BufferLow, BufferFull, OnBufferLow, OnBufferFull, TakeMessage
<1>18. CASE StreamReports \/ LoopReports
  <2>1. sv'.TransportState \in {sv.TransportState, "STOPPED"} /\ player' = player
    BY <1>0, <1>18, AfterHandlers DEF StreamReports, LoopReports
  <2>2. UNCHANGED <<gsuri, gsnext, handler, handlerPc>> /\ loopPc' \in {loopPc, "idle"}
    BY <1>18 DEF StreamReports, LoopReports
  <2> QED
    BY <1>0, <1>4, <1>18, <2>1, <2>2 DEF StreamReports, LoopReports
<1>19. CASE OnEosNext \/ OnEosStopped
  <2>1. /\ UNCHANGED <<sv, player, gsuri, gsnext, handler, handlerPc>>
        /\ loopPc = "idle" /\ loopPc' \in {"swap", "stopped", "idle"}
        /\ loopPc' = "swap" => gsnext # NoUri
    BY <1>19 DEF OnEosNext, OnEosStopped, TakeMessage
  <2> QED BY <1>4, <2>1
<1>20. CASE LoopSwaps
  <2>1. /\ UNCHANGED <<sv, player, handler, handlerPc>>
        /\ loopPc = "swap" /\ loopPc' = "ready" /\ gsuri' = gsnext
    BY <1>20 DEF LoopSwaps
  <2> QED BY <1>4, <2>1
<1>21. CASE LoopToReady
  <2>1. /\ UNCHANGED <<sv, gsuri, gsnext, handler, handlerPc>>
        /\ loopPc = "ready" /\ loopPc' = "load" /\ player'.uri = player.uri
    BY <1>0, <1>21, ToReadyOK DEF LoopToReady
  <2> QED BY <1>4, <2>1
<1>22. CASE LoopLoads
  <2>1. /\ UNCHANGED <<sv, gsuri, gsnext, handler, handlerPc>>
        /\ loopPc = "load" /\ loopPc' = "start" /\ player'.uri = gsuri
    BY <1>0, <1>22, SetUriOK DEF LoopLoads
  <2> QED BY <1>4, <2>1
<1>23. CASE LoopStarts
  <2>1. /\ UNCHANGED <<sv, gsuri, gsnext, handler, handlerPc>>
        /\ loopPc = "start" /\ loopPc' \in {"next", "idle"} /\ player'.uri = player.uri
    BY <1>0, <1>23, ToRunningOK DEF LoopStarts
  <2>2. CASE CanRun(player)
    <3>1. player'.target = "PLAYING" /\ player'.stream # NoUri
      BY <1>0, <1>23, <2>2, ToRunningOK DEF LoopStarts
    <3> QED BY <1>4, <2>1, <3>1
  <2>3. CASE ~CanRun(player)
    <3>1. player' = player
      BY <1>0, <1>23, <2>3, ToRunningOK DEF LoopStarts
    <3>2. sv.TransportState = "PLAYING" => handlerPc = "load"
      BY <1>4, <2>1, <2>3
    <3>3. ~(handler = "SetURI" /\ handlerPc = "start")
      BY <1>4, <2>1, <2>3
    <3> QED BY <1>4, <2>1, <3>1, <3>2, <3>3
  <2> QED BY <2>2, <2>3
<1>24. CASE UNCHANGED vars
  BY <1>4, <1>24 DEF vars, outVars
<1> QED
  BY <1>2, <1>5, <1>6, <1>7, <1>8, <1>9, <1>10, <1>11, <1>12, <1>13, <1>14, <1>15, <1>16,
     <1>17, <1>18, <1>19, <1>20, <1>21, <1>22, <1>23, <1>24
     DEF Next, Requests, HandlerSteps, Pipeline, LoopSteps

(* While PLAYING the pipeline has been told to play: neither a failed      *)
(* start nor the end-of-stream handling on the main loop, which runs       *)
(* without transport_mutex, leaves the transport state behind, unless the  *)
(* streaming thread took the URI of a start in progress.                   *)
THEOREM PlayingIsRunning == Spec => []PlayingMeansRunning
<1>1. Init => NoBufferMessages /\ PlayingInv
  BY DEF Init, NoBufferMessages, TransportInit, InitialVariables, PlayingInv, UriIsThere,
         StartsWithUri, ToldToPlay
<1>2. RendererInv /\ PlayingInv => PlayingMeansRunning
  <2> SUFFICES ASSUME RendererInv, PlayingInv, MutexFree
               PROVE  PlayingMeansRunning
    BY DEF PlayingMeansRunning
  <2>1. handlerPc = "idle"
    BY Facts DEF MutexFree
  <2> QED BY <2>1 DEF PlayingInv, ToldToPlay, PlayingMeansRunning
<1> QED
  BY <1>1, <1>2, RendererInvariance, NextNoBuffer, NextPlaying, PTL DEF Spec

-----------------------------------------------------------------------------
(* PAUSED_PLAYBACK.  Where nobody queues, the main loop restarts nothing;  *)
(* a handler that sets a URI while paused finds nothing to restart either. *)

Unqueued == ~usage.queueing => gsnext = NoUri /\ loopPc \in {"idle", "stopped"}

PausedStays ==
  (/\ ~usage.buffering /\ ~usage.queueing
   /\ sv.TransportState = "PAUSED_PLAYBACK")
  => /\ player.state # "PLAYING" /\ player.target # "PLAYING"
     /\ handler = "SetURI" => At("check")

LEMMA NextUnqueued == RendererInv /\ Unqueued /\ [Next]_vars => Unqueued'
<1> SUFFICES ASSUME RendererInv, Unqueued, [Next]_vars, ~usage'.queueing
             PROVE  gsnext' = NoUri /\ loopPc' \in {"idle", "stopped"}
  BY DEF Unqueued
<1>0. ~usage.queueing /\ gsnext = NoUri /\ loopPc \in {"idle", "stopped"}
  BY UsageStays DEF Unqueued
<1>1. CASE Requests
  BY <1>0, <1>1
     DEF Requests, HandleSetURI, HandleSetNext, HandlePlay, HandlePause, HandleStop
<1>2. CASE HandlerSteps
  BY <1>0, <1>2 DEF HandlerSteps, CheckPlaying, PlayReadsState, PlayToReady, PlayLoads,
                    PlayStarts, StopFinishes
<1>3. CASE Pipeline
  BY <1>0, <1>3 DEF Pipeline, Preroll, SwitchStream, EndOfStream, EndOfStreamAgain,
                    BufferLow, BufferFull, AboutToFinish, PassNextStream, StreamReports
<1>4. CASE LoopSteps \/ LoopReports
  BY <1>0, <1>4 DEF LoopSteps, OnEosNext, LoopSwaps, LoopToReady, LoopLoads, LoopStarts,
                    OnEosStopped, OnBufferLow, OnBufferFull, LoopReports
<1>5. CASE UNCHANGED vars
  BY <1>0, <1>5 DEF vars, outVars
<1> QED BY <1>1, <1>2, <1>3, <1>4, <1>5 DEF Next

LEMMA NextPausedStays ==
  RendererInv /\ NoBufferMessages /\ Unqueued /\ PausedStays /\ [Next]_vars
  => PausedStays'
<1> SUFFICES ASSUME RendererInv, NoBufferMessages, Unqueued, PausedStays, [Next]_vars,
                    ~usage'.buffering, ~usage'.queueing,
                    sv'.TransportState = "PAUSED_PLAYBACK"
             PROVE  /\ player'.state # "PLAYING" /\ player'.target # "PLAYING"
                    /\ handler' = "SetURI" => handlerPc' = "check"
  BY DEF PausedStays, At
<1> DEFINE Silent(p) == p.state # "PLAYING" /\ p.target # "PLAYING"
           Goal == Silent(player') /\ (handler' = "SetURI" => handlerPc' = "check")
<1> USE DEF Begin, At, Goto, Finish, MutexFree
<1>0. /\ TypeOK /\ PossiblePlayer(player) /\ bus \in Seq(Messages)
      /\ gsuri \in MaybeUri
      /\ <<handler, handlerPc>> \in
           {<<"none", "idle">>, <<"SetURI", "check">>, <<"Stop", "ready">>}
           \cup {"SetURI", "Play"} \X {"play", "ready", "load", "start"}
      /\ ~usage.buffering /\ ~usage.queueing
      /\ loopPc \in {"idle", "stopped"} /\ gsnext = NoUri
      /\ ~player.filling /\ \A i \in DOMAIN bus : bus[i] = "EOS"
  BY Facts, UsageStays DEF RendererInv, NoBufferMessages, Unqueued
<1>1. sv.TransportState = "PAUSED_PLAYBACK"
      => Silent(player) /\ (handler = "SetURI" => handlerPc = "check")
  BY <1>0 DEF PausedStays
<1>2. ASSUME NEW p, HandleSetURI(p) PROVE Goal
  BY <1>0, <1>1, <1>2, AfterHandlers DEF HandleSetURI
<1>3. ASSUME NEW uri, NEW meta, HandleSetNext(uri, meta) PROVE Goal
  BY <1>0, <1>3 DEF HandleSetNext
<1>4. CASE HandlePlay \/ HandleStop
  BY <1>1, <1>4 DEF HandlePlay, HandleStop
<1>5. CASE HandlePause
  <2>1. handler' = "none"
    BY <1>5 DEF HandlePause
  <2>2. CASE CanRun(player)
    BY <1>0, <1>5, <2>1, <2>2, ToRunningOK DEF HandlePause
  <2>3. CASE ~CanRun(player)
    BY <1>5, <2>3 DEF HandlePause
  <2> QED BY <2>2, <2>3
<1>6. CASE CheckPlaying
  <2>1. sv' = sv /\ player' = player
    BY <1>6 DEF CheckPlaying
  <2> QED BY <1>1, <1>6, <2>1 DEF CheckPlaying
<1>7. CASE PlayReadsState
  BY <1>1, <1>7 DEF PlayReadsState
<1>8. CASE PlayToReady \/ StopFinishes
  <2>1. Silent(player')
    BY <1>0, <1>8, ToReadyOK DEF PlayToReady, StopFinishes
  <2>2. CASE StopFinishes
    BY <1>0, <2>2, AfterHandlers DEF StopFinishes
  <2>3. CASE PlayToReady
    BY <1>1, <2>1, <2>3 DEF PlayToReady
  <2> QED BY <1>8, <2>2, <2>3
<1>9. CASE PlayLoads
  <2>1. player'.state = player.state /\ player'.target = player.target
    BY <1>0, <1>9, SetUriOK DEF PlayLoads
  <2> QED BY <1>1, <1>9, <2>1 DEF PlayLoads
<1>10. CASE PlayStarts
  <2>1. /\ handler' = "none" /\ handlerPc = "start"
        /\ handler \in {"SetURI", "Play"}
    BY <1>0, <1>10 DEF PlayStarts
  <2>2. CASE handler = "Play" /\ CanRun(player)
    BY <1>0, <1>10, <2>2, AfterHandlers DEF PlayStarts
  <2>3. CASE ~CanRun(player)
    BY <1>0, <1>1, <1>10, <2>1, <2>3, ToRunningOK DEF PlayStarts
  <2>4. CASE handler = "SetURI"
    BY <1>1, <1>10, <2>1, <2>4 DEF PlayStarts
  <2> QED BY <2>1, <2>2, <2>3, <2>4
<1>11. CASE Preroll \/ SwitchStream
  BY <1>0, <1>1, <1>11, PrerollOK, SwitchStreamOK DEF Preroll, SwitchStream
<1>12. CASE EndOfStream \/ EndOfStreamAgain \/ AboutToFinish
  <2>1. player'.state = player.state /\ player'.target = player.target
    BY <1>0, <1>12, SignalsOK DEF Signals
  <2> QED BY <1>1, <1>12, <2>1 DEF EndOfStream, EndOfStreamAgain, AboutToFinish
<1>13. CASE PassNextStream
  BY <1>0, <1>1, <1>13, PassNextOK DEF PassNextStream
<1>14. CASE StreamReports \/ LoopReports
  BY <1>0, <1>1, <1>14, AfterHandlers DEF StreamReports, LoopReports
<1>15. ~BufferLow /\ ~BufferFull /\ ~OnBufferLow /\ ~OnBufferFull
  BY <1>0 DEF BufferLow, BufferFull, OnBufferLow, OnBufferFull, TakeMessage
<1>16. ~OnEosNext /\ ~LoopSwaps /\ ~LoopToReady /\ ~LoopLoads /\ ~LoopStarts
  BY <1>0 DEF OnEosNext, LoopSwaps, LoopToReady, LoopLoads, LoopStarts
<1>17. CASE OnEosStopped
  BY <1>1, <1>17 DEF OnEosStopped
<1>18. CASE UNCHANGED vars
  BY <1>1, <1>18 DEF vars, outVars
<1> QED
  BY <1>2, <1>3, <1>4, <1>5, <1>6, <1>7, <1>8, <1>9, <1>10, <1>11, <1>12, <1>13, <1>14,
     <1>15, <1>16, <1>17, <1>18
     DEF Next, Requests, HandlerSteps, Pipeline, LoopSteps

(* Nothing is heard while PAUSED_PLAYBACK, as long as no track is queued   *)
(* and the pipeline does not buffer.                                       *)
THEOREM PausedMeansSilent == Spec => []PausedIsSilent
<1>1. Init => NoBufferMessages /\ Unqueued /\ PausedStays
  BY DEF Init, NoBufferMessages, Unqueued, PausedStays, TransportInit, InitialVariables
<1>2. PausedStays => PausedIsSilent
  BY DEF PausedStays, PausedIsSilent, Audible, Running
<1> QED
  BY <1>1, <1>2, RendererInvariance, NextNoBuffer, NextUnqueued, NextPausedStays, PTL
     DEF Spec

-----------------------------------------------------------------------------
(* What is heard.  A simple controller sets URIs while STOPPED only, and   *)
(* neither pauses nor queues.                                              *)

SimpleUse == /\ usage.setURIIn = {"STOPPED"}
             /\ ~usage.queueing /\ ~usage.pausing /\ ~usage.buffering

NeverPausing == player.state # "PAUSED" /\ player.target # "PAUSED"

StoppedSets == handler = "SetURI" => sv.TransportState = "STOPPED"

(* The streaming thread finds a URI in gsuri_ only when one is set between *)
(* its two looks; then that handler will find the pipeline playing, and    *)
(* put it to READY.                                                        *)
SetWhileSwapped ==
  /\ streamPc # "idle" => player.state = "PLAYING"
  /\ streamPc = "report" \/ (streamPc = "swapped" /\ gsuri # NoUri)
     => handler = "SetURI" /\ handlerPc \in {"check", "play", "ready"}
  /\ player.follow => streamPc = "report"

UrisAgree ==
  sv.AVTransportURI # NoUri /\ gsuri # NoUri => gsuri = sv.AVTransportURI

StartsFresh ==
  /\ handlerPc \in {"load", "start"} => player.target = "READY"
  /\ At("start") => player.uri = gsuri

NamedIsLoaded ==
  sv.TransportState = "PLAYING" /\ sv.CurrentTrackURI # NoUri
  => player.stream = sv.CurrentTrackURI

SimpleInv ==
  SimpleUse => /\ NeverPausing /\ StoppedSets /\ SetWhileSwapped
               /\ UrisAgree /\ StartsFresh /\ NamedIsLoaded

LEMMA NextSimple ==
  RendererInv /\ NoBufferMessages /\ Unqueued /\ SimpleInv /\ [Next]_vars
  => SimpleInv'
<1> SUFFICES ASSUME RendererInv, NoBufferMessages, Unqueued, SimpleInv, [Next]_vars,
                    SimpleUse'
             PROVE  /\ NeverPausing' /\ StoppedSets' /\ SetWhileSwapped'
                    /\ UrisAgree' /\ StartsFresh' /\ NamedIsLoaded'
  BY DEF SimpleInv
<1> DEFINE Goal == /\ NeverPausing' /\ StoppedSets' /\ SetWhileSwapped'
                   /\ UrisAgree' /\ StartsFresh' /\ NamedIsLoaded'
<1> USE DEF Begin, At, Goto, Finish, MutexFree, NeverPausing, StoppedSets, SetWhileSwapped,
            UrisAgree, StartsFresh, NamedIsLoaded, StreamIdle
<1>0. /\ TypeOK /\ PossiblePlayer(player) /\ bus \in Seq(Messages)
      /\ gsuri \in MaybeUri /\ HeldState
      /\ <<handler, handlerPc>> \in
           {<<"none", "idle">>, <<"SetURI", "check">>, <<"Stop", "ready">>}
           \cup {"SetURI", "Play"} \X {"play", "ready", "load", "start"}
      /\ SimpleUse
      /\ loopPc \in {"idle", "stopped"} /\ gsnext = NoUri
      /\ ~player.filling /\ \A i \in DOMAIN bus : bus[i] = "EOS"
      /\ streamPc # "idle" => callback
  BY Facts, UsageStays
     DEF RendererInv, NoBufferMessages, Unqueued, CallbackInstalled, SimpleUse
<1>1. /\ NeverPausing /\ StoppedSets /\ SetWhileSwapped
      /\ UrisAgree /\ StartsFresh /\ NamedIsLoaded
  BY <1>0 DEF SimpleInv
<1>2. /\ player.target = "READY" => player.stream = NoUri /\ player.state = "READY"
      /\ player.stream = NoUri => player.target = "READY"
  BY <1>0 DEF PossiblePlayer
<1>3. ASSUME NEW p, HandleSetURI(p) PROVE Goal
  <2>1. sv.TransportState = "STOPPED"
    BY <1>0, <1>3 DEF HandleSetURI, SimpleUse
  <2>2. sv'.TransportState = "STOPPED" /\ sv'.AVTransportURI = gsuri'
    BY <1>0, <1>3, <2>1, AfterHandlers DEF HandleSetURI
  <2>3. /\ handler' = "SetURI" /\ handlerPc' = "check"
        /\ UNCHANGED <<player, streamPc>>
    BY <1>3 DEF HandleSetURI
  <2>4. handler = "none"
    BY <1>3 DEF HandleSetURI
  <2> QED BY <1>1, <2>2, <2>3, <2>4
<1>4. ~HandlePause /\ \A uri, meta : ~HandleSetNext(uri, meta)
  BY <1>0 DEF HandlePause, HandleSetNext, SimpleUse
<1>5. CASE HandlePlay \/ HandleStop
  BY <1>1, <1>5 DEF HandlePlay, HandleStop
<1>6. CASE CheckPlaying
  <2>1. UNCHANGED <<sv, gsuri, player, streamPc>>
    BY <1>6 DEF CheckPlaying
  <2>2. streamPc # "idle" => handler' = handler /\ handlerPc' = "play"
    BY <1>1, <1>6 DEF CheckPlaying
  <2>3. \/ handler' = "none" /\ handlerPc' = "idle"
        \/ handler' = handler /\ handlerPc' = "play"
    BY <1>6 DEF CheckPlaying
  <2> QED BY <1>1, <2>1, <2>2, <2>3
<1>7. CASE PlayReadsState
  <2>1. UNCHANGED <<sv, gsuri, player, streamPc, handler>> /\ handlerPc' = "ready"
    BY <1>1, <1>7 DEF PlayReadsState
  <2> QED BY <1>1, <2>1
<1>8. CASE PlayToReady
  <2>1. /\ UNCHANGED <<sv, gsuri, streamPc, handler>>
        /\ handlerPc' = "load" /\ handlerPc = "ready" /\ handler # "Stop"
        /\ streamPc = "idle"
        /\ player'.state = "READY" /\ player'.target = "READY"
        /\ player'.follow = FALSE
    BY <1>0, <1>8, ToReadyOK DEF PlayToReady
  <2>2. sv.TransportState # "PLAYING"
    BY <1>0, <1>1, <2>1 DEF HeldState
  <2> QED BY <1>1, <2>1, <2>2
<1>9. CASE PlayLoads
  <2>1. /\ UNCHANGED <<sv, gsuri, streamPc, handler>>
        /\ handlerPc' = "start" /\ handlerPc = "load"
        /\ player'.uri = gsuri /\ player'.target = player.target
        /\ player'.state = player.state /\ player'.stream = player.stream
        /\ player'.follow = (player.stream # NoUri /\ gsuri # NoUri)
    BY <1>0, <1>9, SetUriOK DEF PlayLoads
  <2>2. streamPc = "idle"
    BY <1>1, <1>2, <2>1
  <2> QED BY <1>1, <1>2, <2>1, <2>2
<1>10. CASE PlayStarts
  <2>1. /\ UNCHANGED <<gsuri, streamPc>>
        /\ handlerPc = "start" /\ handlerPc' = "idle" /\ handler' = "none"
    BY <1>10 DEF PlayStarts
  <2>2. player.target = "READY" /\ player.uri = gsuri /\ streamPc = "idle"
    BY <1>1, <1>2, <2>1
  <2>3. /\ player'.state # "PAUSED" /\ player'.target # "PAUSED"
        /\ player'.follow = player.follow
        /\ CanRun(player) => player'.stream = gsuri /\ gsuri # NoUri
    BY <1>0, <1>2, <1>10, <2>2, ToRunningOK, "PLAYING" # "PAUSED" DEF PlayStarts
  <2>4. CASE handler = "Play" /\ CanRun(player)
    <3>1. /\ sv'.AVTransportURI = sv.AVTransportURI
          /\ sv'.CurrentTrackURI = sv.AVTransportURI
      BY <1>0, <1>10, <2>4, AfterHandlers DEF PlayStarts
    <3> QED BY <1>1, <2>1, <2>2, <2>3, <2>4, <3>1
  <2>5. CASE ~(handler = "Play" /\ CanRun(player))
    <3>1. sv' = sv
      BY <1>10, <2>5 DEF PlayStarts
    <3>2. handler \in {"SetURI", "Play"}
      BY <1>0, <2>1
    <3>3. sv.TransportState # "PLAYING"
      BY <1>0, <1>1, <3>2 DEF HeldState
    <3> QED BY <1>1, <2>1, <2>2, <2>3, <3>1, <3>3
  <2> QED BY <2>4, <2>5
<1>11. CASE StopFinishes
  <2>1. /\ UNCHANGED <<gsuri, streamPc>> /\ streamPc = "idle"
        /\ handlerPc' = "idle" /\ handler' = "none"
        /\ player'.state = "READY" /\ player'.target = "READY"
        /\ player'.follow = FALSE
    BY <1>0, <1>11, ToReadyOK DEF StopFinishes
  <2>2. sv'.TransportState = "STOPPED" /\ sv'.AVTransportURI = sv.AVTransportURI
    BY <1>0, <1>11, AfterHandlers DEF StopFinishes
  <2> QED BY <1>1, <2>1, <2>2
<1>12. CASE Preroll
  <2>1. /\ player'.state = player.target /\ player'.target = player.target
        /\ player'.uri = player.uri /\ player'.stream = player.stream
        /\ player'.follow = player.follow
    BY <1>0, <1>12, PrerollOK
  <2>2. UNCHANGED <<sv, gsuri, streamPc, handler, handlerPc>> /\ player.state = "READY"
    BY <1>12 DEF Preroll
  <2> QED BY <1>1, <2>1, <2>2
<1>13. ~SwitchStream
  BY <1>0, <1>1, SwitchStreamOK DEF SwitchStream
<1>14. CASE EndOfStream \/ EndOfStreamAgain
  <2>1. /\ player'.state = player.state /\ player'.target = player.target
        /\ player'.uri = player.uri /\ player'.stream = player.stream
        /\ player'.follow = player.follow
    BY <1>0, <1>14, SignalsOK DEF Signals
  <2>2. UNCHANGED <<sv, gsuri, streamPc, handler, handlerPc>>
    BY <1>14 DEF EndOfStream, EndOfStreamAgain
  <2> QED BY <1>1, <2>1, <2>2
<1>15. CASE AboutToFinish
  <2>1. /\ player'.state = player.state /\ player'.target = player.target
        /\ player'.uri = player.uri /\ player'.stream = player.stream
        /\ player'.follow = player.follow /\ player.target # "READY"
    BY <1>0, <1>15, SignalsOK DEF Signals
  <2>2. /\ UNCHANGED <<sv, handler, handlerPc>>
        /\ streamPc = "idle" /\ streamPc' = "swapped" /\ gsuri' = NoUri
        /\ player.state = "PLAYING"
    BY <1>0, <1>15 DEF AboutToFinish, Running
  <2> QED BY <1>1, <2>1, <2>2
<1>16. CASE PassNextStream
  <2>1. /\ player'.state = player.state /\ player'.target = player.target
        /\ player'.stream = player.stream
        /\ gsuri = NoUri => player' = player
    BY <1>0, <1>16, PassNextOK
  <2>2. /\ UNCHANGED <<sv, gsuri, handler, handlerPc>>
        /\ streamPc = "swapped"
        /\ streamPc' = IF gsuri # NoUri THEN "report" ELSE "idle"
    BY <1>0, <1>16 DEF PassNextStream
  <2>3. handlerPc # "start"
    BY <1>1, <1>2, <2>2
  <2> QED BY <1>1, <2>1, <2>2, <2>3
<1>17. ~BufferLow /\ ~BufferFull /\ ~OnBufferLow /\ ~OnBufferFull
  <2>1. bus # <<>> => Head(bus) = "EOS"
    BY <1>0
  <2> QED
    BY <1>0, <2>1
       DEF BufferLow, BufferFull, OnBufferLow, OnBufferFull, TakeMessage, SimpleUse
<1>18. ~StreamReports
  BY <1>1 DEF StreamReports
<1>19. CASE LoopReports
  <2>1. UNCHANGED <<gsuri, player, streamPc, handler, handlerPc>> /\ handler = "none"
    BY <1>19 DEF LoopReports
  <2>2. sv'.TransportState = "STOPPED" /\ sv'.AVTransportURI = NoUri
    BY <1>0, <1>19, AfterHandlers DEF LoopReports
  <2> QED BY <1>1, <2>1, <2>2
<1>20. ~OnEosNext /\ ~LoopSwaps /\ ~LoopToReady /\ ~LoopLoads /\ ~LoopStarts
  BY <1>0 DEF OnEosNext, LoopSwaps, LoopToReady, LoopLoads, LoopStarts
<1>21. CASE OnEosStopped
  BY <1>1, <1>21 DEF OnEosStopped
<1>22. CASE UNCHANGED vars
  BY <1>1, <1>22 DEF vars, outVars
<1> QED
  BY <1>3, <1>4, <1>5, <1>6, <1>7, <1>8, <1>9, <1>10, <1>11, <1>12, <1>13, <1>14, <1>15,
     <1>16, <1>17, <1>18, <1>19, <1>20, <1>21, <1>22
     DEF Next, Requests, HandlerSteps, Pipeline, LoopSteps

(* A simple controller is shown the track that is heard, although a stream *)
(* may end, and its report be under way, while it sets the next URI.       *)
THEOREM HeardIsNamed == Spec => []NamedTrackIsHeard
<1>1. Init => NoBufferMessages /\ Unqueued /\ SimpleInv
  BY DEF Init, NoBufferMessages, Unqueued, SimpleInv, NeverPausing, StoppedSets,
         SetWhileSwapped, UrisAgree, StartsFresh, NamedIsLoaded, At, TransportInit,
         InitialVariables
<1>2. SimpleInv => NamedTrackIsHeard
  BY DEF SimpleInv, SimpleUse, NamedIsLoaded, NamedTrackIsHeard
<1> QED
  BY <1>1, <1>2, RendererInvariance, NextNoBuffer, NextUnqueued, NextSimple, PTL DEF Spec

=============================================================================
