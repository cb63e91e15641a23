----------------------------- MODULE TrackTime -----------------------------
(***************************************************************************)
(* RelativeTimePosition and CurrentTrackDuration (upnp_transport.c): the   *)
(* track time thread asks the output twice a second and writes what has    *)
(* changed since it wrote last; Play and Seek write the position, too.     *)
(* All of them hold transport_mutex, so each is one step.                  *)
(*                                                                         *)
(* The output and the pipeline are kept as far as their clock goes, in     *)
(* seconds: below a second nothing is shown.                               *)
(***************************************************************************)
EXTENDS Integers

CONSTANTS Positions,    \* seconds into a stream
          Durations,    \* of streams
          Targets,      \* texts that controllers send with Seek
          QueriesFail   \* the answers to: may the pipeline not know the time?

Texts == Nat \X Nat \X Nat   \* hours, minutes, seconds

ASSUME TimeAssumption ==
  /\ Positions \subseteq Nat /\ 0 \in Positions
  /\ Durations \subseteq Nat
  /\ Targets \subseteq Texts
  /\ QueriesFail \subseteq BOOLEAN

VARIABLES
  transport,      \* transport_state_
  relTime,        \* RelativeTimePosition
  trackDuration,  \* CurrentTrackDuration
  cached,         \* the thread's last_duration and last_position
  known,          \* last_known_time_ of the output
  pipeline,       \* what get_state answers, and the state asked for
  clock,          \* of the stream: its duration and position
  unknown,        \* the pipeline may not know the time; never changes
  fresh,          \* history: Play has begun a stream that has not prerolled
  seen,           \* the thread has asked the pipeline for this position
  moved           \* history: it has advanced since the last Play, Seek or stream

timeVars == <<transport, relTime, trackDuration, cached, known, pipeline, clock,
              unknown, fresh, seen, moved>>

-----------------------------------------------------------------------------
(* Faulty: a time that is not known is printed like any other, rounded     *)
(* down.                                                                   *)
PrintUnknown(t) == <<t \div 3600, (t % 3600) \div 60, t % 60>>

(* print_upnp_time; -1 nanoseconds are no second. *)
PrintTime(t) ==
  IF t < 0 THEN <<0, 0, 0>> ELSE <<t \div 3600, (t % 3600) \div 60, t % 60>>

(* parse_upnp_time: minutes and seconds may be above 59. *)
ParseTime(text) == text[1] * 3600 + text[2] * 60 + text[3]

ZeroTime == <<0, 0, 0>>

-----------------------------------------------------------------------------
(* output_gstreamer_get_position: a pipeline that does not play is not     *)
(* asked.  A query that fails leaves the number, or makes it -1 nanosecond,*)
(* which for a position is no different from 0.                            *)
PositionAnswers ==
  IF pipeline.state # "PLAYING"
  THEN {[rc |-> 0, duration |-> known.duration, position |-> known.position]}
  ELSE {[rc |-> 0, duration |-> clock.duration, position |-> clock.position]} \cup
       (IF ~unknown THEN {}
        ELSE {[rc |-> -1, duration |-> d, position |-> p] :
                d \in {known.duration, -1}, p \in {clock.position, known.position, 0}} \cup
             {[rc |-> -1, duration |-> clock.duration, position |-> p] :
                p \in {known.position, 0}})

(* Faulty: the thread writes whatever it reads. *)
TickUncached ==
  \E a \in PositionAnswers :
    /\ known' = [duration |-> a.duration, position |-> a.position]
    /\ trackDuration' = IF a.rc = 0 THEN PrintTime(a.duration) ELSE trackDuration
    /\ relTime' = IF a.rc = 0 THEN PrintTime(a.position) ELSE relTime
    /\ cached' = IF a.rc = 0 THEN known' ELSE cached
    /\ seen' = (seen \/ pipeline.state = "PLAYING")
    /\ UNCHANGED <<transport, pipeline, clock, unknown, fresh, moved>>

(* Faulty: the position is only looked at when the duration has changed. *)
TickByDuration ==
  \E a \in PositionAnswers :
    /\ known' = [duration |-> a.duration, position |-> a.position]
    /\ LET wrote == a.rc = 0 /\ a.duration # cached.duration
       IN  /\ trackDuration' = IF wrote THEN PrintTime(a.duration) ELSE trackDuration
           /\ relTime' = IF wrote THEN PrintTime(a.position) ELSE relTime
           /\ cached' = IF wrote THEN known' ELSE cached
    /\ seen' = (seen \/ pipeline.state = "PLAYING")
    /\ UNCHANGED <<transport, pipeline, clock, unknown, fresh, moved>>

(* One round of thread_update_track_time *)
Tick ==
  \E a \in PositionAnswers :
    /\ known' = [duration |-> a.duration, position |-> a.position]
    /\ trackDuration' = IF a.rc = 0 /\ a.duration # cached.duration
                        THEN PrintTime(a.duration) ELSE trackDuration
    /\ relTime' = IF a.rc = 0 /\ a.position # cached.position
                  THEN PrintTime(a.position) ELSE relTime
    /\ cached' = IF a.rc = 0 THEN known' ELSE cached
    /\ seen' = (seen \/ pipeline.state = "PLAYING")
    /\ UNCHANGED <<transport, pipeline, clock, unknown, fresh, moved>>

-----------------------------------------------------------------------------
(* Requests. *)

(* output_gstreamer_play: only a paused pipeline goes on with its stream. *)
OutputPlay ==
  /\ pipeline' = IF pipeline.state = "PAUSED"
                 THEN [state |-> "PLAYING", target |-> "PLAYING"]
                 ELSE [state |-> "READY", target |-> "PLAYING"]
  /\ fresh' = (pipeline.state # "PAUSED")

(* Faulty: the old position is left on display. *)
PlayKeepsTime ==
  /\ transport = "STOPPED"
  /\ transport' = "PLAYING"
  /\ OutputPlay
  /\ moved' = FALSE
  /\ UNCHANGED <<relTime, trackDuration, cached, known, clock, unknown, seen>>

(* play, from STOPPED: the position is reset first, whether the output     *)
(* then plays or not.                                                      *)
PlayFromStopped ==
  /\ transport = "STOPPED"
  /\ relTime' = ZeroTime
  /\ \/ transport' = "PLAYING" /\ OutputPlay
     \/ /\ transport' = transport
        /\ pipeline' = [state |-> "READY", target |-> "READY"]
        /\ fresh' = FALSE
  /\ moved' = FALSE
  /\ UNCHANGED <<trackDuration, cached, known, clock, unknown, seen>>

(* play, from PAUSED_PLAYBACK *)
PlayFromPaused ==
  /\ transport = "PAUSED_PLAYBACK"
  /\ transport' = "PLAYING"
  /\ pipeline' = IF pipeline.state = "PAUSED"
                 THEN [state |-> "PLAYING", target |-> "PLAYING"]
                 ELSE [state |-> "READY", target |-> "PLAYING"]
  /\ moved' = FALSE
  /\ UNCHANGED <<relTime, trackDuration, cached, known, clock, unknown, fresh, seen>>

(* pause_stream *)
PauseStream ==
  /\ transport = "PLAYING"
  /\ transport' = "PAUSED_PLAYBACK"
  /\ pipeline' = IF pipeline.state = "READY"
                 THEN [state |-> "READY", target |-> "PAUSED"]
                 ELSE [state |-> "PAUSED", target |-> "PAUSED"]
  /\ UNCHANGED <<relTime, trackDuration, cached, known, clock, unknown, fresh,
                 seen, moved>>

(* stop *)
StopStream ==
  /\ transport # "STOPPED"
  /\ transport' = "STOPPED"
  /\ pipeline' = [state |-> "READY", target |-> "READY"]
  /\ fresh' = FALSE
  /\ UNCHANGED <<relTime, trackDuration, cached, known, clock, unknown, seen, moved>>

(* seek, when the output can: the pipeline flushes, is paused and goes on  *)
(* from the target.  (When it cannot nothing changes.)                     *)
SeekTo(target) ==
  /\ pipeline.state \in {"PAUSED", "PLAYING"}
  /\ ParseTime(target) \in Positions /\ ParseTime(target) <= clock.duration
  /\ relTime' = target
  /\ clock' = [clock EXCEPT !.position = ParseTime(target)]
  /\ pipeline' = [pipeline EXCEPT !.state = "PAUSED"]
  /\ seen' = FALSE /\ moved' = FALSE
  /\ UNCHANGED <<transport, trackDuration, cached, known, unknown, fresh>>

(* output_gstreamer_set_uri while the pipeline plays: it is restarted and  *)
(* nothing is reset.                                                       *)
SetURIRestarts ==
  /\ pipeline.state = "PLAYING"
  /\ pipeline' = [state |-> "READY", target |-> "PLAYING"]
  /\ moved' = FALSE
  /\ UNCHANGED <<transport, relTime, trackDuration, cached, known, clock, unknown,
                 fresh, seen>>

-----------------------------------------------------------------------------
(* The pipeline, and what it reports. *)

Preroll ==
  /\ pipeline.state # pipeline.target
  /\ pipeline' = [pipeline EXCEPT !.state = pipeline.target]
  /\ IF pipeline.state = "READY"
     THEN /\ \E d \in Durations : clock' = [duration |-> d, position |-> 0]
          /\ seen' = FALSE /\ moved' = FALSE
     ELSE UNCHANGED <<clock, seen, moved>>
  /\ fresh' = FALSE
  /\ UNCHANGED <<transport, relTime, trackDuration, cached, known, unknown>>

(* A second has passed, in which the thread has looked at the position. *)
Advance ==
  /\ pipeline = [state |-> "PLAYING", target |-> "PLAYING"] /\ seen
  /\ \E p \in Positions :
       /\ clock.position < p /\ p <= clock.duration
       /\ clock' = [clock EXCEPT !.position = p]
  /\ seen' = FALSE /\ moved' = TRUE
  /\ UNCHANGED <<transport, relTime, trackDuration, cached, known, pipeline,
                 unknown, fresh>>

(* The next stream follows without a gap. *)
SwitchClock ==
  /\ pipeline = [state |-> "PLAYING", target |-> "PLAYING"]
  /\ \E d \in Durations : clock' = [duration |-> d, position |-> 0]
  /\ seen' = FALSE /\ moved' = FALSE
  /\ UNCHANGED <<transport, relTime, trackDuration, cached, known, pipeline,
                 unknown, fresh>>

(* inform_play_transition_from_output(PLAY_STOPPED); the pipeline is left  *)
(* as it is.                                                               *)
EndReported ==
  /\ transport # "STOPPED"
  /\ transport' = "STOPPED"
  /\ UNCHANGED <<relTime, trackDuration, cached, known, pipeline, clock, unknown,
                 fresh, seen, moved>>

-----------------------------------------------------------------------------
TimeInit ==
  /\ transport = "STOPPED"
  /\ relTime = ZeroTime /\ trackDuration = ZeroTime
  /\ cached = [duration |-> -1, position |-> -1]
  /\ known = [duration |-> 0, position |-> 0]
  /\ pipeline = [state |-> "READY", target |-> "READY"]
  /\ clock = [duration |-> 0, position |-> 0]
  /\ unknown \in QueriesFail
  /\ fresh = FALSE /\ seen = FALSE /\ moved = FALSE

TimeNext ==
  \/ Tick
  \/ PlayFromStopped \/ PlayFromPaused \/ PauseStream \/ StopStream
  \/ \E target \in Targets : SeekTo(target)
  \/ SetURIRestarts
  \/ Preroll \/ Advance \/ SwitchClock \/ EndReported

TimeSpec == TimeInit /\ [][TimeNext]_timeVars

-----------------------------------------------------------------------------
(* Properties. *)

States == {"READY", "PAUSED", "PLAYING"}

(* Every variable has values of its kind; what is shown is a text. *)
TimeTypeOK ==
  /\ transport \in {"STOPPED", "PLAYING", "PAUSED_PLAYBACK"}
  /\ relTime \in Texts /\ trackDuration \in Texts
  /\ cached \in [duration : Int, position : Int]
  /\ known \in [duration : Int, position : Int]
  /\ pipeline \in [state : States, target : States]
  /\ clock \in [duration : Nat, position : Nat]
  /\ unknown \in BOOLEAN
  /\ fresh \in BOOLEAN /\ seen \in BOOLEAN /\ moved \in BOOLEAN

(* upnp_transport.c, play: "just set the time to zero now; otherwise we    *)
(* will see the old value of the previous song".  From Play until the new  *)
(* stream is there nothing but zero is shown, although the thread goes on  *)
(* reading the position of the old stream from the output.  (A pipeline    *)
(* that could not tell its time makes the thread miss a change, which it   *)
(* then writes in this moment.)                                            *)
OldTimeStaysHidden == fresh /\ ~unknown => relTime = ZeroTime

(* While nothing plays the thread leaves the display alone: the target of  *)
(* a Seek during a pause stays, and so does the zero of a failed Play.     *)
(* Only the thread's first look of all may undo a Seek.                    *)
ThreadRests ==
  [][Tick /\ pipeline.state # "PLAYING" /\ ~unknown /\ cached.position # -1
     => relTime' = relTime]_timeVars

(* As soon as a stream has advanced by a second since the last request or  *)
(* change of stream, the thread shows where it is, although it writes only *)
(* changes and Play and Seek write beside it.  Before that a Seek may be   *)
(* left on display when the stream is changed within half a second.        *)
ShownTimeFollows ==
  [][Tick /\ pipeline.state = "PLAYING" /\ moved /\ ~unknown
     => ParseTime(relTime') = clock.position]_timeVars
=============================================================================
