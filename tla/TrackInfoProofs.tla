-------------------------- MODULE TrackInfoProofs --------------------------
(***************************************************************************)
(* Proofs about what control points are told of the track: its time        *)
(* (TrackTime), for any positions, durations and targets, and its metadata *)
(* (StreamMeta), for any streams, documents, tags and length of the bus.   *)
(*                                                                         *)
(* The inductive invariant TimeInv says how the thread's cache, the number *)
(* the output remembers and the text on display hang together while the    *)
(* pipeline can always tell its time.  MetaInv follows a title from the    *)
(* stream that it describes to the document on display.                    *)
(***************************************************************************)
EXTENDS TrackInfo, TLAPS

(* AVTransport when its metadata is any document, sent or made here. *)
AV == INSTANCE AVTransportProofs WITH Metas <- Document

-----------------------------------------------------------------------------
(* Time. *)

NeverLooked == cached.position = -1

(* The cache is what the output remembers, from the first look on. *)
CacheIsKnown ==
  \/ NeverLooked /\ cached.duration = -1 /\ known.position = 0 /\ known.duration = 0
  \/ cached = known

(* A stream that has not prerolled shows no time. *)
FreshShowsZero == fresh => relTime = ZeroTime

(* A position that was looked at is in the cache. *)
SeenIsCached == seen => cached.position = clock.position

(* Once the stream has moved, a position in the cache is on display. *)
CachedIsShown ==
  moved /\ cached.position = clock.position => ParseTime(relTime) = clock.position

TimeInv ==
  /\ TimeTypeOK
  /\ fresh => pipeline.state = "READY"
  /\ ~unknown => CacheIsKnown /\ FreshShowsZero /\ SeenIsCached /\ CachedIsShown

-----------------------------------------------------------------------------
(* Texts. *)

(* print_upnp_time gives hours, minutes and seconds. *)
LEMMA PrintedText ==
  ASSUME NEW t \in Int
  PROVE  PrintTime(t) \in Texts
<1>1. CASE t < 0
  BY <1>1 DEF PrintTime, Texts
<1>2. CASE t >= 0
  <2>1. t \div 3600 \in Nat /\ (t % 3600) \div 60 \in Nat /\ t % 60 \in Nat
    BY <1>2, SMT
  <2> QED
    BY <1>2, <2>1 DEF PrintTime, Texts
<1> QED
  BY <1>1, <1>2

(* parse_upnp_time reads what print_upnp_time has written. *)
THEOREM TimeThereAndBack ==
  ASSUME NEW t \in Nat
  PROVE  ParseTime(PrintTime(t)) = t
<1> DEFINE h == t \div 3600
           r == t % 3600
           m == r \div 60
           s == r % 60
<1>1. h \in Nat /\ r \in Nat /\ t = 3600 * h + r
  BY SMT
<1>2. m \in Nat /\ s \in Nat /\ s < 60 /\ r = 60 * m + s
  <2> HIDE DEF r
  <2> QED
    BY <1>1, SMT
<1>3. t % 60 = s
  <2> HIDE DEF h, r, m, s
  <2>1. t = 60 * (60 * h + m) + s
    BY <1>1, <1>2, SMT
  <2> QED
    BY <1>1, <1>2, <2>1, SMT
<1>4. PrintTime(t) = <<h, m, s>>
  BY <1>3 DEF PrintTime
<1> HIDE DEF h, r, m, s
<1>5. ParseTime(<<h, m, s>>) = h * 3600 + m * 60 + s
  BY DEF ParseTime
<1>6. h * 3600 + m * 60 + s = t
  BY <1>1, <1>2, SMT
<1> QED
  BY <1>4, <1>5, <1>6

LEMMA ZeroPrinted == PrintTime(0) = ZeroTime /\ ZeroTime \in Texts /\ ParseTime(ZeroTime) = 0
BY SMT DEF PrintTime, ZeroTime, Texts, ParseTime

(* A pipeline that can tell its time, or does not play, answers the query. *)
LEMMA AnswersOf ==
  ASSUME TimeTypeOK, NEW a \in PositionAnswers
  PROVE  /\ a.duration \in Int /\ a.position \in Int
         /\ pipeline.state # "PLAYING" =>
              a.rc = 0 /\ a.duration = known.duration /\ a.position = known.position
         /\ pipeline.state = "PLAYING" /\ ~unknown =>
              a.rc = 0 /\ a.duration = clock.duration /\ a.position = clock.position
<1>1. CASE pipeline.state # "PLAYING"
  BY <1>1 DEF PositionAnswers, TimeTypeOK
<1>2. CASE pipeline.state = "PLAYING" /\ ~unknown
  BY <1>2 DEF PositionAnswers, TimeTypeOK
<1>3. CASE pipeline.state = "PLAYING" /\ unknown
  <2>1. /\ clock.duration \in Int /\ clock.position \in Int /\ -1 \in Int
        /\ known.duration \in Int /\ known.position \in Int
    BY DEF TimeTypeOK
  <2>2. a \in {[rc |-> 0, duration |-> clock.duration, position |-> clock.position]}
          \cup {[rc |-> -1, duration |-> d, position |-> p] :
                  d \in {known.duration, -1}, p \in {clock.position, known.position, 0}}
          \cup {[rc |-> -1, duration |-> clock.duration, position |-> p] :
                  p \in {known.position, 0}}
    BY <1>3 DEF PositionAnswers
  <2>3. a.duration \in Int /\ a.position \in Int
    BY <2>1, <2>2
  <2> QED
    BY <1>3, <2>3
<1> QED
  BY <1>1, <1>2, <1>3 DEF TimeTypeOK

-----------------------------------------------------------------------------
(* The invariant. *)

LEMMA TimeInvHoldsAtStart == TimeInit => TimeInv
<1> SUFFICES ASSUME TimeInit
             PROVE  TimeInv
  OBVIOUS
<1>1. TimeTypeOK
  <2>1. /\ [duration |-> -1, position |-> -1] \in [duration : Int, position : Int]
        /\ [duration |-> 0, position |-> 0] \in [duration : Int, position : Int]
        /\ [duration |-> 0, position |-> 0] \in [duration : Nat, position : Nat]
    BY SMT
  <2>2. unknown \in BOOLEAN
    BY TimeAssumption DEF TimeInit
  <2>3. /\ cached \in [duration : Int, position : Int]
        /\ known \in [duration : Int, position : Int]
        /\ clock \in [duration : Nat, position : Nat]
    BY <2>1, Zenon DEF TimeInit
  <2>4. pipeline \in [state : States, target : States] /\ relTime \in Texts /\ trackDuration \in Texts
    BY ZeroPrinted DEF TimeInit, States
  <2> QED
    BY <2>2, <2>3, <2>4 DEF TimeInit, TimeTypeOK
<1>2. CacheIsKnown /\ FreshShowsZero /\ SeenIsCached /\ CachedIsShown
  BY DEF TimeInit, CacheIsKnown, NeverLooked, FreshShowsZero, SeenIsCached, CachedIsShown
<1>3. ~fresh
  BY DEF TimeInit
<1> QED
  BY <1>1, <1>2, <1>3 DEF TimeInv

LEMMA TickKeeps == TimeInv /\ Tick => TimeInv'
<1> SUFFICES ASSUME TimeInv, Tick
             PROVE  TimeInv'
  OBVIOUS
<1> USE DEF TimeInv
<1>1. PICK a \in PositionAnswers :
        /\ known' = [duration |-> a.duration, position |-> a.position]
        /\ trackDuration' = IF a.rc = 0 /\ a.duration # cached.duration
                            THEN PrintTime(a.duration) ELSE trackDuration
        /\ relTime' = IF a.rc = 0 /\ a.position # cached.position
                      THEN PrintTime(a.position) ELSE relTime
        /\ cached' = IF a.rc = 0 THEN known' ELSE cached
        /\ seen' = (seen \/ pipeline.state = "PLAYING")
        /\ UNCHANGED <<transport, pipeline, clock, unknown, fresh, moved>>
  BY DEF Tick
<1>2. /\ a.duration \in Int /\ a.position \in Int
      /\ pipeline.state # "PLAYING" =>
           a.rc = 0 /\ a.duration = known.duration /\ a.position = known.position
      /\ pipeline.state = "PLAYING" /\ ~unknown =>
           a.rc = 0 /\ a.duration = clock.duration /\ a.position = clock.position
  BY AnswersOf
<1>3. TimeTypeOK'
  <2>1. known' \in [duration : Int, position : Int] /\ cached' \in [duration : Int, position : Int]
    BY <1>1, <1>2 DEF TimeTypeOK
  <2>2. relTime' \in Texts /\ trackDuration' \in Texts
    BY <1>1, <1>2, PrintedText DEF TimeTypeOK
  <2>3. seen' \in BOOLEAN
    BY <1>1 DEF TimeTypeOK
  <2> QED
    BY <1>1, <2>1, <2>2, <2>3 DEF TimeTypeOK
<1>4. ASSUME ~unknown
      PROVE  CacheIsKnown' /\ FreshShowsZero' /\ SeenIsCached' /\ CachedIsShown'
  <2>1. a.rc = 0 /\ cached' = known' /\ cached'.position = a.position
    BY <1>1, <1>2, <1>4 DEF TimeTypeOK
  <2>2. CASE pipeline.state = "PLAYING"
    <3>1. a.position = clock.position /\ a.position \in Nat
      BY <1>2, <1>4, <2>2 DEF TimeTypeOK
    <3>2. moved => ParseTime(relTime') = clock.position
      BY <1>1, <1>4, <2>1, <3>1, TimeThereAndBack DEF CachedIsShown
    <3> QED
      BY <1>1, <1>4, <2>1, <2>2, <3>1, <3>2
         DEF CacheIsKnown, FreshShowsZero, SeenIsCached, CachedIsShown
  <2>3. CASE pipeline.state # "PLAYING"
    <3>1. a.position = known.position /\ a.duration = known.duration
      BY <1>2, <2>3
    <3>2. CASE cached = known
      BY <1>1, <1>4, <2>1, <2>3, <3>1, <3>2
         DEF CacheIsKnown, FreshShowsZero, SeenIsCached, CachedIsShown
    <3>3. CASE NeverLooked /\ known.position = 0
      <4>1. relTime' = ZeroTime /\ cached'.position = 0
        BY <1>1, <2>1, <3>1, <3>3, ZeroPrinted DEF NeverLooked
      <4>2. ~seen
        BY <1>4, <3>3 DEF SeenIsCached, NeverLooked, TimeTypeOK
      <4> QED
        BY <1>1, <1>4, <2>1, <2>3, <4>1, <4>2, ZeroPrinted
           DEF CacheIsKnown, FreshShowsZero, SeenIsCached, CachedIsShown
    <3> QED
      BY <1>4, <3>2, <3>3 DEF CacheIsKnown
  <2> QED
    BY <2>2, <2>3
<1> QED
  BY <1>1, <1>3, <1>4

(* The clock stands still and so does what is known of it: Play, Pause,    *)
(* Stop, a restart and the reported end.                                   *)
LEMMA RequestKeeps ==
  ASSUME TimeInv,
         UNCHANGED <<cached, known, clock, unknown, seen, trackDuration>>,
         transport' \in {"STOPPED", "PLAYING", "PAUSED_PLAYBACK"},
         pipeline' \in [state : States, target : States],
         fresh' \in BOOLEAN, moved' \in BOOLEAN,
         fresh' => pipeline'.state = "READY",
         \/ relTime' = relTime /\ (fresh' => fresh) /\ (moved' => moved)
         \/ relTime' = ZeroTime /\ ~moved'
  PROVE  TimeInv'
<1>1. TimeTypeOK'
  <2>1. relTime' \in Texts
    BY ZeroPrinted DEF TimeInv, TimeTypeOK
  <2> QED
    BY <2>1 DEF TimeInv, TimeTypeOK
<1>2. ~unknown => CacheIsKnown' /\ FreshShowsZero' /\ SeenIsCached' /\ CachedIsShown'
  BY DEF TimeInv, CacheIsKnown, NeverLooked, FreshShowsZero, SeenIsCached, CachedIsShown
<1> QED
  BY <1>1, <1>2 DEF TimeInv

LEMMA TimeInvIsKept == TimeInv /\ [TimeNext]_timeVars => TimeInv'
<1> SUFFICES ASSUME TimeInv, [TimeNext]_timeVars
             PROVE  TimeInv'
  OBVIOUS
<1>1. /\ transport \in {"STOPPED", "PLAYING", "PAUSED_PLAYBACK"}
      /\ pipeline \in [state : States, target : States]
      /\ fresh \in BOOLEAN /\ moved \in BOOLEAN /\ seen \in BOOLEAN
      /\ fresh => pipeline.state = "READY"
  BY DEF TimeInv, TimeTypeOK
<1>2. \A x, y \in States : [state |-> x, target |-> y] \in [state : States, target : States]
  OBVIOUS
<1>3. {"READY", "PAUSED", "PLAYING"} = States
  BY DEF States
<1>4. CASE Tick
  BY <1>4, TickKeeps
<1>5. CASE PlayFromStopped
  <2>1. CASE OutputPlay /\ transport' = "PLAYING"
    BY <1>1, <1>2, <1>3, <1>5, <2>1, RequestKeeps DEF PlayFromStopped, OutputPlay
  <2>2. CASE /\ transport' = transport /\ fresh' = FALSE
             /\ pipeline' = [state |-> "READY", target |-> "READY"]
    BY <1>1, <1>2, <1>3, <1>5, <2>2, RequestKeeps DEF PlayFromStopped
  <2> QED
    BY <1>5, <2>1, <2>2 DEF PlayFromStopped
<1>6. CASE PlayFromPaused
  <2>1. fresh' => pipeline'.state = "READY"
    BY <1>1, <1>6 DEF PlayFromPaused
  <2> QED
    BY <1>1, <1>2, <1>3, <1>6, <2>1, RequestKeeps DEF PlayFromPaused
<1>7. CASE PauseStream
  <2>1. fresh' => pipeline'.state = "READY"
    BY <1>1, <1>7 DEF PauseStream
  <2> QED
    BY <1>1, <1>2, <1>3, <1>7, <2>1, RequestKeeps DEF PauseStream
<1>8. CASE StopStream
  BY <1>1, <1>2, <1>3, <1>8, RequestKeeps DEF StopStream
<1>9. ASSUME NEW target \in Targets, SeekTo(target)
      PROVE  TimeInv'
  <2>1. target \in Texts /\ ParseTime(target) \in Nat
    BY <1>9, TimeAssumption DEF SeekTo
  <2>2. clock' \in [duration : Nat, position : Nat]
    BY <1>9, <2>1 DEF SeekTo, TimeInv, TimeTypeOK
  <2>3. pipeline' \in [state : States, target : States] /\ ~fresh
    BY <1>1, <1>3, <1>9 DEF SeekTo
  <2>4. TimeTypeOK'
    BY <1>9, <2>1, <2>2, <2>3 DEF SeekTo, TimeInv, TimeTypeOK
  <2>5. ~unknown => CacheIsKnown' /\ FreshShowsZero' /\ SeenIsCached' /\ CachedIsShown'
    BY <1>9, <2>3 DEF SeekTo, TimeInv, CacheIsKnown, NeverLooked, FreshShowsZero,
                      SeenIsCached, CachedIsShown
  <2> QED
    BY <1>9, <2>3, <2>4, <2>5 DEF SeekTo, TimeInv
<1>10. CASE SetURIRestarts
  <2>1. ~fresh
    BY <1>1, <1>10 DEF SetURIRestarts
  <2> QED
    BY <1>1, <1>2, <1>3, <1>10, <2>1, RequestKeeps DEF SetURIRestarts
<1>11. CASE Preroll
  <2>1. pipeline' \in [state : States, target : States]
    BY <1>1, <1>11 DEF Preroll
  <2>2. /\ clock' \in [duration : Nat, position : Nat]
        /\ seen' \in BOOLEAN /\ moved' \in BOOLEAN
        /\ \/ ~seen' /\ ~moved'
           \/ UNCHANGED <<clock, seen, moved>>
    <3>1. CASE pipeline.state = "READY"
      <4>1. PICK d \in Durations : clock' = [duration |-> d, position |-> 0]
        BY <1>11, <3>1 DEF Preroll
      <4>2. d \in Nat
        BY TimeAssumption
      <4> QED
        BY <1>11, <3>1, <4>1, <4>2 DEF Preroll
    <3>2. CASE pipeline.state # "READY"
      BY <1>1, <1>11, <3>2 DEF Preroll, TimeInv, TimeTypeOK
    <3> QED
      BY <3>1, <3>2
  <2>3. TimeTypeOK'
    BY <1>11, <2>1, <2>2 DEF Preroll, TimeInv, TimeTypeOK
  <2>4. ~unknown => CacheIsKnown' /\ FreshShowsZero' /\ SeenIsCached' /\ CachedIsShown'
    BY <1>11, <2>2 DEF Preroll, TimeInv, CacheIsKnown, NeverLooked, FreshShowsZero,
                       SeenIsCached, CachedIsShown
  <2> QED
    BY <1>11, <2>3, <2>4 DEF Preroll, TimeInv
<1>12. CASE Advance
  <2>1. PICK p \in Positions : clock.position < p /\ clock' = [clock EXCEPT !.position = p]
    BY <1>12 DEF Advance
  <2>2. p \in Nat /\ clock \in [duration : Nat, position : Nat]
    BY TimeAssumption DEF TimeInv, TimeTypeOK
  <2>3. clock' \in [duration : Nat, position : Nat] /\ clock'.position # clock.position
    BY <2>1, <2>2
  <2>4. TimeTypeOK'
    BY <1>12, <2>3 DEF Advance, TimeInv, TimeTypeOK
  <2>5. ~unknown => CacheIsKnown' /\ FreshShowsZero' /\ SeenIsCached' /\ CachedIsShown'
    <3>1. ~unknown => cached.position = clock.position
      BY <1>12 DEF Advance, TimeInv, SeenIsCached
    <3> QED
      BY <1>12, <2>3, <3>1 DEF Advance, TimeInv, CacheIsKnown, NeverLooked,
                               FreshShowsZero, SeenIsCached, CachedIsShown
  <2> QED
    BY <1>12, <2>4, <2>5 DEF Advance, TimeInv
<1>13. CASE SwitchClock
  <2>1. PICK d \in Durations : clock' = [duration |-> d, position |-> 0]
    BY <1>13 DEF SwitchClock
  <2>2. d \in Nat
    BY TimeAssumption
  <2>3. clock' \in [duration : Nat, position : Nat]
    BY <2>1, <2>2
  <2>4. TimeTypeOK'
    BY <1>13, <2>3 DEF SwitchClock, TimeInv, TimeTypeOK
  <2>5. ~unknown => CacheIsKnown' /\ FreshShowsZero' /\ SeenIsCached' /\ CachedIsShown'
    BY <1>13 DEF SwitchClock, TimeInv, CacheIsKnown, NeverLooked, FreshShowsZero,
                 SeenIsCached, CachedIsShown
  <2> QED
    BY <1>13, <2>4, <2>5 DEF SwitchClock, TimeInv
<1>14. CASE EndReported
  BY <1>1, <1>14, RequestKeeps DEF EndReported
<1>15. CASE UNCHANGED timeVars
  BY <1>15 DEF timeVars, TimeInv, TimeTypeOK, CacheIsKnown, NeverLooked, FreshShowsZero,
               SeenIsCached, CachedIsShown
<1> QED
  BY <1>4, <1>5, <1>6, <1>7, <1>8, <1>9, <1>10, <1>11, <1>12, <1>13, <1>14, <1>15
     DEF TimeNext

-----------------------------------------------------------------------------
(* Theorems. *)

LEMMA TimeInvHolds == TimeSpec => []TimeInv
BY TimeInvHoldsAtStart, TimeInvIsKept, PTL DEF TimeSpec

(* The variables keep their types, and what is shown is a text.            *)
THEOREM TimeTypeCorrect == TimeSpec => []TimeTypeOK
<1>1. TimeInv => TimeTypeOK
  BY DEF TimeInv
<1> QED
  BY <1>1, TimeInvHolds, PTL

(* After Play the position of the previous stream is never shown (play).   *)
THEOREM OldTimeIsHidden == TimeSpec => []OldTimeStaysHidden
<1>1. TimeInv => OldTimeStaysHidden
  BY DEF TimeInv, FreshShowsZero, OldTimeStaysHidden
<1> QED
  BY <1>1, TimeInvHolds, PTL

(* thread_update_track_time writes nothing while nothing plays.            *)
THEOREM ThreadIsQuiet == TimeSpec => ThreadRests
<1>1. ASSUME TimeInv, Tick, pipeline.state # "PLAYING", ~unknown, cached.position # -1
      PROVE  relTime' = relTime
  <2>1. cached = known
    BY <1>1 DEF TimeInv, CacheIsKnown, NeverLooked
  <2>2. PICK a \in PositionAnswers :
          relTime' = IF a.rc = 0 /\ a.position # cached.position
                     THEN PrintTime(a.position) ELSE relTime
    BY <1>1 DEF Tick
  <2>3. a.position = known.position
    BY <1>1, AnswersOf DEF TimeInv
  <2> QED
    BY <2>1, <2>2, <2>3
<1>2. TimeInv => [Tick /\ pipeline.state # "PLAYING" /\ ~unknown /\ cached.position # -1
                  => relTime' = relTime]_timeVars
  BY <1>1
<1> QED
  BY <1>2, TimeInvHolds, PTL DEF ThreadRests

(* Once the stream has moved, thread_update_track_time shows its position. *)
THEOREM PositionIsShown == TimeSpec => ShownTimeFollows
<1>1. ASSUME TimeInv, Tick, pipeline.state = "PLAYING", moved, ~unknown
      PROVE  ParseTime(relTime') = clock.position
  <2>1. PICK a \in PositionAnswers :
          relTime' = IF a.rc = 0 /\ a.position # cached.position
                     THEN PrintTime(a.position) ELSE relTime
    BY <1>1 DEF Tick
  <2>2. a.rc = 0 /\ a.position = clock.position /\ clock.position \in Nat
    BY <1>1, AnswersOf DEF TimeInv, TimeTypeOK
  <2> QED
    BY <1>1, <2>1, <2>2, TimeThereAndBack DEF TimeInv, CachedIsShown
<1>2. TimeInv => [Tick /\ pipeline.state = "PLAYING" /\ moved /\ ~unknown
                  => ParseTime(relTime') = clock.position]_timeVars
  BY <1>1
<1> QED
  BY <1>2, TimeInvHolds, PTL DEF ShownTimeFollows

-----------------------------------------------------------------------------
(* Documents. *)

(* The texts of a document describe the stream uri; the composer, which    *)
(* SongMetaData_clear does not clear, is not looked at.                    *)
Own(meta, uri) ==
  \A f \in DOMAIN meta.has \ {"composer"} : meta.has[f] \in {"sent", None, uri}

OwnSong(uri) == \A f \in Fields \ {"composer"} : song[f] \in {None, uri}

LEMMA MoreDocuments ==
  ASSUME NEW S, NEW O, NEW S1, NEW O1, S \subseteq S1, O \subseteq O1
  PROVE  Documents(S, O) \subseteq Documents(S1, O1)
BY DEF Documents

LEMMA DocumentIs ==
  ASSUME NEW S, NEW O, NEW d
  PROVE  d \in Documents(S, O) <=>
           /\ d = [sort |-> d.sort, has |-> d.has]
           /\ d.sort \in S
           /\ \E elements \in SUBSET Fields : d.has \in [elements -> O]
BY DEF Documents

(* What controllers send describes any stream. *)
LEMMA SentIsOwn ==
  ASSUME NEW p \in Pairs, NEW uri
  PROVE  /\ p[1] \in Uris \cup {NoUri} /\ p[2] \in Document \cup {NoMeta}
         /\ p[2] # NoMeta => Own(p[2], uri)
<1>1. p[1] \in Uris \cup {NoUri} /\ p[2] \in SentDocument \cup {NoMeta}
  BY TransportAssumption, MetaAssumption
<1>2. SentDocument \subseteq Document
  BY MoreDocuments DEF SentDocument, Document
<1>3. ASSUME p[2] \in SentDocument
      PROVE  Own(p[2], uri)
  <2>1. PICK elements \in SUBSET Fields : p[2].has \in [elements -> {"sent", None}]
    BY <1>3, DocumentIs DEF SentDocument
  <2> QED BY <2>1 DEF Own
<1> QED BY <1>1, <1>2, <1>3

(* A document that is written over with the texts of a stream, and had its *)
(* texts from that stream or the controller, has them so again.            *)
LEMMA ToDIDLIsOwn ==
  ASSUME NEW s \in [Fields -> Uris \cup {None}],
         NEW original \in Document \cup {NoMeta}
  PROVE  /\ ToDIDL(s, original) \in Document
         /\ \A uri : (/\ original # NoMeta => Own(original, uri)
                      /\ \A f \in Fields \ {"composer"} : s[f] \in {None, uri})
                     => Own(ToDIDL(s, original), uri)
<1>1. CASE original = NoMeta
  <2>1. ToDIDL(s, original) = [sort |-> "made", has |-> s]
    BY <1>1 DEF ToDIDL
  <2>2. s \in [Fields -> {"sent", None} \cup Uris]
    OBVIOUS
  <2>3. ToDIDL(s, original) \in Document
    BY <2>1, <2>2, DocumentIs DEF Document
  <2> QED BY <2>1, <2>3 DEF Own
<1>2. CASE original # NoMeta
  <2>1. PICK elements \in SUBSET Fields :
          /\ original = [sort |-> original.sort, has |-> original.has]
          /\ original.sort \in {"audio", "other", "made"}
          /\ original.has \in [elements -> {"sent", None} \cup Uris]
    BY <1>2, DocumentIs DEF Document
  <2> DEFINE has == [f \in elements |-> IF s[f] = None THEN original.has[f] ELSE s[f]]
  <2>2. ToDIDL(s, original) = [sort |-> original.sort, has |-> has]
    BY <1>2, <2>1 DEF ToDIDL
  <2>3. has \in [elements -> {"sent", None} \cup Uris]
    BY <2>1
  <2>4. ToDIDL(s, original) \in Document
    BY <2>1, <2>2, <2>3, DocumentIs DEF Document
  <2>5. ASSUME NEW uri, Own(original, uri),
               \A f \in Fields \ {"composer"} : s[f] \in {None, uri}
        PROVE  Own(ToDIDL(s, original), uri)
    <3>1. \A f \in elements \ {"composer"} : has[f] \in {"sent", None, uri}
      BY <2>1, <2>5 DEF Own
    <3> QED BY <2>2, <3>1 DEF Own
  <2> QED BY <1>2, <2>4, <2>5
<1> QED BY <1>1, <1>2

-----------------------------------------------------------------------------
(* The invariant of the metadata. *)

MetaTypes ==
  /\ wanted \in BOOLEAN /\ hasty \in BOOLEAN
  /\ song \in [Fields -> Uris \cup {None}]
  /\ output \in [uri : Uris \cup {NoUri}, next : Uris \cup {NoUri}]
  /\ pipe \in [state : States, target : States, stream : Uris \cup {NoUri}]
  /\ messages \in Seq([of : Uris, fields : SUBSET Fields] \cup {EndMessage})
  /\ writing \in Document \cup {Nothing}

(* The pipeline plays the stream of the transport's URI, or nothing. *)
StreamIsOwn ==
  output.uri \in {NoUri, sv.AVTransportURI} /\ pipe.stream \in {NoUri, sv.AVTransportURI}

(* What waits on the bus comes from that stream; its end comes last. *)
MessagesAreOwn ==
  \A i \in DOMAIN messages :
    IF messages[i] = EndMessage
    THEN i = Len(messages) /\ output.uri = NoUri /\ pipe.stream = NoUri
    ELSE messages[i].of = sv.AVTransportURI /\ sv.AVTransportURI # NoUri

(* So do song_meta_, the document to be written, and the one on display. *)
TextsAreOwn ==
  /\ sv.AVTransportURI = NoUri \/ OwnSong(sv.AVTransportURI)
  /\ writing # Nothing => Own(writing, sv.AVTransportURI)
  /\ sv.AVTransportURIMetaData # NoMeta => Own(sv.AVTransportURIMetaData, sv.AVTransportURI)

MetaInv ==
  /\ AV!TransportInv
  /\ MetaTypes
  /\ ~hasty => StreamIsOwn /\ MessagesAreOwn /\ TextsAreOwn

-----------------------------------------------------------------------------
(* What AVTransport keeps. *)

(* Every document is one that AVTransport could have been sent. *)
LEMMA AnyDocument == AV!TransportAssumption
BY TransportAssumption, MetaAssumption, MoreDocuments
   DEF AV!TransportAssumption, SentDocument, Document

LEMMA HandlersKeep ==
  ASSUME AV!TransportInv, [AV!TransportNext]_sv
  PROVE  AV!TransportInv'
BY AnyDocument, AV!NextTransportInv

(* A document is written for the transport and for the current track, so   *)
(* the two agree afterwards as before.                                     *)
LEMMA WriteKeeps ==
  ASSUME AV!TransportInv, MetaTypes, WriteMeta
  PROVE  AV!TransportInv'
<1>1. writing \in Document
  BY DEF WriteMeta, MetaTypes
<1>2. sv' = [sv EXCEPT !.AVTransportURIMetaData = writing, !.CurrentTrackMetaData = writing]
  BY DEF WriteMeta
<1>3. AV!TypeOK'
  BY <1>1, <1>2 DEF AV!TransportInv, AV!TypeOK
<1>4. AV!TracksCounted' /\ AV!PlayingShowsTransportURI'
  BY <1>2 DEF AV!TransportInv, AV!TypeOK, AV!TracksCounted, AV!PlayingShowsTransportURI,
              AV!TracksOf
<1> QED BY <1>3, <1>4 DEF AV!TransportInv

(* All other steps are those of AVTransport, or leave its variables alone. *)
LEMMA RequestsAreHandlers ==
  ASSUME AV!TransportInv,
         \/ \E p \in Pairs : MetaSetURI(p) \/ MetaSetNextURI(p)
         \/ MetaPlay \/ MetaPause \/ MetaStop
  PROVE  [AV!TransportNext]_sv
<1>1. sv.TransportState \in {"STOPPED", "PLAYING", "PAUSED_PLAYBACK"}
  BY DEF AV!TransportInv, AV!TypeOK, AV!TransportStates
<1>2. ASSUME NEW p \in Pairs, MetaSetURI(p)
      PROVE  AV!SetAVTransportURI
  BY <1>2 DEF MetaSetURI, AfterSetURI, ReplaceTransportUriAndMeta, ReplaceCurrentUriAndMeta,
              AV!SetAVTransportURI, AV!AfterSetURI, AV!ReplaceTransportUriAndMeta,
              AV!ReplaceCurrentUriAndMeta, TracksOf, AV!TracksOf
<1>3. ASSUME NEW p \in Pairs, MetaSetNextURI(p)
      PROVE  AV!SetNextAVTransportURI
  BY <1>3 DEF MetaSetNextURI, AfterSetNextURI, AV!SetNextAVTransportURI, AV!AfterSetNextURI
<1>4. CASE MetaPlay
  BY <1>1, <1>4 DEF MetaPlay, AfterPlay, ReplaceCurrentUriAndMeta, ChangeTransportState,
              TracksOf, ActionsIn, AV!Play, AV!AfterPlay, AV!ReplaceCurrentUriAndMeta,
              AV!ChangeTransportState, AV!TracksOf, AV!ActionsIn, AV!TransportNext
<1>5. CASE MetaPause
  BY <1>5 DEF MetaPause, Pause, AfterPause, ChangeTransportState, ActionsIn,
              AV!Pause, AV!AfterPause, AV!ChangeTransportState, AV!ActionsIn, AV!TransportNext
<1>6. CASE MetaStop
  BY <1>6 DEF MetaStop, Stop, AfterStop, ChangeTransportState, ActionsIn,
              AV!Stop, AV!AfterStop, AV!ChangeTransportState, AV!ActionsIn, AV!TransportNext
<1> QED BY <1>2, <1>3, <1>4, <1>5, <1>6 DEF AV!TransportNext

LEMMA StreamIsFeedback ==
  ASSUME StreamBegins \/ PostTags \/ StartNext \/ PostEnd \/ OnEnd \/ OnTags
  PROVE  [AV!TransportNext]_sv
<1> DEFINE NextBegins == sv' = AfterStartedNext(sv)
           Over == sv' = AfterPlayStopped(sv)
<1>1. CASE NextBegins
  BY <1>1 DEF AfterStartedNext, ReplaceCurrentUriAndMeta, ReplaceTransportUriAndMeta, TracksOf,
              AV!AfterStartedNext, AV!ReplaceCurrentUriAndMeta, AV!ReplaceTransportUriAndMeta,
              AV!TracksOf, AV!PlayStartedNextStream, AV!TransportNext
<1>2. CASE Over
  BY <1>2 DEF AfterPlayStopped, ReplaceCurrentUriAndMeta, ReplaceTransportUriAndMeta, TracksOf,
              ChangeTransportState, ActionsIn,
              AV!AfterPlayStopped, AV!ReplaceCurrentUriAndMeta, AV!ReplaceTransportUriAndMeta,
              AV!TracksOf, AV!ChangeTransportState, AV!ActionsIn, AV!PlayStopped,
              AV!TransportNext
<1>3. CASE UNCHANGED sv
  BY <1>3
<1>4. NextBegins \/ Over \/ UNCHANGED sv
  BY DEF StreamBegins, PostTags, StartNext, PostEnd, OnEnd, OnTags
<1> QED BY <1>1, <1>2, <1>3, <1>4

LEMMA MetaKeepsTransport ==
  ASSUME AV!TransportInv, MetaTypes, [MetaNext]_metaVars
  PROVE  AV!TransportInv'
<1>1. CASE WriteMeta
  BY <1>1, WriteKeeps
<1>2. CASE UNCHANGED metaVars
  BY <1>2, HandlersKeep DEF metaVars
<1> QED
  BY <1>1, <1>2, RequestsAreHandlers, StreamIsFeedback, HandlersKeep DEF MetaNext

-----------------------------------------------------------------------------
(* What the stream says. *)

LEMMA MetaInvHoldsAtStart == MetaInit => MetaInv
<1> SUFFICES ASSUME MetaInit
             PROVE  MetaInv
  OBVIOUS
<1>1. AV!TransportInit
  BY DEF MetaInit, TransportInit, InitialVariables, AV!TransportInit, AV!InitialVariables
<1>2. AV!TransportInv
  BY <1>1, AnyDocument, AV!InitTransportInv
<1>3. MetaTypes
  <2>1. song \in [Fields -> Uris \cup {None}]
    BY DEF MetaInit
  <2>2. messages \in Seq([of : Uris, fields : SUBSET Fields] \cup {EndMessage})
    BY DEF MetaInit
  <2>3. pipe \in [state : States, target : States, stream : Uris \cup {NoUri}]
    BY DEF MetaInit, States
  <2> QED BY <2>1, <2>2, <2>3 DEF MetaInit, MetaTypes
<1>4. sv.AVTransportURI = NoUri /\ sv.AVTransportURIMetaData = NoMeta
  BY DEF MetaInit, TransportInit, InitialVariables
<1>5. StreamIsOwn /\ MessagesAreOwn /\ TextsAreOwn
  BY <1>4 DEF MetaInit, StreamIsOwn, MessagesAreOwn, TextsAreOwn
<1> QED BY <1>2, <1>3, <1>5 DEF MetaInv

(* The pipeline with another stream, begun or not. *)
LEMMA PipeWith ==
  ASSUME NEW state \in States, NEW target \in States, NEW stream \in Uris \cup {NoUri}
  PROVE  [state |-> state, stream |-> stream, target |-> target]
           \in [state : States, target : States, stream : Uris \cup {NoUri}]
OBVIOUS

LEMMA MetaTypesAreKept ==
  ASSUME AV!TransportInv, MetaTypes, [MetaNext]_metaVars
  PROVE  MetaTypes'
<1> DEFINE Message == [of : Uris, fields : SUBSET Fields] \cup {EndMessage}
<1> USE DEF MetaTypes
<1>0. "READY" \in States /\ "PAUSED" \in States /\ "PLAYING" \in States
  BY DEF States
<1>1. ASSUME NEW p \in Pairs, MetaSetURI(p)
      PROVE  MetaTypes'
  <2>1. p[1] \in Uris \cup {NoUri} /\ RequiresStreamMeta(p[2]) \in BOOLEAN
    BY SentIsOwn DEF RequiresStreamMeta
  <2>2. SongCleared(song) \in [Fields -> Uris \cup {None}]
    BY DEF SongCleared
  <2>3. Unsettled \in BOOLEAN
    BY DEF Unsettled
  <2>4. pipe' \in [state : States, target : States, stream : Uris \cup {NoUri}]
    <3>1. CASE pipe.state # "PLAYING"
      BY <1>1, <3>1 DEF MetaSetURI
    <3>2. CASE pipe.state = "PLAYING"
      <4>1. PICK target \in States :
              pipe' = [state |-> "READY", stream |-> p[1], target |-> target]
        BY <1>0, <1>1, <3>2 DEF MetaSetURI
      <4> QED BY <1>0, <2>1, <4>1, PipeWith
    <3> QED BY <3>1, <3>2
  <2> QED BY <1>1, <2>1, <2>2, <2>3, <2>4 DEF MetaSetURI
<1>2. ASSUME NEW p \in Pairs, MetaSetNextURI(p)
      PROVE  MetaTypes'
  BY <1>2, SentIsOwn DEF MetaSetNextURI
<1>3. CASE MetaPlay
  <2>1. pipe' \in [state : States, target : States, stream : Uris \cup {NoUri}]
    <3>1. CASE pipe.state = "PAUSED"
      BY <1>0, <1>3, <3>1 DEF MetaPlay
    <3>2. CASE pipe.state # "PAUSED"
      <4>1. PICK target \in States :
              pipe' = [state |-> "READY", stream |-> output.uri, target |-> target]
        BY <1>0, <1>3, <3>2 DEF MetaPlay
      <4> QED BY <1>0, <4>1, PipeWith
    <3> QED BY <3>1, <3>2
  <2> QED BY <1>3, <2>1 DEF MetaPlay
<1>4. CASE MetaPause
  <2>1. pipe' \in [state : States, target : States, stream : Uris \cup {NoUri}]
    BY <1>0, <1>4 DEF MetaPause
  <2> QED BY <1>4, <2>1 DEF MetaPause
<1>5. CASE MetaStop
  <2>1. pipe' \in [state : States, target : States, stream : Uris \cup {NoUri}]
    BY <1>0, <1>5 DEF MetaStop
  <2> QED BY <1>5, <2>1 DEF MetaStop
<1>6. CASE StreamBegins
  BY <1>6 DEF StreamBegins
<1>7. CASE PostTags
  <2>1. PICK t \in Tags : messages' = Append(messages, [of |-> pipe.stream, fields |-> t])
    BY <1>7 DEF PostTags
  <2>2. [of |-> pipe.stream, fields |-> t] \in Message
    BY <1>7, <2>1, MetaAssumption DEF PostTags
  <2>3. messages' \in Seq(Message)
    BY <2>1, <2>2
  <2> QED BY <1>7, <2>3 DEF PostTags
<1>8. CASE StartNext
  BY <1>8 DEF StartNext
<1>9. CASE PostEnd
  <2>1. messages' \in Seq(Message)
    BY <1>9 DEF PostEnd
  <2> QED BY <1>9, <2>1 DEF PostEnd
<1>10. CASE OnEnd
  <2>1. messages' \in Seq(Message)
    BY <1>10 DEF OnEnd, TakeNext
  <2>2. CASE output.next = NoUri
    BY <1>10, <2>1, <2>2 DEF OnEnd
  <2>3. CASE output.next # NoUri
    <3>1. /\ output' = [uri |-> output.next, next |-> NoUri]
          /\ pipe' = [state |-> "READY", target |-> "PLAYING", stream |-> output.next]
          /\ hasty' = TRUE /\ UNCHANGED <<wanted, song, writing>>
      BY <1>10, <2>3 DEF OnEnd
    <3>2. pipe' \in [state : States, target : States, stream : Uris \cup {NoUri}]
      BY <1>0, <3>1
    <3> QED BY <2>1, <3>1, <3>2
  <2> QED BY <2>2, <2>3
<1>11. CASE OnTags
  <2> DEFINE m == Head(messages)
             heard == SongWith(song, m.fields, m.of)
  <2>1. messages' \in Seq(Message) /\ m \in Message /\ m # EndMessage
    BY <1>11 DEF OnTags, TakeNext
  <2>2. m.of \in Uris /\ m.fields \in SUBSET Fields
    BY <2>1
  <2>3. heard \in [Fields -> Uris \cup {None}]
    BY <2>2 DEF SongWith
  <2>4. ToDIDL(heard, sv.AVTransportURIMetaData) \in Document
    BY <2>3, ToDIDLIsOwn DEF AV!TransportInv, AV!TypeOK
  <2>5. song' \in {song, heard}
        /\ writing' \in {writing, Nothing, ToDIDL(heard, sv.AVTransportURIMetaData)}
    BY <1>11 DEF OnTags
  <2> QED BY <1>11, <2>1, <2>3, <2>4, <2>5 DEF OnTags
<1>12. CASE WriteMeta
  BY <1>12 DEF WriteMeta
<1>13. CASE UNCHANGED metaVars
  BY <1>13 DEF metaVars
<1> QED
  BY <1>1, <1>2, <1>3, <1>4, <1>5, <1>6, <1>7, <1>8, <1>9, <1>10, <1>11, <1>12, <1>13
     DEF MetaNext

(* What the handlers make of the transport's URI and metadata. *)
LEMMA UriAfter ==
  ASSUME AV!TransportInv
  PROVE  /\ \A uri, meta : /\ AfterSetURI(sv, uri, meta).AVTransportURI = uri
                           /\ AfterSetURI(sv, uri, meta).AVTransportURIMetaData = meta
         /\ \A s \in {AfterPlay(sv), AfterPause(sv), AfterStop(sv)}
                     \cup {AfterSetNextURI(sv, p[1], p[2]) : p \in Pairs} :
              /\ s.AVTransportURI = sv.AVTransportURI
              /\ s.AVTransportURIMetaData = sv.AVTransportURIMetaData
         /\ AfterPlayStopped(sv).AVTransportURI = NoUri
         /\ AfterPlayStopped(sv).AVTransportURIMetaData = NoMeta
<1> USE DEF AV!TransportInv, AV!TypeOK, ReplaceTransportUriAndMeta, ReplaceCurrentUriAndMeta,
            ChangeTransportState
<1>1. ASSUME NEW uri, NEW meta
      PROVE  /\ AfterSetURI(sv, uri, meta).AVTransportURI = uri
             /\ AfterSetURI(sv, uri, meta).AVTransportURIMetaData = meta
  BY DEF AfterSetURI
<1>2. \A s \in {AfterPlay(sv), AfterPause(sv), AfterStop(sv)} :
        /\ s.AVTransportURI = sv.AVTransportURI
        /\ s.AVTransportURIMetaData = sv.AVTransportURIMetaData
  BY DEF AfterPlay, AfterPause, AfterStop
<1>3. ASSUME NEW p \in Pairs
      PROVE  /\ AfterSetNextURI(sv, p[1], p[2]).AVTransportURI = sv.AVTransportURI
             /\ AfterSetNextURI(sv, p[1], p[2]).AVTransportURIMetaData
                  = sv.AVTransportURIMetaData
  BY DEF AfterSetNextURI
<1>4. /\ AfterPlayStopped(sv).AVTransportURI = NoUri
      /\ AfterPlayStopped(sv).AVTransportURIMetaData = NoMeta
  BY DEF AfterPlayStopped
<1> QED BY <1>1, <1>2, <1>3, <1>4

(* Nothing that waits on the bus is the end while a stream is played. *)
LEMMA NoEndYet ==
  ASSUME MessagesAreOwn, pipe.stream # NoUri, NEW i \in DOMAIN messages
  PROVE  messages[i] # EndMessage /\ messages[i].of = sv.AVTransportURI
BY DEF MessagesAreOwn

LEMMA OwnIsKept ==
  ASSUME MetaInv, [MetaNext]_metaVars, ~hasty'
  PROVE  StreamIsOwn' /\ MessagesAreOwn' /\ TextsAreOwn'
<1> DEFINE Message == [of : Uris, fields : SUBSET Fields] \cup {EndMessage}
<1>0. messages \in Seq(Message) /\ AV!TransportInv /\ MetaTypes
  BY DEF MetaInv, MetaTypes
<1>1. ASSUME NEW p \in Pairs, MetaSetURI(p)
      PROVE  StreamIsOwn' /\ MessagesAreOwn' /\ TextsAreOwn'
  <2>1. sv'.AVTransportURI = p[1] /\ sv'.AVTransportURIMetaData = p[2]
    BY <1>0, <1>1, UriAfter DEF MetaSetURI
  <2>2. ~Unsettled
    BY <1>1 DEF MetaSetURI
  <2>3. messages' = <<>> /\ writing' = Nothing /\ output'.uri = p[1]
    BY <1>0, <1>1, <2>2 DEF MetaSetURI, Unsettled, MetaTypes
  <2>4. pipe'.stream \in {NoUri, p[1]}
    BY <1>0, <1>1, <2>2 DEF MetaSetURI, Unsettled, MetaTypes
  <2>5. OwnSong(p[1])'
    BY <1>1 DEF MetaSetURI, SongCleared, OwnSong
  <2>6. p[2] # NoMeta => Own(p[2], p[1])
    BY SentIsOwn
  <2>7. TextsAreOwn'
    BY <2>1, <2>3, <2>5, <2>6 DEF TextsAreOwn, OwnSong
  <2> QED BY <2>1, <2>3, <2>4, <2>7 DEF StreamIsOwn, MessagesAreOwn
<1> SUFFICES ASSUME StreamIsOwn, MessagesAreOwn, TextsAreOwn, ~hasty,
                    ~ \E p \in Pairs : MetaSetURI(p)
             PROVE  StreamIsOwn' /\ MessagesAreOwn' /\ TextsAreOwn'
  <2>1. CASE \E p \in Pairs : MetaSetURI(p)
    BY <1>1, <2>1
  <2>2. CASE ~ \E p \in Pairs : MetaSetURI(p)
    <3>1. ~hasty
      BY <2>2 DEF MetaNext, metaVars, MetaSetNextURI, MetaPlay, MetaPause, MetaStop,
              StreamBegins, PostTags, StartNext, PostEnd, OnEnd, OnTags, WriteMeta
    <3> QED BY <2>2, <3>1 DEF MetaInv
  <2> QED BY <2>1, <2>2
<1>2. ASSUME NEW p \in Pairs, MetaSetNextURI(p)
      PROVE  StreamIsOwn' /\ MessagesAreOwn' /\ TextsAreOwn'
  <2>1. /\ sv'.AVTransportURI = sv.AVTransportURI
        /\ sv'.AVTransportURIMetaData = sv.AVTransportURIMetaData
    BY <1>0, <1>2, UriAfter DEF MetaSetNextURI
  <2>2. output'.uri = output.uri /\ UNCHANGED <<song, pipe, messages, writing>>
    BY <1>0, <1>2 DEF MetaSetNextURI, MetaTypes
  <2> QED BY <2>1, <2>2 DEF StreamIsOwn, MessagesAreOwn, TextsAreOwn, OwnSong
<1>3. CASE MetaPlay \/ MetaPause \/ MetaStop
  <2>1. /\ sv'.AVTransportURI = sv.AVTransportURI
        /\ sv'.AVTransportURIMetaData = sv.AVTransportURIMetaData
    BY <1>0, <1>3, UriAfter DEF MetaPlay, MetaPause, Pause, MetaStop, Stop
  <2>2. UNCHANGED <<output, song, messages, writing>>
    BY <1>3 DEF MetaPlay, MetaPause, MetaStop
  <2>3. pipe'.stream \in {pipe.stream, output.uri, NoUri}
    <3>0. pipe \in [state : States, target : States, stream : Uris \cup {NoUri}]
      BY <1>0 DEF MetaTypes
    <3>1. CASE MetaPlay
      <4>1. CASE pipe.state = "PAUSED"
        <5>1. pipe' = [pipe EXCEPT !.state = "PLAYING", !.target = "PLAYING"]
          BY <3>1, <4>1 DEF MetaPlay
        <5> QED BY <3>0, <5>1
      <4>2. CASE pipe.state # "PAUSED"
        <5>1. PICK target : pipe' = [state |-> "READY", stream |-> output.uri, target |-> target]
          BY <3>1, <4>2 DEF MetaPlay
        <5> QED BY <5>1
      <4> QED BY <4>1, <4>2
    <3>2. CASE MetaPause
      BY <3>0, <3>2 DEF MetaPause
    <3>3. CASE MetaStop
      BY <3>3 DEF MetaStop
    <3> QED BY <1>3, <3>1, <3>2, <3>3
  <2> QED BY <2>1, <2>2, <2>3 DEF StreamIsOwn, MessagesAreOwn, TextsAreOwn, OwnSong
<1>4. CASE StreamBegins
  <2>1. pipe'.stream = pipe.stream /\ UNCHANGED <<sv, output, song, messages, writing>>
    BY <1>0, <1>4 DEF StreamBegins, MetaTypes
  <2> QED BY <2>1 DEF StreamIsOwn, MessagesAreOwn, TextsAreOwn, OwnSong
<1>5. CASE PostTags
  <2>1. PICK t \in Tags : messages' = Append(messages, [of |-> pipe.stream, fields |-> t])
    BY <1>5 DEF PostTags
  <2>2. pipe.stream # NoUri /\ UNCHANGED <<sv, output, pipe, song, writing>>
    BY <1>5 DEF PostTags
  <2>3. pipe.stream = sv.AVTransportURI
    BY <2>2 DEF StreamIsOwn
  <2>4. ASSUME NEW i \in DOMAIN messages'
        PROVE  messages'[i] # EndMessage /\ messages'[i].of = sv.AVTransportURI
    <3>1. CASE i \in DOMAIN messages
      <4>1. messages'[i] = messages[i]
        BY <1>0, <2>1, <3>1
      <4> QED BY <2>2, <3>1, <4>1, NoEndYet
    <3>2. CASE i \notin DOMAIN messages
      <4>1. messages'[i] = [of |-> pipe.stream, fields |-> t]
        BY <1>0, <2>1, <2>4, <3>2
      <4> QED BY <2>2, <2>3, <4>1 DEF EndMessage
    <3> QED BY <3>1, <3>2
  <2>5. MessagesAreOwn'
    BY <2>2, <2>3, <2>4 DEF MessagesAreOwn
  <2> QED BY <2>2, <2>5 DEF StreamIsOwn, TextsAreOwn, OwnSong
<1>6. CASE PostEnd
  <2>1. /\ pipe.stream # NoUri /\ messages' = Append(messages, EndMessage)
        /\ UNCHANGED <<sv, song, writing>>
    BY <1>6 DEF PostEnd
  <2>2. output'.uri = NoUri /\ pipe'.stream = NoUri
    BY <1>0, <1>6 DEF PostEnd, MetaTypes
  <2>3. pipe.stream = sv.AVTransportURI
    BY <2>1 DEF StreamIsOwn
  <2>4. ASSUME NEW i \in DOMAIN messages'
        PROVE  IF messages'[i] = EndMessage THEN i = Len(messages')
               ELSE messages'[i].of = sv.AVTransportURI
    <3>1. CASE i \in DOMAIN messages
      <4>1. messages'[i] = messages[i]
        BY <1>0, <2>1, <3>1
      <4> QED BY <2>1, <3>1, <4>1, NoEndYet
    <3>2. CASE i \notin DOMAIN messages
      BY <1>0, <2>1, <2>4, <3>2
    <3> QED BY <3>1, <3>2
  <2>5. MessagesAreOwn'
    BY <2>1, <2>2, <2>3, <2>4 DEF MessagesAreOwn
  <2> QED BY <2>1, <2>2, <2>5 DEF StreamIsOwn, TextsAreOwn, OwnSong
<1>7. CASE OnEnd
  <2>1. /\ messages # <<>> /\ messages' = Tail(messages) /\ Head(messages) = EndMessage
        /\ writing = Nothing /\ UNCHANGED <<song, writing>>
    BY <1>7 DEF OnEnd, TakeNext
  <2>2. UNCHANGED <<output, pipe>> /\ sv' = AfterPlayStopped(sv)
    BY <1>7 DEF OnEnd
  <2>3. 1 \in DOMAIN messages /\ messages[1] = EndMessage
    BY <1>0, <2>1
  <2>4. Len(messages) = 1 /\ output.uri = NoUri /\ pipe.stream = NoUri
    BY <2>3 DEF MessagesAreOwn
  <2>5. messages' = <<>>
    BY <1>0, <2>1, <2>4
  <2>6. sv'.AVTransportURI = NoUri /\ sv'.AVTransportURIMetaData = NoMeta
    BY <1>0, <2>2, UriAfter
  <2> QED BY <2>1, <2>2, <2>4, <2>5, <2>6 DEF StreamIsOwn, MessagesAreOwn, TextsAreOwn
<1>8. CASE OnTags
  <2> DEFINE m == Head(messages)
             heard == SongWith(song, m.fields, m.of)
             made == ToDIDL(heard, sv.AVTransportURIMetaData)
  <2>1. /\ messages # <<>> /\ messages' = Tail(messages) /\ m # EndMessage
        /\ writing = Nothing /\ UNCHANGED <<sv, output, pipe>>
        /\ song' \in {song, heard} /\ writing' \in {Nothing, made}
    BY <1>8 DEF OnTags, TakeNext
  <2>2. 1 \in DOMAIN messages /\ m = messages[1] /\ m \in Message
    BY <1>0, <2>1
  <2>3. m.of = sv.AVTransportURI /\ sv.AVTransportURI # NoUri /\ m.of \in Uris
    BY <2>1, <2>2 DEF MessagesAreOwn
  <2>4. OwnSong(sv.AVTransportURI) /\ song \in [Fields -> Uris \cup {None}]
    BY <1>0, <2>3 DEF TextsAreOwn, MetaTypes
  <2>5. /\ heard \in [Fields -> Uris \cup {None}]
        /\ \A f \in Fields \ {"composer"} : heard[f] \in {None, sv.AVTransportURI}
    BY <2>3, <2>4 DEF SongWith, OwnSong
  <2>6. Own(made, sv.AVTransportURI)
    <3>1. /\ sv.AVTransportURIMetaData \in Document \cup {NoMeta}
          /\ sv.AVTransportURIMetaData # NoMeta
               => Own(sv.AVTransportURIMetaData, sv.AVTransportURI)
      BY <1>0 DEF AV!TransportInv, AV!TypeOK, TextsAreOwn
    <3> HIDE DEF heard
    <3> QED BY <2>5, <3>1, ToDIDLIsOwn
  <2>7. OwnSong(sv.AVTransportURI)'
    BY <2>1, <2>4, <2>5 DEF OwnSong
  <2>8. TextsAreOwn'
    <3> HIDE DEF made
    <3> QED BY <2>1, <2>6, <2>7 DEF TextsAreOwn, OwnSong
  <2>9. /\ Len(messages') = Len(messages) - 1
        /\ \A i \in DOMAIN messages' : i + 1 \in DOMAIN messages /\ messages'[i] = messages[i + 1]
    BY <1>0, <2>1
  <2>10. MessagesAreOwn'
    BY <1>0, <2>1, <2>9 DEF MessagesAreOwn
  <2> QED BY <2>1, <2>8, <2>10 DEF StreamIsOwn
<1>9. CASE WriteMeta
  <2>1. /\ writing # Nothing /\ writing' = Nothing
        /\ UNCHANGED <<output, pipe, song, messages>>
        /\ sv' = [sv EXCEPT !.AVTransportURIMetaData = writing,
                            !.CurrentTrackMetaData = writing]
    BY <1>9 DEF WriteMeta
  <2>2. sv'.AVTransportURI = sv.AVTransportURI /\ sv'.AVTransportURIMetaData = writing
    BY <1>0, <2>1 DEF AV!TransportInv, AV!TypeOK
  <2> QED BY <2>1, <2>2 DEF StreamIsOwn, MessagesAreOwn, TextsAreOwn, OwnSong
<1>10. ~StartNext
  BY DEF StartNext
<1>11. CASE UNCHANGED metaVars
  BY <1>11 DEF metaVars, StreamIsOwn, MessagesAreOwn, TextsAreOwn, OwnSong
<1> QED
  BY <1>2, <1>3, <1>4, <1>5, <1>6, <1>7, <1>8, <1>9, <1>10, <1>11 DEF MetaNext

-----------------------------------------------------------------------------
(* Theorems. *)

LEMMA MetaInvIsKept == MetaInv /\ [MetaNext]_metaVars => MetaInv'
BY MetaKeepsTransport, MetaTypesAreKept, OwnIsKept DEF MetaInv

LEMMA MetaInvHolds == MetaSpec => []MetaInv
BY MetaInvHoldsAtStart, MetaInvIsKept, PTL DEF MetaSpec

LEMMA MetaInvSuffices == MetaInv => StreamFieldsAreOwn /\ PlayingShowsTransportURI
BY DEF MetaInv, TextsAreOwn, Own, StreamFieldsAreOwn, PlayingShowsTransportURI,
       AV!TransportInv, AV!PlayingShowsTransportURI

(* A SetAVTransportURI that comes at rest (no tags on the bus, no document *)
(* waiting in update_meta_from_stream, the old stream not merely paused)   *)
(* leaves nothing of the last track: until the next URI that does not, or  *)
(* a queued track, the texts on display are the controller's or come from  *)
(* the stream of this URI, whatever Play, Pause, Stop and tags follow.     *)
(* The composer is left out.  Of a URI set while tags are on their way, or *)
(* of a queued track, nothing is said: there the code shows texts of       *)
(* another track.                                                          *)
THEOREM TextsAreOfTheStream == MetaSpec => []StreamFieldsAreOwn
BY MetaInvHolds, MetaInvSuffices, PTL

(* Also with metadata from the stream, GetMediaInfo and GetPositionInfo    *)
(* show the same track while PLAYING (update_meta_from_stream).            *)
THEOREM SameTrackWithItsTexts == MetaSpec => []PlayingShowsTransportURI
BY MetaInvHolds, MetaInvSuffices, PTL

(* What is proved of the time and of the metadata holds of both together:  *)
(* upnp_transport.c keeps them in different variables.                     *)
THEOREM InfoIsTimeAndMetadata == InfoSpec => TimeSpec /\ MetaSpec
<1>1. InfoInit => TimeInit /\ MetaInit
  BY DEF InfoInit
<1>2. [InfoNext]_infoVars => [TimeNext]_timeVars /\ [MetaNext]_metaVars
  BY DEF InfoNext, infoVars
<1> QED BY <1>1, <1>2, PTL DEF InfoSpec, TimeSpec, MetaSpec
=============================================================================
