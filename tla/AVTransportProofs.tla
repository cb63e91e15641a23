-------------------------- MODULE AVTransportProofs -------------------------
(***************************************************************************)
(* AVTransport keeps its properties for every set of streams and every     *)
(* pairing of URIs with metadata.                                          *)
(*                                                                         *)
(* Play copies the transport's URI to the current track, and the number of *)
(* tracks is not copied but counted anew from the URI: the copy agrees     *)
(* with NumberOfTracks only because that is always the count of            *)
(* AVTransportURI.  This is the conjunct that makes the invariant          *)
(* inductive.                                                              *)
(***************************************************************************)
EXTENDS AVTransport, TLAPS

TracksCounted == sv.NumberOfTracks = TracksOf(sv.AVTransportURI)

TransportInv == /\ TypeOK
                /\ TracksCounted
                /\ PlayingShowsTransportURI

-----------------------------------------------------------------------------
(* Every state has its list of actions. *)
LEMMA ActionsTyped ==
  ASSUME NEW state \in TransportStates, NEW uri
  PROVE  ActionsIn(state, uri) \in ActionLists
<1>1. CASE state = "STOPPED" /\ uri = NoUri
  BY <1>1 DEF ActionsIn, ActionLists
<1>2. CASE state = "STOPPED" /\ uri # NoUri
  BY <1>2 DEF ActionsIn, ActionLists
<1>3. CASE state = "PLAYING"
  BY <1>3 DEF ActionsIn, ActionLists
<1>4. CASE state = "PAUSED_PLAYBACK"
  BY <1>4 DEF ActionsIn, ActionLists
<1> QED BY <1>1, <1>2, <1>3, <1>4 DEF TransportStates

(* Every URI and every metadata that a controller sends is of its type. *)
LEMMA PairTypes ==
  ASSUME NEW p \in Pairs
  PROVE  p[1] \in Uris \cup {NoUri} /\ p[2] \in Metas \cup {NoMeta}
BY TransportAssumption

LEMMA InitTransportInv == TransportInit => TransportInv
BY DEF TransportInit, InitialVariables, TransportInv, TypeOK, TracksCounted, TracksOf,
       PlayingShowsTransportURI, TransportStates, ActionLists

(* Every handler and every report of the output keeps the invariant. *)
LEMMA NextTransportInv == TransportInv /\ [TransportNext]_sv => TransportInv'
<1> SUFFICES ASSUME TransportInv, [TransportNext]_sv PROVE TransportInv'
  OBVIOUS
<1> USE DEF TransportInv, TypeOK, TracksCounted, PlayingShowsTransportURI, TracksOf
<1>1. CASE SetAVTransportURI
  <2> PICK p \in Pairs : sv' = AfterSetURI(sv, p[1], p[2])
    BY <1>1 DEF SetAVTransportURI
  <2> p[1] \in Uris \cup {NoUri} /\ p[2] \in Metas \cup {NoMeta}
    BY PairTypes
  <2>1. CASE sv.TransportState = "PLAYING"
    <3> sv' = ReplaceCurrentUriAndMeta(ReplaceTransportUriAndMeta(sv, p[1], p[2]),
                                       p[1], p[2])
      BY <2>1 DEF AfterSetURI
    <3>1. sv' = [sv EXCEPT !.AVTransportURI = p[1], !.AVTransportURIMetaData = p[2],
                           !.NumberOfTracks = TracksOf(p[1]),
                           !.CurrentTrack = TracksOf(p[1]), !.CurrentTrackURI = p[1],
                           !.CurrentTrackMetaData = p[2]]
      BY DEF ReplaceTransportUriAndMeta, ReplaceCurrentUriAndMeta
    <3>2. TypeOK'
      BY <3>1
    <3>3. TracksCounted' /\ PlayingShowsTransportURI'
      BY <3>1
    <3> QED BY <3>2, <3>3
  <2>2. CASE sv.TransportState # "PLAYING"
    <3>1. sv' = [sv EXCEPT !.AVTransportURI = p[1], !.AVTransportURIMetaData = p[2],
                           !.NumberOfTracks = TracksOf(p[1])]
      BY <2>2 DEF AfterSetURI, ReplaceTransportUriAndMeta
    <3>2. TypeOK'
      BY <3>1
    <3>3. TracksCounted' /\ PlayingShowsTransportURI'
      BY <2>2, <3>1
    <3> QED BY <3>2, <3>3
  <2> QED BY <2>1, <2>2
<1>2. CASE SetNextAVTransportURI
  <2> PICK p \in Pairs : sv' = AfterSetNextURI(sv, p[1], p[2])
    BY <1>2 DEF SetNextAVTransportURI
  <2> QED BY PairTypes DEF AfterSetNextURI
<1>3. CASE SetNextAVTransportURIWithoutMeta
  <2> PICK p \in Pairs : sv' = AfterSetNextURI(sv, p[1], Absent)
    BY <1>3 DEF SetNextAVTransportURIWithoutMeta
  <2> QED BY PairTypes DEF AfterSetNextURI
<1>4. CASE Play
  BY <1>4, ActionsTyped
     DEF Play, AfterPlay, ChangeTransportState, ReplaceCurrentUriAndMeta, TransportStates
<1>5. CASE Pause
  BY <1>5, ActionsTyped DEF Pause, AfterPause, ChangeTransportState, TransportStates
<1>6. CASE Stop
  BY <1>6, ActionsTyped DEF Stop, AfterStop, ChangeTransportState, TransportStates
<1>7. CASE PlayStopped
  BY <1>7, ActionsTyped
     DEF PlayStopped, AfterPlayStopped, ChangeTransportState, ReplaceCurrentUriAndMeta,
         ReplaceTransportUriAndMeta, TransportStates
<1>8. CASE PlayStartedNextStream
  BY <1>8 DEF PlayStartedNextStream, AfterStartedNext, ReplaceCurrentUriAndMeta,
              ReplaceTransportUriAndMeta
<1>9. CASE UNCHANGED sv
  BY <1>9
<1> QED
  BY <1>1, <1>2, <1>3, <1>4, <1>5, <1>6, <1>7, <1>8, <1>9 DEF TransportNext

-----------------------------------------------------------------------------
(* The invariant holds in every state of every behaviour. *)
THEOREM TransportInvariance == TransportSpec => []TransportInv
BY InitTransportInv, NextTransportInv, PTL DEF TransportSpec

(* The state variables keep their types, also when arguments are missing. *)
THEOREM TransportTypes == TransportSpec => []TypeOK
<1>1. TransportInv => TypeOK
  BY DEF TransportInv
<1> QED BY <1>1, TransportInvariance, PTL

(* GetMediaInfo and GetPositionInfo agree while PLAYING, however many URIs *)
(* were set, queued and switched before.                                   *)
THEOREM SameTrackShown == TransportSpec => []PlayingShowsTransportURI
<1>1. TransportInv => PlayingShowsTransportURI
  BY DEF TransportInv
<1> QED BY <1>1, TransportInvariance, PTL
=============================================================================
