------------------------- MODULE TransportActions -------------------------
(***************************************************************************)
(* The AVTransport service as it describes itself (the argument tables of  *)
(* upnp_transport.c, which make its SCPD) and as its handlers answer.      *)
(* Every entry is a pair: argument name, state variable.                   *)
(***************************************************************************)

(* arguments_..., direction out *)
TransportDescribed ==
  [GetMediaInfo |->
     <<<<"NrTracks", "NumberOfTracks">>, <<"MediaDuration", "CurrentMediaDuration">>,
       <<"CurrentURI", "AVTransportURI">>, <<"CurrentURIMetaData", "AVTransportURIMetaData">>,
       <<"NextURI", "NextAVTransportURI">>, <<"NextURIMetaData", "NextAVTransportURIMetaData">>,
       <<"PlayMedium", "PlaybackStorageMedium">>, <<"RecordMedium", "RecordStorageMedium">>,
       <<"WriteStatus", "RecordMediumWriteStatus">>>>,
   GetTransportInfo |->
     <<<<"CurrentTransportState", "TransportState">>,
       <<"CurrentTransportStatus", "TransportStatus">>,
       <<"CurrentSpeed", "TransportPlaySpeed">>>>,
   GetPositionInfo |->
     <<<<"Track", "CurrentTrack">>, <<"TrackDuration", "CurrentTrackDuration">>,
       <<"TrackMetaData", "CurrentTrackMetaData">>, <<"TrackURI", "CurrentTrackURI">>,
       <<"RelTime", "RelativeTimePosition">>, <<"AbsTime", "AbsoluteTimePosition">>,
       <<"RelCount", "RelativeCounterPosition">>, <<"AbsCount", "AbsoluteCounterPosition">>>>,
   GetDeviceCapabilities |->
     <<<<"PlayMedia", "PossiblePlaybackStorageMedia">>,
       <<"RecMedia", "PossibleRecordStorageMedia">>,
       <<"RecQualityModes", "PossibleRecordQualityModes">>>>,
   GetTransportSettings |->
     <<<<"PlayMode", "CurrentPlayMode">>, <<"RecQualityMode", "CurrentRecordQualityMode">>>>,
   GetCurrentTransportActions |-> <<<<"Actions", "CurrentTransportActions">>>>,
   SetAVTransportURI |-> <<>>, SetNextAVTransportURI |-> <<>>,
   Stop |-> <<>>, Play |-> <<>>, Pause |-> <<>>, Seek |-> <<>>]

(* arguments_..., direction in, beside InstanceID *)
TransportInputs ==
  [SetAVTransportURI |-> {"CurrentURI", "CurrentURIMetaData"},
   SetNextAVTransportURI |-> {"NextURI", "NextURIMetaData"},
   Play |-> {"Speed"}, Seek |-> {"Unit", "Target"}]

(* get_media_info ... get_device_caps: what upnp_append_variable is called *)
(* with, in that order.                                                    *)
TransportAnswers ==
  [GetMediaInfo |->
     <<<<"NrTracks", "NumberOfTracks">>, <<"MediaDuration", "CurrentMediaDuration">>,
       <<"CurrentURI", "AVTransportURI">>, <<"CurrentURIMetaData", "AVTransportURIMetaData">>,
       <<"NextURI", "NextAVTransportURI">>, <<"NextURIMetaData", "NextAVTransportURIMetaData">>,
       <<"PlayMedium", "PossibleRecordStorageMedia">>, <<"RecordMedium", "RecordStorageMedium">>,
       <<"WriteStatus", "RecordMediumWriteStatus">>>>,
   GetTransportInfo |->
     <<<<"CurrentTransportState", "TransportState">>,
       <<"CurrentTransportStatus", "TransportStatus">>,
       <<"CurrentSpeed", "TransportPlaySpeed">>>>,
   GetPositionInfo |->
     <<<<"Track", "CurrentTrack">>, <<"TrackDuration", "CurrentTrackDuration">>,
       <<"TrackMetaData", "CurrentTrackMetaData">>, <<"TrackURI", "CurrentTrackURI">>,
       <<"RelTime", "RelativeTimePosition">>, <<"AbsTime", "AbsoluteTimePosition">>,
       <<"RelCount", "RelativeCounterPosition">>, <<"AbsCount", "AbsoluteCounterPosition">>>>,
   GetDeviceCapabilities |-> <<>>,   \* "TODO: implement ?"
   GetTransportSettings |-> <<>>,    \* "TODO: what variables to add ?"
   GetCurrentTransportActions |-> <<<<"Actions", "CurrentTransportActions">>>>]

(* transport_var_meta: the variables that nothing in AVTransport.tla       *)
(* changes; the two times are those of TrackInfo.tla.                      *)
TransportConstants ==
  [TransportStatus |-> "OK", TransportPlaySpeed |-> "1",
   PlaybackStorageMedium |-> "UNKNOWN", RecordStorageMedium |-> "NOT_IMPLEMENTED",
   PossiblePlaybackStorageMedia |-> "NETWORK,UNKNOWN",
   PossibleRecordStorageMedia |-> "NOT_IMPLEMENTED",
   PossibleRecordQualityModes |-> "NOT_IMPLEMENTED",
   CurrentPlayMode |-> "NORMAL", CurrentRecordQualityMode |-> "NOT_IMPLEMENTED",
   RecordMediumWriteStatus |-> "NOT_IMPLEMENTED",
   CurrentMediaDuration |-> "", CurrentTrackDuration |-> "a time",
   RelativeTimePosition |-> "a time", AbsoluteTimePosition |-> "NOT_IMPLEMENTED",
   RelativeCounterPosition |-> "2147483647", AbsoluteCounterPosition |-> "2147483647",
   A_ARG_TYPE_SeekMode |-> "TRACK_NR", A_ARG_TYPE_SeekTarget |-> "",
   A_ARG_TYPE_InstanceID |-> "0"]
=============================================================================
