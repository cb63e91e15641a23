------------------------- MODULE ConnectionManager -------------------------
(***************************************************************************)
(* The ConnectionManager service (upnp_connmgr.c): the media types it      *)
(* announces, fixed at the start by connmgr_init, and its action tables.   *)
(*                                                                         *)
(* A media type, and a token of the filter, is a sequence of pieces of     *)
(* text, cut wherever two of the strings part: "audio/mpeg" is             *)
(* Audio(<<"m", "p", "eg">>), "audio/mp4" is Audio(<<"m", "p", "4">>).  So *)
(* a string begins with another one, character by character, when its      *)
(* pieces do.  The list of supported types is kept sorted and without      *)
(* duplicates: it is a set.                                                *)
(***************************************************************************)
EXTENDS SequencesExt

(* g_compare_mime_root: strncmp up to the length of the shorter string; a  *)
(* root lets through what begins with it, and what it begins with.         *)
SameRoot(a, b) == IsPrefix(a, b) \/ IsPrefix(b, a)

Audio(subtype) == <<"aud", "io/">> \o subtype

Mpeg == Audio(<<"m", "p", "eg">>)
AnyAudio == Audio(<<"*">>)

(* register_mime_type: some types bring others along. *)
RegisterMimeType(type) ==
  {type} \cup
  CASE type = Mpeg ->
         {Audio(<<"x-", "m", "peg">>), Audio(<<"x-", "scpls">>), Audio(<<"L16">>)}
    [] type = Audio(<<"x-", "a", "lac">>) -> {Audio(<<"a", "lac">>)}
    [] type = Audio(<<"x-", "a", "iff">>) -> {Audio(<<"a", "iff">>)}
    [] type = Audio(<<"x-", "m", "4a">>) ->
         {Audio(<<"m", "4a">>), Audio(<<"m", "p", "4">>)}
    [] OTHER -> {}

(* scan_mime_list: the types of all sink pads, and "audio/*" *)
ScanMimeList(sinks) == UNION {RegisterMimeType(t) : t \in sinks \cup {AnyAudio}}

(* connmgr_parse_mime_filter_string: the option is a list of tokens, each  *)
(* a media type with "+", "-" or no sign before it.                        *)
ParseFilter(tokens) ==
  LET Signed(sign) == {t[2] : t \in {u \in ToSet(tokens) : u[1] = sign}}
  IN  [roots |-> Signed(""), added |-> Signed("+"), removed |-> Signed("-")]

(* connmgr_filter_mime_type_root, then the added and the removed types; a  *)
(* filter without roots lets everything pass.                              *)
ApplyFilter(types, filter) ==
  ({t \in types : filter.roots = {} \/ \E root \in filter.roots : SameRoot(root, t)}
     \cup filter.added) \ filter.removed

(* Faulty: the variable is set to whatever is left. *)
AnnounceWhatIsLeft(supported, tokens) == ApplyFilter(supported, ParseFilter(tokens))

(* connmgr_init: with no type left the default of the variable stays. *)
SinkProtocolInfo(supported, tokens) ==
  LET types == ApplyFilter(supported, ParseFilter(tokens))
  IN  IF types = {} THEN {Mpeg} ELSE types

-----------------------------------------------------------------------------
(* arguments_..., direction out *)
ConnectionDescribed ==
  [GetProtocolInfo |->
     <<<<"Source", "SourceProtocolInfo">>, <<"Sink", "SinkProtocolInfo">>>>,
   GetCurrentConnectionIDs |-> <<<<"ConnectionIDs", "CurrentConnectionIDs">>>>,
   GetCurrentConnectionInfo |->
     <<<<"RcsID", "A_ARG_TYPE_RcsID">>, <<"AVTransportID", "A_ARG_TYPE_AVTransportID">>,
       <<"ProtocolInfo", "A_ARG_TYPE_ProtocolInfo">>,
       <<"PeerConnectionManager", "A_ARG_TYPE_ConnectionManager">>,
       <<"PeerConnectionID", "A_ARG_TYPE_ConnectionID">>,
       <<"Direction", "A_ARG_TYPE_Direction">>, <<"Status", "A_ARG_TYPE_ConnectionStatus">>>>,
   PrepareForConnection |->
     <<<<"ConnectionID", "A_ARG_TYPE_ConnectionID">>,
       <<"AVTransportID", "A_ARG_TYPE_AVTransportID">>, <<"RcsID", "A_ARG_TYPE_RcsID">>>>]

(* arguments_..., direction in *)
ConnectionInputs ==
  [GetCurrentConnectionInfo |-> {"ConnectionID"},
   PrepareForConnection |-> {"RemoteProtocolInfo", "PeerConnectionManager",
                             "PeerConnectionID", "Direction"}]

(* get_protocol_info, prepare_for_connection, get_current_conn_info *)
ConnectionAnswers ==
  [GetProtocolInfo |->
     <<<<"Source", "SourceProtocolInfo">>, <<"Sink", "SinkProtocolInfo">>>>,
   PrepareForConnection |->
     <<<<"ConnectionID", "CurrentConnectionIDs">>,
       <<"AVTransportID", "A_ARG_TYPE_AVTransportID">>, <<"RcsID", "A_ARG_TYPE_RcsID">>>>,
   GetCurrentConnectionInfo |->
     <<<<"RcsID", "A_ARG_TYPE_RcsID">>, <<"AVTransportID", "A_ARG_TYPE_AVTransportID">>,
       <<"ProtocolInfo", "A_ARG_TYPE_ProtocolInfo">>,
       <<"PeerConnectionManager", "A_ARG_TYPE_ConnectionManager">>,
       <<"PeerConnectionID", "A_ARG_TYPE_ConnectionID">>,
       <<"Direction", "A_ARG_TYPE_Direction">>, <<"Status", "A_ARG_TYPE_ConnectionStatus">>>>]

(* connmgr_var_meta; SinkProtocolInfo is what connmgr_init made of it *)
ConnectionConstants ==
  [SourceProtocolInfo |-> "", SinkProtocolInfo |-> "the announced types",
   CurrentConnectionIDs |-> "0", A_ARG_TYPE_ConnectionStatus |-> "Unknown",
   A_ARG_TYPE_ConnectionManager |-> "/", A_ARG_TYPE_Direction |-> "Input",
   A_ARG_TYPE_ProtocolInfo |-> ":::", A_ARG_TYPE_ConnectionID |-> "-1",
   A_ARG_TYPE_AVTransportID |-> "0", A_ARG_TYPE_RcsID |-> "0"]
=============================================================================
