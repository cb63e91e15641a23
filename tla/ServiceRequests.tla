-------------------------- MODULE ServiceRequests --------------------------
(***************************************************************************)
(* One action request of a control point from its arrival to its answer,   *)
(* through the dispatch of upnp_device.c and the handlers of the three     *)
(* services, while other requests and the feedback of the output go on.    *)
(*                                                                         *)
(* A handler that changes something does so under the service mutex, in    *)
(* one step.  A handler that answers takes the mutex once per variable     *)
(* (upnp_append_variable), so its answer is put together over many steps.  *)
(*                                                                         *)
(* The services share nothing: one of them is asked in a behaviour, the    *)
(* others rest.                                                            *)
(***************************************************************************)
EXTENDS AVTransport, RenderingControl, ActionRequest, TransportActions,
        ControlActions, ConnectionManager

VARIABLES
  asked,   \* the service that is asked; never changes
  req,     \* the request that is followed
  calm     \* history: nothing has changed since it arrived

requestVars == <<sv, controlVars, asked, req, calm>>

Services == {"AVTransport", "RenderingControl", "ConnectionManager"}

Idle == [pc |-> "idle", action |-> "none", ev |-> NewEvent({}), todo |-> <<>>, failed |-> FALSE]

-----------------------------------------------------------------------------
(* The tables of the service that is asked. *)

Described == CASE asked = "AVTransport" -> TransportDescribed
               [] asked = "RenderingControl" -> ControlDescribed
               [] asked = "ConnectionManager" -> ConnectionDescribed

Answers == CASE asked = "AVTransport" -> TransportAnswers
             [] asked = "RenderingControl" -> ControlAnswers
             [] asked = "ConnectionManager" -> ConnectionAnswers

Inputs(action) ==
  CASE asked = "AVTransport" -> {"InstanceID"} \cup
         (IF action \in DOMAIN TransportInputs THEN TransportInputs[action] ELSE {})
    [] asked = "RenderingControl" -> {"InstanceID"} \cup
         (IF action \in DOMAIN ControlInputs THEN ControlInputs[action] ELSE {})
    [] asked = "ConnectionManager" ->
         (IF action \in DOMAIN ConnectionInputs THEN ConnectionInputs[action] ELSE {})

(* The arguments that a handler looks for before it does anything:         *)
(* has_instance_id, cmd_obtain_variable and the checks for NULL.           *)
Checked(action) ==
  CASE asked = "AVTransport" -> {"InstanceID"} \cup
         (IF action = "SetAVTransportURI" THEN {"CurrentURI"}
          ELSE IF action = "SetNextAVTransportURI" THEN {"NextURI"} ELSE {})
    [] asked = "RenderingControl" ->
         IF action \in DOMAIN ControlAnswers THEN {"InstanceID"} ELSE {}
    [] asked = "ConnectionManager" ->
         IF action = "GetCurrentConnectionInfo" THEN {"ConnectionID"} ELSE {}

(* The variables of the service, and their values. *)
Variables == CASE asked = "AVTransport" -> DOMAIN sv \cup DOMAIN TransportConstants
               [] asked = "RenderingControl" -> DOMAIN cv \cup DOMAIN ControlConstants
               [] asked = "ConnectionManager" -> DOMAIN ConnectionConstants

ValueOf(v) ==
  CASE asked = "AVTransport" -> IF v \in DOMAIN sv THEN sv[v] ELSE TransportConstants[v]
    [] asked = "RenderingControl" -> IF v \in DOMAIN cv THEN cv[v] ELSE ControlConstants[v]
    [] asked = "ConnectionManager" -> ConnectionConstants[v]

-----------------------------------------------------------------------------
(* The request. *)

Done(action, ev, failed) ==
  req' = [pc |-> "done", action |-> action, ev |-> ev, todo |-> <<>>, failed |-> failed]

(* A handler is called with these arguments: all there should be, or all   *)
(* but one that it checks.                                                 *)
ArgumentsOf(action) ==
  {Inputs(action)} \cup {Inputs(action) \ {n} : n \in Checked(action)}

Called(action, given) ==
  /\ req.pc = "idle"
  /\ action \in DOMAIN Described
  /\ given \in ArgumentsOf(action)

(* find_action *)
UnknownAction ==
  /\ req.pc = "idle"
  /\ Done("NoSuchAction", InvalidAction(NewEvent({})), TRUE)
  /\ calm' = TRUE
  /\ UNCHANGED <<sv, controlVars>>

(* Every handler: something it checks is missing. *)
MissingArgument(action, given) ==
  /\ Called(action, given)
  /\ ~(Checked(action) \subseteq given)
  /\ Done(action, Conclude(GetStrings(NewEvent(given), Checked(action)), -1), TRUE)
  /\ calm' = TRUE
  /\ UNCHANGED <<sv, controlVars>>

Accepted(action, given) == Called(action, given) /\ Checked(action) \subseteq given

(* The Get... handlers begin. *)
BeginAnswer(action, given) ==
  /\ Accepted(action, given)
  /\ action \in DOMAIN Answers
  /\ req' = [pc |-> "answering", action |-> action, ev |-> NewEvent(given),
             todo |-> Answers[action], failed |-> FALSE]
  /\ calm' = TRUE
  /\ UNCHANGED <<sv, controlVars>>

(* upnp_append_variable *)
AppendVariable ==
  /\ req.pc = "answering" /\ req.todo # <<>>
  /\ req' = [req EXCEPT !.ev = AddResponse(@, Head(req.todo)[1], ValueOf(Head(req.todo)[2])),
                        !.todo = Tail(@)]
  /\ UNCHANGED <<sv, controlVars, calm>>

EndAnswer ==
  /\ req.pc = "answering" /\ req.todo = <<>>
  /\ Done(req.action, Conclude(req.ev, 0), FALSE)
  /\ UNCHANGED <<sv, controlVars, calm>>

(* get_volume_dbrange and get_current_conn_ids answer constants; the       *)
(* latter returns -1.                                                      *)
AnswerConstants(action, given) ==
  /\ Accepted(action, given)
  /\ \/ /\ action = "GetVolumeDBRange"
        /\ Done(action, Conclude(AddResponse(AddResponse(NewEvent(given),
                  "MinValue", VolumeDBRange.MinValue), "MaxValue", VolumeDBRange.MaxValue), 0),
                FALSE)
     \/ /\ action = "GetCurrentConnectionIDs"
        /\ Done(action, Conclude(AddResponse(NewEvent(given), "ConnectionIDs", "0"), -1), FALSE)
  /\ calm' = TRUE
  /\ UNCHANGED <<sv, controlVars>>

(* The answer of a handler that changes something, and tells when it could *)
(* not: upnp_set_error and -1.                                             *)
Changed(action, given, ok) ==
  /\ Done(action, IF ok THEN Conclude(NewEvent(given), 0)
                  ELSE Conclude(SetError(NewEvent(given)), -1), ~ok)
  /\ calm' = TRUE

(* Some handlers do not look at what the output says, or do not pass it on. *)
Swallowing == {"SetAVTransportURI", "Stop", "Seek"}

ChangedAnyhow(action, given, refused) ==
  /\ Done(action, Conclude(NewEvent(given), 0), refused)
  /\ calm' = TRUE

(* set_avtransport_uri: a pipeline that plays may fail to start again. *)
RequestSetURI(given) ==
  /\ Accepted("SetAVTransportURI", given)
  /\ \E p \in Pairs : sv' = AfterSetURI(sv, p[1], p[2])
  /\ \E refused \in BOOLEAN : ChangedAnyhow("SetAVTransportURI", given, refused)
  /\ UNCHANGED controlVars

(* set_next_avtransport_uri looks for the metadata when it has already set *)
(* the URI.                                                                *)
RequestSetNextURI(given) ==
  /\ Accepted("SetNextAVTransportURI", given)
  /\ \E p \in Pairs :
       \/ /\ sv' = AfterSetNextURI(sv, p[1], p[2])
          /\ Changed("SetNextAVTransportURI", given, TRUE)
       \/ /\ sv' = AfterSetNextURI(sv, p[1], Absent)
          /\ Changed("SetNextAVTransportURI", given \ {"NextURIMetaData"}, FALSE)
  /\ UNCHANGED controlVars

(* play: the output may fail. *)
RequestPlay(given) ==
  /\ Accepted("Play", given)
  /\ \/ sv.TransportState = "PLAYING" /\ UNCHANGED sv /\ Changed("Play", given, TRUE)
     \/ Play /\ Changed("Play", given, TRUE)
     \/ sv.TransportState # "PLAYING" /\ UNCHANGED sv /\ Changed("Play", given, FALSE)
  /\ UNCHANGED controlVars

(* pause_stream: the output may fail; 701 when STOPPED *)
RequestPause(given) ==
  /\ Accepted("Pause", given)
  /\ \/ sv.TransportState = "PAUSED_PLAYBACK" /\ UNCHANGED sv /\ Changed("Pause", given, TRUE)
     \/ Pause /\ Changed("Pause", given, TRUE)
     \/ /\ sv.TransportState \in {"PLAYING", "STOPPED"}
        /\ UNCHANGED sv /\ Changed("Pause", given, FALSE)
  /\ UNCHANGED controlVars

(* stop: the output is asked to stop unless STOPPED, and may fail. *)
RequestStop(given) ==
  /\ Accepted("Stop", given)
  /\ sv' = AfterStop(sv)
  /\ \E refused \in {FALSE, sv.TransportState # "STOPPED"} :
       ChangedAnyhow("Stop", given, refused)
  /\ UNCHANGED controlVars

(* seek: the output may fail; a unit other than REL_TIME does nothing. *)
RequestSeek(given) ==
  /\ Accepted("Seek", given)
  /\ \E refused \in BOOLEAN : ChangedAnyhow("Seek", given, refused)
  /\ UNCHANGED <<sv, controlVars>>

RequestControl(given) ==
  /\ \/ /\ Accepted("SetMute", given)
        /\ \E mute \in BOOLEAN : SetMute(mute)
        /\ Changed("SetMute", given, TRUE)
     \/ /\ Accepted("SetVolume", given)
        /\ \E level \in Levels : SetVolume(level)
        /\ Changed("SetVolume", given, TRUE)
     \/ /\ Accepted("SetVolumeDB", given)
        /\ \E d \in Decibels : SetVolumeDB(d)
        /\ Changed("SetVolumeDB", given, TRUE)
  /\ UNCHANGED sv

(* handle_var_request *)
QueryVariable(v) ==
  /\ req.pc = "idle"
  /\ Done("QueryStateVariable",
          IF v \in Variables
          THEN [given |-> {v}, status |-> 0, code |-> "success",
                answer |-> [n \in {v} |-> ValueOf(n)]]
          ELSE [given |-> {v}, status |-> 0, code |-> "invalid_variable", answer |-> Empty],
          v \notin Variables)
  /\ calm' = TRUE
  /\ UNCHANGED <<sv, controlVars>>

-----------------------------------------------------------------------------
(* handle_action_request returns: libupnp has the answer. *)
Return ==
  /\ req.pc = "done"
  /\ req' = Idle
  /\ calm' = TRUE
  /\ UNCHANGED <<sv, controlVars>>

(* Other control points, the output, and the start of RenderingControl;    *)
(* what they do when the answer is complete no longer matters to it.       *)
Others ==
  /\ req.pc # "done"
  /\ \/ asked = "AVTransport" /\ TransportNext /\ UNCHANGED controlVars
     \/ asked = "RenderingControl" /\ ControlNext /\ UNCHANGED sv
  /\ calm' = (req.pc = "idle" \/ (calm /\ sv' = sv /\ cv' = cv))
  /\ UNCHANGED req

RequestInit ==
  /\ TransportInit
  /\ ControlInit
  /\ asked \in Services
  /\ asked # "RenderingControl" => heard.volume = MaxDB
  /\ req = Idle
  /\ calm = TRUE

RequestNext ==
  /\ \/ \E action \in DOMAIN Described : \E given \in ArgumentsOf(action) :
          \/ MissingArgument(action, given) \/ BeginAnswer(action, given)
          \/ AnswerConstants(action, given)
     \/ \E given \in ArgumentsOf("SetAVTransportURI") : RequestSetURI(given)
     \/ \E given \in ArgumentsOf("SetNextAVTransportURI") : RequestSetNextURI(given)
     \/ \E given \in ArgumentsOf("Play") : RequestPlay(given)
     \/ \E given \in ArgumentsOf("Pause") : RequestPause(given) \/ RequestStop(given)
     \/ \E given \in ArgumentsOf("Seek") : RequestSeek(given)
     \/ \E given \in ArgumentsOf("SetVolume") \cup ArgumentsOf("SetMute") :
          RequestControl(given)
     \/ \E v \in Variables \cup {"NoSuchVariable"} : QueryVariable(v)
     \/ UnknownAction \/ AppendVariable \/ EndAnswer \/ Return \/ Others
  /\ UNCHANGED asked

RequestSpec == RequestInit /\ [][RequestNext]_requestVars

-----------------------------------------------------------------------------
(* Properties. *)

ErrorCodes == {"failed", "invalid_action", "invalid_variable"}

(* Actions whose handler and description are known not to agree: the       *)
(* answers of two are still to be implemented, and GetVolumeDB gives its   *)
(* answer another name than its description.                               *)
Divergent == {"GetDeviceCapabilities", "GetTransportSettings", "GetVolumeDB"}

(* Answers that are not made of the variable which the description says:   *)
(* it is the wrong one (PlayMedium, ConnectionID) or names only a type.    *)
OtherValue == {"PlayMedium", "ConnectionID", "MinValue", "MaxValue"}

(* The SCPD that a control point reads tells it what the answers are: but  *)
(* for the three divergent actions, a request that gets no error is        *)
(* answered with exactly the arguments that the description lists, and     *)
(* each, but for the four above, has the value of the variable it is said  *)
(* to be related to, provided no other request or feedback came between.   *)
(* (When one does, an answer can mix the values before and after it.)      *)
AnswersAsDescribed ==
  (/\ req.pc = "done" /\ req.ev.code \notin ErrorCodes
   /\ req.action \in DOMAIN Described \ Divergent)
  => LET described == {Described[req.action][i] : i \in DOMAIN Described[req.action]}
     IN  /\ DOMAIN req.ev.answer = {d[1] : d \in described}
         /\ calm => \A d \in described :
                      d[1] \in OtherValue \/ req.ev.answer[d[1]] = ValueOf(d[2])

(* A control point gets an error, and no part of an answer with it, only   *)
(* when something went wrong; and when something did (an argument missing, *)
(* the action or variable unknown, a refusal of the output to play or      *)
(* pause) it gets one, except from the handlers that swallow what the      *)
(* output says.                                                            *)
ErrorsAreReported ==
  req.pc = "done" =>
    /\ req.ev.code \in ErrorCodes => req.failed /\ DOMAIN req.ev.answer = {}
    /\ req.failed => req.ev.code \in ErrorCodes \/ req.action \in Swallowing
=============================================================================
