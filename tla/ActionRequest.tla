--------------------------- MODULE ActionRequest ---------------------------
(***************************************************************************)
(* One action request on its way through upnp_device.c.  The event is the  *)
(* struct action_event and the parts of libupnp's request that are written *)
(* to: status, the error code, and the answer, a function from argument    *)
(* names to values (no answer and an empty one are sent alike).  Of the    *)
(* request itself only the names of its arguments are kept.                *)
(***************************************************************************)
EXTENDS Integers, Sequences

(* "unset": as libupnp handed it over *)
Codes == {"unset", "success", "failed", "invalid_action", "invalid_variable"}

Empty == [n \in {} |-> 0]

NewEvent(given) ==
  [given |-> given, status |-> 0, code |-> "unset", answer |-> Empty]

(* upnp_set_error: the code is the same for every kind of error. *)
SetError(ev) == [given |-> ev.given, status |-> -1, code |-> "failed", answer |-> Empty]

(* Faulty: every argument begins a new answer. *)
AddResponseAnew(ev, name, value) ==
  IF ev.status # 0 THEN ev ELSE [ev EXCEPT !.answer = [n \in {name} |-> value]]

(* upnp_add_response *)
AddResponse(ev, name, value) ==
  IF ev.status # 0 THEN ev
  ELSE [ev EXCEPT !.answer =
          [n \in DOMAIN @ \cup {name} |-> IF n = name THEN value ELSE @[n]]]

(* upnp_get_string for each of the arguments that a handler checks *)
GetStrings(ev, required) == IF required \subseteq ev.given THEN ev ELSE SetError(ev)

(* Faulty: whatever the handler returns, the request is called a success. *)
ConcludeRegardless(ev, rc) == [ev EXCEPT !.code = "success"]

(* handle_action_request, after the callback *)
Conclude(ev, rc) == IF rc = 0 THEN [ev EXCEPT !.code = "success"] ELSE ev

(* handle_action_request when find_service or find_action found nothing    *)
InvalidAction(ev) == [ev EXCEPT !.code = "invalid_action"]
=============================================================================
