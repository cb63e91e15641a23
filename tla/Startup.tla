------------------------------ MODULE Startup ------------------------------
(***************************************************************************)
(* Start of one service while requests already arrive.  main() first       *)
(* registers the root device with libupnp (upnp_device_init), and only     *)
(* then creates the LastChange collector of each service                   *)
(* (upnp_transport_init, upnp_control_init), without the service mutex.    *)
(* handle_action_request, service_lock and service_unlock each look at     *)
(* service->last_change for themselves and skip the collector while it is  *)
(* NULL.                                                                   *)
(*                                                                         *)
(* The builder's document is kept as its last entry per variable (None:    *)
(* no entry); LastChange.tla has the document in full.                     *)
(***************************************************************************)
EXTENDS Integers

CONSTANTS NumVars,    \* evented state variables of the service
          Value,
          Initial,    \* value of every variable when the program starts
          None,       \* no entry in the document
          Requests,   \* libupnp threads that handle action requests
          NoThread    \* nobody holds the service mutex

Var == 0 .. NumVars - 1

ASSUME StartupAssumption == /\ NumVars \in Nat \ {0}
                            /\ Initial \in [Var -> Value]
                            /\ None \notin Value
                            /\ NoThread \notin Requests

VARIABLES
  values,            \* the variable container
  step,              \* where the main thread is in UPnPLastChangeCollector_new
  next,              \* the loop variable of its collecting loop
  pending,           \* the builder's document
  told,              \* what the LastChange documents said so far
  registered,        \* the collector listens to the container
  published,         \* service->last_change is set
  openTransactions,
  mutex,             \* holder of the service mutex
  inAction,          \* requests in handle_action_request
  aborted,           \* an assert() has failed
  early              \* history: a request was handled before published

vars == <<values, step, next, pending, told, registered, published,
          openTransactions, mutex, inAction, aborted, early>>

NothingPending == [v \in Var |-> None]

-----------------------------------------------------------------------------
(* UPnPLastChangeCollector_notify with document d and nesting count n. *)
Notify(d, n) ==
  IF n # 0
  THEN pending' = d /\ told' = told
  ELSE /\ pending' = NothingPending
       /\ told' = [v \in Var |-> IF d[v] = None THEN told[v] ELSE d[v]]

(* UPnPLastChangeCollector_finish, with its assertion. *)
Finish ==
  IF openTransactions >= 1
  THEN /\ openTransactions' = openTransactions - 1
       /\ Notify(pending, openTransactions - 1)
       /\ aborted' = aborted
  ELSE /\ aborted' = TRUE
       /\ UNCHANGED <<openTransactions, pending, told>>

(* The main thread. *)

(* Faulty: the loop variable stays. *)
CollectFirst ==
  /\ step = "collect" /\ ~aborted /\ next < NumVars
  /\ pending' = [pending EXCEPT ![next] = values[next]]
  /\ UNCHANGED <<values, step, next, told, registered, published,
                 openTransactions, mutex, inAction, aborted, early>>

(* The loop over the variables adds the current value of each. *)
CollectVariable ==
  /\ step = "collect" /\ ~aborted /\ next < NumVars
  /\ pending' = [pending EXCEPT ![next] = values[next]]
  /\ next' = next + 1
  /\ UNCHANGED <<values, step, told, registered, published, openTransactions,
                 mutex, inAction, aborted, early>>

(* The initial LastChange is made and sent. *)
NotifyInitial ==
  /\ step = "collect" /\ ~aborted /\ next = NumVars
  /\ step' = "register"
  /\ Notify(pending, openTransactions)
  /\ UNCHANGED <<values, next, registered, published, openTransactions, mutex,
                 inAction, aborted, early>>

(* Faulty: the collector is used without listening to the container. *)
NeverRegister ==
  /\ step = "register" /\ ~aborted
  /\ step' = "publish"
  /\ UNCHANGED <<values, next, pending, told, registered, published,
                 openTransactions, mutex, inAction, aborted, early>>

(* VariableContainer_register_callback *)
RegisterCallback ==
  /\ step = "register" /\ ~aborted
  /\ step' = "publish"
  /\ registered' = TRUE
  /\ UNCHANGED <<values, next, pending, told, published, openTransactions,
                 mutex, inAction, aborted, early>>

(* service->last_change = the new collector *)
Publish ==
  /\ step = "publish" /\ ~aborted
  /\ step' = "done"
  /\ published' = TRUE
  /\ UNCHANGED <<values, next, pending, told, registered, openTransactions,
                 mutex, inAction, aborted, early>>

(* The threads of libupnp. *)

BeginAction(t) ==
  /\ t \notin inAction /\ ~aborted
  /\ \/ /\ published /\ mutex = NoThread
        /\ openTransactions' = openTransactions + 1
     \/ ~published /\ UNCHANGED openTransactions
  /\ inAction' = inAction \cup {t}
  /\ early' = (early \/ ~published)
  /\ UNCHANGED <<values, step, next, pending, told, registered, published,
                 mutex, aborted>>

ServiceLock(t) ==
  /\ t \in inAction /\ mutex = NoThread /\ ~aborted
  /\ mutex' = t
  /\ openTransactions' = openTransactions + (IF published THEN 1 ELSE 0)
  /\ UNCHANGED <<values, step, next, pending, told, registered, published,
                 inAction, aborted, early>>

Change(t, v, x) ==
  /\ mutex = t /\ values[v] # x /\ ~aborted
  /\ values' = [values EXCEPT ![v] = x]
  /\ \/ registered /\ Notify([pending EXCEPT ![v] = x], openTransactions)
     \/ ~registered /\ UNCHANGED <<pending, told>>
  /\ UNCHANGED <<step, next, registered, published, openTransactions, mutex,
                 inAction, aborted, early>>

(* Faulty: a failing handler unlocks without the finish. *)
UnlockWithoutFinish(t) ==
  /\ mutex = t /\ ~aborted
  /\ mutex' = NoThread
  /\ UNCHANGED <<values, step, next, pending, told, registered, published,
                 openTransactions, inAction, aborted, early>>

ServiceUnlock(t) ==
  /\ mutex = t /\ ~aborted
  /\ \/ published /\ Finish
     \/ ~published /\ UNCHANGED <<openTransactions, pending, told, aborted>>
  /\ mutex' = NoThread
  /\ UNCHANGED <<values, step, next, registered, published, inAction, early>>

EndAction(t) ==
  /\ t \in inAction /\ mutex # t /\ ~aborted
  /\ \/ published /\ mutex = NoThread /\ Finish
     \/ ~published /\ UNCHANGED <<openTransactions, pending, told, aborted>>
  /\ inAction' = inAction \ {t}
  /\ UNCHANGED <<values, step, next, registered, published, mutex, early>>

-----------------------------------------------------------------------------
(* upnp_device_init has returned: requests may come. *)
Init ==
  /\ values = Initial
  /\ step = "collect" /\ next = 0
  /\ pending = NothingPending
  /\ told = Initial
  /\ registered = FALSE /\ published = FALSE
  /\ openTransactions = 0
  /\ mutex = NoThread
  /\ inAction = {}
  /\ aborted = FALSE
  /\ early = FALSE

MainSteps == CollectVariable \/ NotifyInitial \/ RegisterCallback \/ Publish

ActionGoesOn(t) == \/ EndAction(t) \/ ServiceLock(t) \/ ServiceUnlock(t)
                   \/ \E v \in Var, x \in Value : Change(t, v, x)

Next == MainSteps \/ \E t \in Requests : BeginAction(t) \/ ActionGoesOn(t)

Spec == Init /\ [][Next]_vars

-----------------------------------------------------------------------------
(* Properties. *)

AtRest == published /\ inAction = {} /\ mutex = NoThread /\ ~aborted

(* A start without its finish would silence LastChange for good.  However  *)
(* publication falls between the checks of last_change, none is left over: *)
(* with nothing under way the counter is zero.                             *)
NeverSilenced == AtRest => openTransactions = 0

(* Had no request come before last_change was published, nothing would go  *)
(* wrong: no assertion fails and no change is lost.  A change that comes   *)
(* after the loop has read the variable, and before the listener is        *)
(* registered, is in no document.                                          *)
LateRequestsAreSafe ==
  ~early => /\ ~aborted
            /\ AtRest => told = values

(* variable-container.c, UPnPLastChangeCollector_finish:                   *)
(* "assert(object->open_transactions >= 1);".  Fails: a request that began *)
(* before the publication finishes without having started.                 *)
FinishAssertion == ~aborted
=============================================================================
