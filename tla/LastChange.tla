----------------------------- MODULE LastChange -----------------------------
(***************************************************************************)
(* The LastChange machinery of one UPnP service: the variable container    *)
(* (variable-container.c), the UPnPLastChangeBuilder and -Collector that   *)
(* listen to it, the transactions that service_lock()/service_unlock()     *)
(* (upnp_transport.c, upnp_control.c) and handle_action_request()          *)
(* (upnp_device.c) open and close, and the events that come out.           *)
(*                                                                         *)
(* Threads: the libupnp workers that run action requests (Requests) and    *)
(* the program's own threads that lock the service without being asked,    *)
(* the track-time thread and the GLib main loop (Workers).  What a handler *)
(* writes is any sequence of variable changes: the concrete handlers are   *)
(* the subject of AVTransport.tla, the collector must cope with all.       *)
(***************************************************************************)
EXTENDS Integers, Sequences, FiniteSets

CONSTANTS NumVars,     \* number of state variables beside LastChange itself
          Value,       \* the values of state variables
          Initial,     \* the value of every variable when the collector is made
          Ignored,     \* UPnPLastChangeCollector_add_ignore() was called on them
          Requests,    \* libupnp threads that handle action requests
          Workers,     \* threads of the program that lock the service
          NoThread,    \* nobody holds the service mutex
          MaxDoc,      \* bound: entries of the pending document
          MaxRequests  \* bound: action requests in a behaviour

Var == 0 .. NumVars - 1
Evented == Var \ Ignored
Threads == Requests \cup Workers
Entry == [var : Var, value : Value]

ASSUME VariablesAssumption ==
  /\ NumVars \in Nat \ {0}
  /\ Initial \in [Var -> Value]
  /\ Ignored \subseteq Var

ASSUME ThreadsAssumption ==
  /\ IsFiniteSet(Requests)
  /\ Requests \cap Workers = {}
  /\ NoThread \notin Threads

ASSUME BoundsAssumption == MaxDoc \in Nat /\ MaxRequests \in Nat

VARIABLES
  values,            \* the variable container, without LastChange
  lastChange,        \* the LastChange variable: the document last made
  doc,               \* the builder: changes since; <<>> when it has no document
  openTransactions,  \* the collector's nesting counter
  mutex,             \* holder of the service mutex
  inAction,          \* requests between the start and the finish of
                     \* handle_action_request()
  begun,             \* number of requests so far (for the bound only)
  view               \* what a control point knows that got every event

vars == <<values, lastChange, doc, openTransactions, mutex, inAction, begun, view>>

-----------------------------------------------------------------------------
(* Documents.  A document lists changes in the order they were made; the   *)
(* same variable may occur more than once and the last entry counts.       *)

(* The last entry of d for variable v has value x. *)
Announces(d, v, x) ==
  \E i \in DOMAIN d : /\ d[i] = [var |-> v, value |-> x]
                      /\ \A j \in DOMAIN d : j > i => d[j].var # v

Silent(d, v) == \A i \in DOMAIN d : d[i].var # v

(* What a control point knows after it applied document d to knowledge w. *)
Received(d, w) ==
  [v \in Var |-> IF Silent(d, v) THEN w[v]
                 ELSE CHOOSE x \in Value : Announces(d, v, x)]

(* The document the collector is created with: every variable, in id order,*)
(* those ignored later included.                                           *)
InitialDoc == [i \in 1 .. NumVars |-> [var |-> i - 1, value |-> Initial[i - 1]]]

-----------------------------------------------------------------------------
(* The collector. *)

(* Faulty: the document is sent but not dropped from the builder. *)
NotifyKeepsDocument(d, open) ==
  IF open # 0 \/ d = <<>>
  THEN doc' = d /\ UNCHANGED <<lastChange, view>>
  ELSE /\ doc' = d
       /\ lastChange' = d
       /\ view' = IF d = lastChange THEN view ELSE Received(d, view)

(* Faulty: an event goes out while transactions are still open. *)
NotifyIgnoresNesting(d, open) ==
  IF d = <<>>
  THEN doc' = d /\ UNCHANGED <<lastChange, view>>
  ELSE /\ doc' = <<>>
       /\ lastChange' = d
       /\ view' = IF d = lastChange THEN view ELSE Received(d, view)

(* Faulty: a document as long as the last one is taken for the same. *)
NotifyComparesLength(d, open) ==
  IF open # 0 \/ d = <<>>
  THEN doc' = d /\ UNCHANGED <<lastChange, view>>
  ELSE /\ doc' = <<>>
       /\ lastChange' = d
       /\ view' = IF Len(d) = Len(lastChange) THEN view ELSE Received(d, view)

(* UPnPLastChangeCollector_notify with builder document d and nesting     *)
(* count open: the document becomes the LastChange variable, and only if   *)
(* that changed the variable an event is sent.                             *)
Notify(d, open) ==
  IF open # 0 \/ d = <<>>
  THEN doc' = d /\ UNCHANGED <<lastChange, view>>
  ELSE /\ doc' = <<>>
       /\ lastChange' = d
       /\ view' = IF d = lastChange THEN view ELSE Received(d, view)

(* Faulty: a variable that already has an entry in this document gets no   *)
(* second one.                                                             *)
CollectOnce(v, x) ==
  IF v \in Ignored \/ ~Silent(doc, v)
  THEN UNCHANGED <<doc, lastChange, view>>
  ELSE Notify(Append(doc, [var |-> v, value |-> x]), openTransactions)

(* UPnPLastChangeCollector_callback: called by VariableContainer_change    *)
(* with the new value.                                                     *)
Collect(v, x) ==
  IF v \in Ignored
  THEN UNCHANGED <<doc, lastChange, view>>
  ELSE Notify(Append(doc, [var |-> v, value |-> x]), openTransactions)

(* Faulty: the outermost finish resets the counter and does not notify. *)
FinishSilently ==
  /\ openTransactions' = openTransactions - 1
  /\ UNCHANGED <<doc, lastChange, view>>

(* UPnPLastChangeCollector_finish *)
Finish ==
  /\ openTransactions' = openTransactions - 1
  /\ Notify(doc, openTransactions - 1)

-----------------------------------------------------------------------------
(* Steps of the threads. *)

(* Faulty: the start is skipped (as when last_change is not there yet)     *)
(* although the finish is not.                                             *)
BeginWithoutStart(t) ==
  /\ t \in Requests \ inAction
  /\ mutex = NoThread
  /\ begun < MaxRequests
  /\ begun' = begun + 1
  /\ inAction' = inAction \cup {t}
  /\ UNCHANGED <<values, lastChange, doc, openTransactions, mutex, view>>

(* handle_action_request up to the handler: lock, start, unlock. *)
BeginAction(t) ==
  /\ t \in Requests \ inAction
  /\ mutex = NoThread
  /\ begun < MaxRequests
  /\ begun' = begun + 1
  /\ inAction' = inAction \cup {t}
  /\ openTransactions' = openTransactions + 1
  /\ UNCHANGED <<values, lastChange, doc, mutex, view>>

(* service_lock() in a handler or in a thread of the program. *)
ServiceLock(t) ==
  /\ t \in inAction \cup Workers
  /\ mutex = NoThread
  /\ mutex' = t
  /\ openTransactions' = openTransactions + 1
  /\ UNCHANGED <<values, lastChange, doc, inAction, begun, view>>

(* VariableContainer_change under the service lock.  An equal value        *)
(* returns before anything happens.                                        *)
Change(t, v, x) ==
  /\ mutex = t
  /\ values[v] # x
  /\ Len(doc) < MaxDoc
  /\ values' = [values EXCEPT ![v] = x]
  /\ Collect(v, x)
  /\ UNCHANGED <<openTransactions, mutex, inAction, begun>>

(* Faulty: an early return that unlocks but forgets the finish. *)
UnlockWithoutFinish(t) ==
  /\ mutex = t
  /\ mutex' = NoThread
  /\ UNCHANGED <<values, lastChange, doc, openTransactions, inAction, begun, view>>

(* service_unlock(): finish while still holding the mutex, then unlock. *)
ServiceUnlock(t) ==
  /\ mutex = t
  /\ Finish
  /\ mutex' = NoThread
  /\ UNCHANGED <<values, inAction, begun>>

(* handle_action_request after the handler: lock, finish, unlock. *)
EndAction(t) ==
  /\ t \in inAction
  /\ mutex = NoThread
  /\ Finish
  /\ inAction' = inAction \ {t}
  /\ UNCHANGED <<values, mutex, begun>>

-----------------------------------------------------------------------------
Init ==
  /\ values = Initial
  /\ lastChange = InitialDoc
  /\ doc = <<>>
  /\ openTransactions = 0
  /\ mutex = NoThread
  /\ inAction = {}
  /\ begun = 0
  /\ view = Initial

Next ==
  \/ \E t \in Requests : BeginAction(t) \/ EndAction(t)
  \/ \E t \in Threads : \/ ServiceLock(t)
                        \/ \E v \in Var, x \in Value : Change(t, v, x)
                        \/ ServiceUnlock(t)

Spec == Init /\ [][Next]_vars

(* A thread in a critical section leaves it, and a handler comes back and  *)
(* gets the mutex it asks for: the threads of the program sleep most of    *)
(* the time, so it is free again and again.  Nobody has to begin anything. *)
Fairness == /\ \A t \in Threads : WF_vars(ServiceUnlock(t))
            /\ \A t \in Requests : SF_vars(EndAction(t))

FairSpec == Spec /\ Fairness

-----------------------------------------------------------------------------
(* Properties. *)

(* Every variable has values of its kind. *)
TypeOK ==
  /\ values \in [Var -> Value]
  /\ lastChange \in Seq(Entry)
  /\ doc \in Seq(Entry)
  /\ openTransactions \in Nat
  /\ mutex \in Threads \cup {NoThread}
  /\ inAction \subseteq Requests
  /\ begun \in 0 .. MaxRequests
  /\ view \in [Var -> Value]

(* The nesting counter is exactly the number of requests under way plus    *)
(* the critical section that is open, so the assertion in                  *)
(* UPnPLastChangeCollector_finish (open_transactions >= 1) never fires and *)
(* no early return leaks a transaction, which would silence LastChange.    *)
TransactionsBalanced ==
  openTransactions = Cardinality(inAction) + (IF mutex = NoThread THEN 0 ELSE 1)

(* Every variable with an entry in the pending document has a last one. *)
DocComplete ==
  \A v \in Var : Silent(doc, v) \/ \E x \in Value : Announces(doc, v, x)

(* No change is lost between the container and the control point: the      *)
(* value of an evented variable is the last entry of the pending document, *)
(* or there is none and the control point has it already.                  *)
PendingOrKnown ==
  \A v \in Evented : \/ Announces(doc, v, values[v])
                     \/ Silent(doc, v) /\ view[v] = values[v]

(* The test in UPnPLastChangeCollector_notify that drops a document equal  *)
(* to the last one loses nothing: the control point still knows all that   *)
(* the last document said.                                                 *)
RepeatIsHarmless ==
  \A v \in Var, x \in Value : Announces(lastChange, v, x) => view[v] = x

(* With no transaction open a control point that got every event knows     *)
(* every evented variable, whatever was changed, changed twice or changed  *)
(* back in overlapping requests.                                           *)
AtRestInSync ==
  openTransactions = 0 => /\ doc = <<>>
                          /\ \A v \in Evented : view[v] = values[v]

(* handle_action_request, comment before the first start: the event goes   *)
(* out only when no handler and no critical section is under way any more, *)
(* and it then tells everything at once.  Announcer states just that.      *)
A == INSTANCE Announcer WITH
       actual <- [v \in Evented |-> values[v]],
       known  <- [v \in Evented |-> view[v]],
       busy   <- mutex # NoThread \/ inAction # {}

AnnouncerSpec == A!ASpec

(* When requests stop coming, a change is eventually told: transactions    *)
(* that overlap delay the event but do not swallow it.                     *)
EventuallyTold ==
  \A v \in Var \ Ignored :
    (begun = MaxRequests /\ view[v] # values[v]) ~> (view[v] = values[v])
=============================================================================
