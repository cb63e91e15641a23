---------------------------- MODULE Subscription ----------------------------
(***************************************************************************)
(* handle_subscription_request (upnp_device.c) beside the LastChange       *)
(* machinery: a control point that subscribes is sent a snapshot of the    *)
(* state variables as its first LastChange, and every event from the       *)
(* moment on at which UpnpAcceptSubscription has activated it.             *)
(*                                                                         *)
(* The handler reads the variables under the service mutex, releases it,   *)
(* and accepts the subscription afterwards under the device mutex only.    *)
(* The A_ARG_TYPE_ variables that the snapshot omits never change and are  *)
(* not among Var.                                                          *)
(***************************************************************************)
EXTENDS LastChange

CONSTANTS Subscribers,   \* control points
          Nobody         \* nobody holds the device mutex

ASSUME SubscribersAssumption == Nobody \notin Subscribers

VARIABLES
  deviceMutex,   \* device->device_mutex: the subscription being handled
  phase,         \* of every control point, see TypeOKSub
  known,         \* its snapshot, then what it knows
  quiet,         \* history: no transaction was open at its snapshot
  missed         \* history: an event went out between snapshot and accept

subVars == <<deviceMutex, phase, known, quiet, missed>>
allVars == <<vars, subVars>>

Phases == {"out", "waiting", "asking", "snapshot", "active"}

-----------------------------------------------------------------------------
(* A subscription request arrives for a known service. *)
Subscribe(s) ==
  /\ phase[s] = "out"
  /\ phase' = [phase EXCEPT ![s] = "waiting"]
  /\ UNCHANGED <<vars, deviceMutex, known, quiet, missed>>

(* Its handler takes the device mutex. *)
LockDevice(s) ==
  /\ phase[s] = "waiting"
  /\ deviceMutex = Nobody
  /\ deviceMutex' = s
  /\ phase' = [phase EXCEPT ![s] = "asking"]
  /\ UNCHANGED <<vars, known, quiet, missed>>

(* Faulty: the snapshot has the default values of the meta data. *)
SnapshotDefaults(s) ==
  /\ phase[s] = "asking"
  /\ mutex = NoThread
  /\ phase' = [phase EXCEPT ![s] = "snapshot"]
  /\ known' = [known EXCEPT ![s] = Initial]
  /\ quiet' = [quiet EXCEPT ![s] = openTransactions = 0]
  /\ UNCHANGED <<vars, deviceMutex, missed>>

(* Lock the service, copy every variable but LastChange, unlock. *)
Snapshot(s) ==
  /\ phase[s] = "asking"
  /\ mutex = NoThread
  /\ phase' = [phase EXCEPT ![s] = "snapshot"]
  /\ known' = [known EXCEPT ![s] = values]
  /\ quiet' = [quiet EXCEPT ![s] = openTransactions = 0]
  /\ UNCHANGED <<vars, deviceMutex, missed>>

(* Faulty: the error path returns with the device mutex held. *)
RejectHoldingMutex(s) ==
  /\ phase[s] = "snapshot"
  /\ phase' = [phase EXCEPT ![s] = "out"]
  /\ known' = [known EXCEPT ![s] = Initial]
  /\ quiet' = [quiet EXCEPT ![s] = TRUE]
  /\ missed' = [missed EXCEPT ![s] = FALSE]
  /\ UNCHANGED <<vars, deviceMutex>>

(* UpnpAcceptSubscription succeeds: the snapshot is sent, the subscription *)
(* is active, the device mutex is released.                                *)
Accept(s) ==
  /\ phase[s] = "snapshot"
  /\ phase' = [phase EXCEPT ![s] = "active"]
  /\ deviceMutex' = Nobody
  /\ UNCHANGED <<vars, known, quiet, missed>>

(* UpnpAcceptSubscription fails; the handler logs it and unlocks. *)
Reject(s) ==
  /\ phase[s] = "snapshot"
  /\ phase' = [phase EXCEPT ![s] = "out"]
  /\ deviceMutex' = Nobody
  /\ known' = [known EXCEPT ![s] = Initial]
  /\ quiet' = [quiet EXCEPT ![s] = TRUE]
  /\ missed' = [missed EXCEPT ![s] = FALSE]
  /\ UNCHANGED vars

(* An active subscription ends (the control point goes away). *)
Leave(s) ==
  /\ phase[s] = "active"
  /\ phase' = [phase EXCEPT ![s] = "out"]
  /\ known' = [known EXCEPT ![s] = Initial]
  /\ quiet' = [quiet EXCEPT ![s] = TRUE]
  /\ missed' = [missed EXCEPT ![s] = FALSE]
  /\ UNCHANGED <<vars, deviceMutex>>

(* UpnpNotify of the step's event: active control points get it, one whose *)
(* subscription is not accepted yet does not.                              *)
Deliver ==
  LET sent == lastChange' # lastChange
  IN  /\ known' = [s \in Subscribers |->
                     IF sent /\ phase[s] = "active"
                     THEN Received(lastChange', known[s]) ELSE known[s]]
      /\ missed' = [s \in Subscribers |->
                     missed[s] \/ (sent /\ phase[s] = "snapshot")]

(* A step of the service, with the event it may send. *)
ServiceStep == Next /\ Deliver /\ UNCHANGED <<deviceMutex, phase, quiet>>

-----------------------------------------------------------------------------
SubInit ==
  /\ Init
  /\ deviceMutex = Nobody
  /\ phase = [s \in Subscribers |-> "out"]
  /\ known = [s \in Subscribers |-> Initial]
  /\ quiet = [s \in Subscribers |-> TRUE]
  /\ missed = [s \in Subscribers |-> FALSE]

SubNext ==
  \/ ServiceStep
  \/ \E s \in Subscribers :
       Subscribe(s) \/ LockDevice(s) \/ Snapshot(s)
         \/ Accept(s) \/ Reject(s) \/ Leave(s)

SubSpec == SubInit /\ [][SubNext]_allVars

(* A handler runs on, gets a mutex that is free again and again, and       *)
(* libupnp answers it; threads leave their critical sections.              *)
SubFairness ==
  /\ \A s \in Subscribers : /\ SF_allVars(LockDevice(s))
                            /\ SF_allVars(Snapshot(s))
                            /\ WF_allVars(Accept(s) \/ Reject(s))
  /\ \A t \in Threads : WF_allVars(ServiceUnlock(t) /\ ServiceStep)

SubFairSpec == SubSpec /\ SubFairness

-----------------------------------------------------------------------------
(* Properties. *)

(* Types, and who holds the device mutex. *)
TypeOKSub ==
  /\ deviceMutex \in Subscribers \cup {Nobody}
  /\ phase \in [Subscribers -> Phases]
  /\ known \in [Subscribers -> [Var -> Value]]
  /\ quiet \in [Subscribers -> BOOLEAN]
  /\ missed \in [Subscribers -> BOOLEAN]
  /\ \A s \in Subscribers : phase[s] \in {"asking", "snapshot"} <=> deviceMutex = s

(* A control point whose snapshot was taken with no transaction open and   *)
(* that missed no event knows, whenever the service is at rest, every      *)
(* evented variable: snapshot and events fit together.  Both conditions    *)
(* are needed: a snapshot taken between two changes of one transaction     *)
(* stays behind when that ends in the document sent last, since a document *)
(* equal to the last one is not sent.                                      *)
QuietSubscriberKnowsAll ==
  \A s \in Subscribers :
    (/\ phase[s] = "active" /\ quiet[s] /\ ~missed[s]
     /\ openTransactions = 0)
    => \A v \in Evented : known[s][v] = values[v]

(* Every subscription request is answered: the two mutexes it takes, one   *)
(* inside the other, never block it for good.                              *)
EverySubscriptionAnswered ==
  \A s \in Subscribers : phase[s] = "waiting" ~> phase[s] \in {"active", "out"}

(* NEWS, 2013-05-18: "Subscription of a new client syncs all available     *)
(* variables."  Does not hold: an event that goes out between snapshot and *)
(* accept is lost for the new control point.                               *)
SubscriberKnowsAll ==
  \A s \in Subscribers :
    (phase[s] = "active" /\ openTransactions = 0)
    => \A v \in Evented : known[s][v] = values[v]
=============================================================================
