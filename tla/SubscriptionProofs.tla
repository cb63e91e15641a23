------------------------- MODULE SubscriptionProofs -------------------------
(***************************************************************************)
(* Proofs about Subscription: a control point whose snapshot was taken at  *)
(* rest follows, event by event, the control point of LastChange that got  *)
(* every event, so it inherits what LastChangeProofs shows of that one.    *)
(***************************************************************************)
EXTENDS Subscription, LastChangeProofs

(* Such a control point knows what the one that got every event knows. *)
Follows ==
  \A s \in Subscribers :
    (phase[s] \in {"snapshot", "active"} /\ quiet[s] /\ ~missed[s])
    => \A v \in Evented : known[s][v] = view[v]

SubInv == Inv /\ TypeOKSub /\ Follows

-----------------------------------------------------------------------------
(* A step of the service sends an event exactly when lastChange changes,   *)
(* and the control point that gets every event applies it.                 *)
LEMMA EventOfStep ==
  ASSUME Inv, Next
  PROVE  /\ lastChange' # lastChange => view' = Received(lastChange', view)
         /\ lastChange' = lastChange => view' = view
<1>1. ASSUME NEW d, NEW k, Notify(d, k)
      PROVE  /\ lastChange' # lastChange => view' = Received(lastChange', view)
             /\ lastChange' = lastChange => view' = view
  BY <1>1 DEF Notify
<1>2. ASSUME NEW t, BeginAction(t) \/ ServiceLock(t)
      PROVE  lastChange' = lastChange /\ view' = view
  BY <1>2 DEF BeginAction, ServiceLock
<1>3. ASSUME NEW t, NEW v, NEW x, Change(t, v, x)
      PROVE  /\ lastChange' # lastChange => view' = Received(lastChange', view)
             /\ lastChange' = lastChange => view' = view
  BY <1>1, <1>3 DEF Change, Collect
<1>4. ASSUME NEW t, EndAction(t) \/ ServiceUnlock(t)
      PROVE  /\ lastChange' # lastChange => view' = Received(lastChange', view)
             /\ lastChange' = lastChange => view' = view
  BY <1>1, <1>4 DEF EndAction, ServiceUnlock, Finish
<1> QED
  BY <1>2, <1>3, <1>4 DEF Next

LEMMA InitSubInv == SubInit => SubInv
<1> SUFFICES ASSUME SubInit PROVE SubInv
  OBVIOUS
<1>1. Inv
  BY InitInv DEF SubInit
<1>2. TypeOKSub
  BY VariablesAssumption, SubscribersAssumption DEF SubInit, TypeOKSub, Phases
<1>3. Follows
  BY DEF SubInit, Follows
<1> QED
  BY <1>1, <1>2, <1>3 DEF SubInv

LEMMA NextSubInv == SubInv /\ [SubNext]_allVars => SubInv'
<1> SUFFICES ASSUME SubInv, [SubNext]_allVars PROVE SubInv'
  OBVIOUS
<1>0. Evented \subseteq Var /\ Initial \in [Var -> Value] /\ values \in [Var -> Value]
  BY VariablesAssumption DEF Evented, SubInv, Inv, TypeOK
<1>1. Inv'
  <2>1. [Next]_vars
    BY DEF SubNext, ServiceStep, Subscribe, LockDevice, Snapshot, Accept, Reject,
       Leave, allVars
  <2> QED
    BY <2>1, NextInv DEF SubInv
<1>2. CASE UNCHANGED allVars
  <2>1. UNCHANGED <<deviceMutex, phase, known, quiet, missed, view>>
    BY <1>2 DEF allVars, subVars, vars
  <2> QED
    BY <1>1, <2>1 DEF SubInv, TypeOKSub, Follows
<1>3. CASE ServiceStep
  <2> DEFINE sent == lastChange' # lastChange
  <2>1. /\ UNCHANGED <<deviceMutex, phase, quiet>>
        /\ known' = [s \in Subscribers |->
                       IF sent /\ phase[s] = "active"
                       THEN Received(lastChange', known[s]) ELSE known[s]]
        /\ missed' = [s \in Subscribers |->
                       missed[s] \/ (sent /\ phase[s] = "snapshot")]
    BY <1>3 DEF ServiceStep, Deliver
  <2>2. /\ sent => view' = Received(lastChange', view)
        /\ ~sent => view' = view
    BY <1>3, EventOfStep DEF ServiceStep, SubInv
  <2>3. view' \in [Var -> Value]
    BY <1>1 DEF Inv, TypeOK
  <2> HIDE DEF sent
  <2>4. ASSUME NEW s \in Subscribers
        PROVE  known'[s] \in [Var -> Value]
    <3>1. CASE ~(sent /\ phase[s] = "active")
      BY <2>1, <3>1 DEF SubInv, TypeOKSub
    <3>2. CASE sent /\ phase[s] = "active"
      <4>1. known'[s] = Received(lastChange', known[s])
        BY <2>1, <3>2
      <4>2. \A v \in Var : Received(lastChange', known[s])[v] \in Value
        <5>1. SUFFICES ASSUME NEW v \in Var
                       PROVE  Received(lastChange', known[s])[v] \in Value
          OBVIOUS
        <5>2. Received(lastChange', view)[v] \in Value
          BY <2>2, <2>3, <3>2
        <5>3. known[s][v] \in Value
          BY DEF SubInv, TypeOKSub
        <5> QED
          BY <5>2, <5>3 DEF Received
      <4> QED
        BY <4>1, <4>2 DEF Received
    <3> QED
      BY <3>1, <3>2
  <2>5. TypeOKSub'
    <3>1. known' \in [Subscribers -> [Var -> Value]]
      BY <2>1, <2>4
    <3>2. missed' \in [Subscribers -> BOOLEAN]
      BY <2>1
    <3> QED
      BY <2>1, <3>1, <3>2 DEF SubInv, TypeOKSub
  <2>6. Follows'
    <3>1. SUFFICES ASSUME NEW s \in Subscribers, NEW v \in Evented,
                          phase'[s] \in {"snapshot", "active"}, quiet'[s], ~missed'[s]
                   PROVE  known'[s][v] = view'[v]
      BY DEF Follows
    <3>2. /\ phase[s] \in {"snapshot", "active"} /\ quiet[s] /\ ~missed[s]
          /\ sent => phase[s] = "active"
      BY <2>1, <3>1
    <3>3. known[s][v] = view[v]
      BY <3>2 DEF SubInv, Follows
    <3>4. CASE sent
      <4>1. known'[s] = Received(lastChange', known[s]) /\ view' = Received(lastChange', view)
        BY <2>1, <2>2, <3>2, <3>4
      <4>2. Received(lastChange', known[s])[v] = Received(lastChange', view)[v]
        BY <3>3, <1>0 DEF Received
      <4> QED
        BY <4>1, <4>2
    <3>5. CASE ~sent
      BY <2>1, <2>2, <3>3, <3>5
    <3> QED
      BY <3>4, <3>5
  <2> QED
    BY <1>1, <2>5, <2>6 DEF SubInv
<1>4. ASSUME NEW s \in Subscribers, Subscribe(s) \/ LockDevice(s)
      PROVE  SubInv'
  <2>1. UNCHANGED <<view, known, quiet, missed>>
    BY <1>4 DEF Subscribe, LockDevice, vars
  <2>2. TypeOKSub'
    BY <1>4, SubscribersAssumption
       DEF Subscribe, LockDevice, SubInv, TypeOKSub, Phases
  <2>3. Follows'
    BY <1>4, <2>1 DEF Subscribe, LockDevice, SubInv, TypeOKSub, Follows
  <2> QED
    BY <1>1, <2>2, <2>3 DEF SubInv
<1>5. ASSUME NEW s \in Subscribers, Snapshot(s)
      PROVE  SubInv'
  <2>1. /\ phase' = [phase EXCEPT ![s] = "snapshot"]
        /\ known' = [known EXCEPT ![s] = values]
        /\ quiet' = [quiet EXCEPT ![s] = openTransactions = 0]
        /\ UNCHANGED <<view, deviceMutex, missed>>
    BY <1>5 DEF Snapshot, vars
  <2>2. TypeOKSub'
    BY <1>0, <1>5, <2>1, SubscribersAssumption DEF Snapshot, SubInv, TypeOKSub, Phases
  <2>3. openTransactions = 0 => \A v \in Evented : values[v] = view[v]
    <3>1. openTransactions = 0 => \A v \in Evented : ~Announces(doc, v, values[v])
      BY DEF SubInv, Inv, PendingOnlyWhileOpen, Announces
    <3> QED
      BY <3>1 DEF SubInv, Inv, PendingOrKnown
  <2>4. Follows'
    <3>1. SUFFICES ASSUME NEW r \in Subscribers, NEW v \in Evented,
                          phase'[r] \in {"snapshot", "active"}, quiet'[r], ~missed'[r]
                   PROVE  known'[r][v] = view'[v]
      BY DEF Follows
    <3>2. CASE r = s
      BY <2>1, <2>3, <3>1, <3>2 DEF SubInv, TypeOKSub
    <3>3. CASE r # s
      BY <2>1, <3>1, <3>3 DEF SubInv, TypeOKSub, Follows
    <3> QED
      BY <3>2, <3>3
  <2> QED
    BY <1>1, <2>2, <2>4 DEF SubInv
<1>6. ASSUME NEW s \in Subscribers, Accept(s)
      PROVE  SubInv'
  <2>1. UNCHANGED <<view, known, quiet, missed>>
    BY <1>6 DEF Accept, vars
  <2>2. TypeOKSub'
    BY <1>6, SubscribersAssumption DEF Accept, SubInv, TypeOKSub, Phases
  <2>3. Follows'
    BY <1>6, <2>1 DEF Accept, SubInv, TypeOKSub, Follows
  <2> QED
    BY <1>1, <2>2, <2>3 DEF SubInv
<1>7. ASSUME NEW s \in Subscribers, Reject(s) \/ Leave(s)
      PROVE  SubInv'
  <2>1. /\ phase' = [phase EXCEPT ![s] = "out"]
        /\ known' = [known EXCEPT ![s] = Initial]
        /\ quiet' = [quiet EXCEPT ![s] = TRUE]
        /\ missed' = [missed EXCEPT ![s] = FALSE]
        /\ view' = view
    BY <1>7 DEF Reject, Leave, vars
  <2>2. TypeOKSub'
    BY <1>0, <1>7, <2>1, SubscribersAssumption
       DEF Reject, Leave, SubInv, TypeOKSub, Phases
  <2>3. Follows'
    BY <2>1 DEF SubInv, TypeOKSub, Follows
  <2> QED
    BY <1>1, <2>2, <2>3 DEF SubInv
<1> QED
  BY <1>2, <1>3, <1>4, <1>5, <1>6, <1>7 DEF SubNext

THEOREM SubInvariance == SubSpec => []SubInv
<1> QED
  BY InitSubInv, NextSubInv, PTL DEF SubSpec

(* Types, and the device mutex is held exactly by the subscription that is *)
(* between its snapshot and its answer.                                    *)
THEOREM SubTypeCorrect == SubSpec => []TypeOKSub
<1>1. SubInv => TypeOKSub
  BY DEF SubInv
<1> QED
  BY <1>1, SubInvariance, PTL

(* Snapshot and events fit together for a control point whose snapshot was *)
(* taken at rest and that missed no event.                                 *)
THEOREM QuietSubscriber == SubSpec => []QuietSubscriberKnowsAll
<1>1. ASSUME SubInv, NEW s \in Subscribers, NEW v \in Evented,
             phase[s] = "active", quiet[s], ~missed[s], openTransactions = 0
      PROVE  known[s][v] = values[v]
  <2>1. known[s][v] = view[v]
    BY <1>1 DEF SubInv, Follows
  <2>2. ~Announces(doc, v, values[v])
    BY <1>1 DEF SubInv, Inv, PendingOnlyWhileOpen, Announces
  <2> QED
    BY <1>1, <2>1, <2>2 DEF SubInv, Inv, PendingOrKnown
<1>2. SubInv => QuietSubscriberKnowsAll
  BY <1>1 DEF QuietSubscriberKnowsAll
<1> QED
  BY <1>2, SubInvariance, PTL

(* Subscriptions take the service mutex and write nothing of the service:  *)
(* the collector keeps all its promises while control points come and go   *)
(* (handle_subscription_request), and so implements Announcer.             *)
THEOREM SubscriptionsDisturbNothing == SubSpec => Spec /\ AnnouncerSpec
<1>1. SubInit => Init
  BY DEF SubInit
<1>2. [SubNext]_allVars => [Next]_vars
  <2>1. ASSUME NEW s \in Subscribers,
               \/ Subscribe(s) \/ LockDevice(s) \/ Snapshot(s)
               \/ Accept(s) \/ Reject(s) \/ Leave(s)
        PROVE  UNCHANGED vars
    BY <2>1 DEF Subscribe, LockDevice, Snapshot, Accept, Reject, Leave
  <2> QED BY <2>1 DEF SubNext, ServiceStep, allVars
<1>3. SubSpec => Spec
  BY <1>1, <1>2, PTL DEF SubSpec, Spec
<1> QED BY <1>3, Refinement
=============================================================================
