--------------------------- MODULE StartupProofs ---------------------------
(***************************************************************************)
(* Proofs about Startup, for any number of variables and of requests.  The *)
(* counter of open transactions is tied to the requests that will still    *)
(* finish one: there are never more transactions than those (Counted), and *)
(* exactly as many when no request was early (Orderly).                    *)
(***************************************************************************)
EXTENDS Startup, FiniteSetTheorems, TLAPS

Document == [Var -> Value \cup {None}]

StartupTypeOK ==
  /\ values \in [Var -> Value]
  /\ step \in {"collect", "register", "publish", "done"}
  /\ next \in Nat
  /\ pending \in Document
  /\ told \in [Var -> Value]
  /\ registered \in BOOLEAN
  /\ published \in BOOLEAN
  /\ openTransactions \in Nat
  /\ mutex \in Requests \cup {NoThread}
  /\ inAction \subseteq Requests
  /\ IsFiniteSet(inAction)
  /\ aborted \in BOOLEAN
  /\ early \in BOOLEAN

(* Transactions that requests under way may finish: one for each of them   *)
(* and one for the holder of the mutex.                                    *)
Finishing == Cardinality(inAction) + (IF mutex = NoThread THEN 0 ELSE 1)

Counted ==
  /\ openTransactions <= Finishing
  /\ published <=> step = "done"
  /\ ~published => openTransactions = 0

(* What was announced, or will be with the pending document, is the value  *)
(* of the variable.                                                        *)
Told == \A v \in Var : \/ pending[v] = values[v]
                       \/ pending[v] = None /\ told[v] = values[v]

Orderly ==
  ~early => /\ ~aborted
            /\ ~published => inAction = {} /\ mutex = NoThread
            /\ published => openTransactions = Finishing /\ registered
            /\ step = "publish" => registered
            /\ openTransactions = 0 /\ step # "collect" => pending = NothingPending
            /\ Told

StartupInv == StartupTypeOK /\ Counted /\ Orderly

-----------------------------------------------------------------------------
(* How a begin and an end change the number of requests. *)

LEMMA OneMore ==
  ASSUME NEW S, IsFiniteSet(S), NEW t, t \notin S
  PROVE  /\ IsFiniteSet(S \cup {t})
         /\ Cardinality(S) \in Nat
         /\ Cardinality(S \cup {t}) = Cardinality(S) + 1
BY FS_AddElement, FS_CardinalityType

LEMMA OneLess ==
  ASSUME NEW S, IsFiniteSet(S), NEW t \in S
  PROVE  /\ IsFiniteSet(S \ {t})
         /\ Cardinality(S) \in Nat \ {0}
         /\ Cardinality(S \ {t}) = Cardinality(S) - 1
<1>1. Cardinality(S) \in Nat /\ Cardinality(S \ {t}) \in Nat
  BY FS_CardinalityType, FS_RemoveElement
<1>2. IsFiniteSet(S \ {t}) /\ Cardinality(S \ {t}) = Cardinality(S) - 1
  BY FS_RemoveElement
<1> QED
  BY <1>1, <1>2

LEMMA NoneUnderWay == Cardinality({}) = 0 /\ IsFiniteSet({})
BY FS_EmptySet

(* The pending document is told as a whole, so that Told stays. *)
LEMMA NotifyKeepsTold ==
  ASSUME NEW d \in Document, NEW n \in Nat, StartupTypeOK,
         Notify(d, n),
         values' \in [Var -> Value],
         \A v \in Var : \/ d[v] = values'[v]
                        \/ d[v] = None /\ told[v] = values'[v]
  PROVE  /\ pending' \in Document /\ told' \in [Var -> Value]
         /\ Told'
         /\ n = 0 => pending' = NothingPending
<1>1. CASE n # 0
  BY <1>1 DEF Notify, StartupTypeOK, Told
<1>2. CASE n = 0
  <2>1. /\ pending' = NothingPending
        /\ told' = [v \in Var |-> IF d[v] = None THEN told[v] ELSE d[v]]
    BY <1>2 DEF Notify
  <2>2. \A v \in Var : told'[v] = values'[v] /\ pending'[v] = None
    BY <2>1, StartupAssumption DEF NothingPending, StartupTypeOK
  <2>3. pending' \in Document
    BY <2>1 DEF NothingPending, Document
  <2>4. told' \in [Var -> Value]
    BY <2>1, <2>2
  <2> QED
    BY <2>1, <2>2, <2>3, <2>4 DEF Told
<1> QED
  BY <1>1, <1>2

-----------------------------------------------------------------------------
(* The invariant. *)

LEMMA StartupInvHoldsAtStart == Init => StartupInv
<1> SUFFICES ASSUME Init
             PROVE  StartupInv
  OBVIOUS
<1>1. StartupTypeOK
  BY StartupAssumption, NoneUnderWay DEF Init, StartupTypeOK, NothingPending, Document
<1>2. Counted
  BY NoneUnderWay DEF Init, Counted, Finishing
<1>3. Orderly
  BY DEF Init, Orderly, Told, NothingPending
<1> QED
  BY <1>1, <1>2, <1>3 DEF StartupInv

(* Finish while as many are under way as transactions are open: the number *)
(* goes down by one and no assertion fails.                                *)
LEMMA FinishKeeps ==
  ASSUME StartupInv, Finish, published, values' = values,
         Finishing' = Finishing - 1, Finishing \in Nat \ {0}
  PROVE  /\ openTransactions' \in Nat /\ openTransactions' <= Finishing'
         /\ pending' \in Document /\ told' \in [Var -> Value]
         /\ aborted' \in BOOLEAN
         /\ ~early => /\ aborted' = aborted
                      /\ openTransactions' = Finishing'
                      /\ openTransactions' = 0 => pending' = NothingPending
                      /\ Told'
<1> USE DEF StartupInv
<1>1. CASE openTransactions >= 1
  <2>1. /\ openTransactions' = openTransactions - 1
        /\ Notify(pending, openTransactions - 1)
        /\ aborted' = aborted
    BY <1>1 DEF Finish
  <2>2. openTransactions - 1 \in Nat
    BY <1>1 DEF StartupTypeOK
  <2>3. pending' \in Document /\ told' \in [Var -> Value]
    BY <2>1, StartupAssumption DEF Notify, StartupTypeOK, Document, NothingPending
  <2>4. ASSUME ~early
        PROVE  /\ Told'
               /\ openTransactions - 1 = 0 => pending' = NothingPending
    <3>1. \A v \in Var : \/ pending[v] = values'[v]
                         \/ pending[v] = None /\ told[v] = values'[v]
      BY <2>4 DEF Orderly, Told
    <3> QED
      BY <2>1, <2>2, <3>1, NotifyKeepsTold DEF StartupTypeOK
  <2>5. ~early => openTransactions = Finishing
    BY DEF Orderly
  <2> QED
    BY <2>1, <2>2, <2>3, <2>4, <2>5 DEF StartupTypeOK, Counted
<1>2. CASE ~(openTransactions >= 1)
  <2>1. early
    BY <1>2 DEF Orderly, StartupTypeOK
  <2> QED
    BY <1>2, <2>1 DEF Finish, StartupTypeOK
<1> QED
  BY <1>1, <1>2

(* The steps of the main thread. *)
LEMMA MainStepsKeep == StartupInv /\ MainSteps => StartupInv'
<1> SUFFICES ASSUME StartupInv, MainSteps
             PROVE  StartupInv'
  OBVIOUS
<1> USE DEF StartupInv
<1>1. CASE CollectVariable
  <2>1. next \in Var
    <3> DEFINE last == NumVars - 1
    <3>1. last \in Int /\ next \in Nat /\ next <= last
      BY <1>1, StartupAssumption DEF CollectVariable, StartupTypeOK
    <3> HIDE DEF last
    <3>2. next \in 0 .. last
      BY <3>1
    <3> QED
      BY <3>2 DEF Var, last
  <2>2. StartupTypeOK'
    <3>1. pending' \in Document /\ next' \in Nat
      BY <1>1, <2>1 DEF CollectVariable, StartupTypeOK, Document
    <3> QED
      BY <1>1, <3>1 DEF CollectVariable, StartupTypeOK
  <2>3. Counted'
    BY <1>1 DEF CollectVariable, Counted, Finishing
  <2>4. Orderly'
    BY <1>1, <2>1 DEF CollectVariable, Orderly, Counted, Told, StartupTypeOK, Document
  <2> QED
    BY <2>2, <2>3, <2>4
<1>2. CASE NotifyInitial
  <2>1. openTransactions = 0
    BY <1>2 DEF NotifyInitial, Counted
  <2>2. pending' \in Document /\ told' \in [Var -> Value]
    BY <1>2, StartupAssumption DEF NotifyInitial, Notify, StartupTypeOK, Document, NothingPending
  <2>3. StartupTypeOK' /\ Counted'
    BY <1>2, <2>2 DEF NotifyInitial, StartupTypeOK, Counted, Finishing
  <2>4. ASSUME ~early
        PROVE  Told' /\ pending' = NothingPending
    <3>1. \A v \in Var : \/ pending[v] = values'[v]
                         \/ pending[v] = None /\ told[v] = values'[v]
      BY <1>2, <2>4 DEF NotifyInitial, Orderly, Told
    <3> QED
      BY <1>2, <2>1, <3>1, NotifyKeepsTold DEF NotifyInitial, StartupTypeOK
  <2>5. Orderly'
    BY <1>2, <2>4 DEF NotifyInitial, Orderly, Counted
  <2> QED
    BY <2>3, <2>5
<1>3. CASE RegisterCallback
  BY <1>3 DEF RegisterCallback, StartupTypeOK, Counted, Finishing, Orderly, Told
<1>4. CASE Publish
  <2>1. StartupTypeOK' /\ Counted'
    BY <1>4 DEF Publish, StartupTypeOK, Counted, Finishing
  <2>2. ASSUME ~early
        PROVE  Finishing' = 0 /\ openTransactions' = 0
    BY <1>4, <2>2, NoneUnderWay DEF Publish, Orderly, Counted, Finishing
  <2>3. Orderly'
    BY <1>4, <2>2 DEF Publish, Orderly, Counted, Told
  <2> QED
    BY <2>1, <2>3
<1> QED
  BY <1>1, <1>2, <1>3, <1>4 DEF MainSteps

(* The steps of a request. *)
LEMMA BeginKeeps ==
  ASSUME StartupInv, NEW t \in Requests, BeginAction(t)
  PROVE  StartupInv'
<1> USE DEF StartupInv
<1>1. /\ IsFiniteSet(inAction') /\ Cardinality(inAction) \in Nat
      /\ Cardinality(inAction') = Cardinality(inAction) + 1
  BY OneMore DEF BeginAction, StartupTypeOK
<1>2. Finishing \in Nat /\ Finishing' = Finishing + 1
  BY <1>1 DEF Finishing, BeginAction
<1>3. openTransactions' = openTransactions + (IF published THEN 1 ELSE 0)
  BY DEF BeginAction, StartupTypeOK
<1>4. StartupTypeOK'
  <2>1. openTransactions' \in Nat
    BY <1>3 DEF StartupTypeOK
  <2>2. early' \in BOOLEAN
    BY DEF BeginAction, StartupTypeOK
  <2> QED
    BY <1>1, <2>1, <2>2 DEF BeginAction, StartupTypeOK
<1>5. Counted'
  BY <1>2, <1>3 DEF BeginAction, Counted, StartupTypeOK
<1>6. Orderly'
  <2> SUFFICES ASSUME ~early'
               PROVE  Orderly'
    BY DEF Orderly
  <2>1. ~early /\ published
    BY DEF BeginAction
  <2>2. openTransactions' = Finishing' /\ openTransactions' # 0
    BY <1>2, <1>3, <2>1 DEF Orderly, StartupTypeOK
  <2> QED
    BY <2>1, <2>2 DEF BeginAction, Orderly, Told
<1> QED
  BY <1>4, <1>5, <1>6

LEMMA LockKeeps ==
  ASSUME StartupInv, NEW t \in Requests, ServiceLock(t)
  PROVE  StartupInv'
<1> USE DEF StartupInv
<1>1. Cardinality(inAction) \in Nat /\ inAction # {}
  BY FS_CardinalityType DEF ServiceLock, StartupTypeOK
<1>2. Finishing \in Nat /\ Finishing' = Finishing + 1
  BY <1>1, StartupAssumption DEF Finishing, ServiceLock
<1>3. openTransactions' = openTransactions + (IF published THEN 1 ELSE 0)
  BY DEF ServiceLock
<1>4. StartupTypeOK'
  BY <1>3 DEF ServiceLock, StartupTypeOK
<1>5. Counted'
  BY <1>2, <1>3 DEF ServiceLock, Counted, StartupTypeOK
<1>6. Orderly'
  <2> SUFFICES ASSUME ~early
               PROVE  Orderly'
    BY DEF Orderly, ServiceLock
  <2>1. published
    BY <1>1 DEF Orderly
  <2>2. openTransactions' = Finishing' /\ openTransactions' # 0
    BY <1>2, <1>3, <2>1 DEF Orderly, StartupTypeOK
  <2> QED
    BY <2>1, <2>2 DEF ServiceLock, Orderly, Told
<1> QED
  BY <1>4, <1>5, <1>6

LEMMA ChangeKeeps ==
  ASSUME StartupInv, NEW t \in Requests, NEW v \in Var, NEW x \in Value, Change(t, v, x)
  PROVE  StartupInv'
<1> USE DEF StartupInv
<1> DEFINE d == [pending EXCEPT ![v] = x]
<1>1. values' \in [Var -> Value] /\ d \in Document
  BY DEF Change, StartupTypeOK, Document
<1>2. pending' \in Document /\ told' \in [Var -> Value]
  <2>1. CASE registered /\ Notify(d, openTransactions)
    BY <1>1, <2>1, StartupAssumption DEF Notify, StartupTypeOK, Document, NothingPending
  <2>2. CASE UNCHANGED <<pending, told>>
    BY <2>2 DEF StartupTypeOK
  <2> QED
    BY <2>1, <2>2 DEF Change
<1>3. StartupTypeOK'
  BY <1>1, <1>2 DEF Change, StartupTypeOK
<1>4. Counted'
  BY DEF Change, Counted, Finishing
<1>5. Orderly'
  <2> SUFFICES ASSUME ~early
               PROVE  Orderly'
    BY DEF Orderly, Change
  <2>1. mutex = t /\ mutex # NoThread
    BY StartupAssumption DEF Change
  <2>2. published /\ registered
    BY <2>1 DEF Orderly
  <2>3. Notify(d, openTransactions)
    BY <2>2 DEF Change
  <2>4. \A w \in Var : \/ d[w] = values'[w]
                       \/ d[w] = None /\ told[w] = values'[w]
    BY DEF Change, Orderly, Told, StartupTypeOK, Document
  <2>5. Told' /\ (openTransactions = 0 => pending' = NothingPending)
    BY <1>1, <2>3, <2>4, NotifyKeepsTold DEF StartupTypeOK
  <2> QED
    BY <2>2, <2>5 DEF Change, Orderly, Finishing
<1> QED
  BY <1>3, <1>4, <1>5

LEMMA UnlockKeeps ==
  ASSUME StartupInv, NEW t \in Requests, ServiceUnlock(t)
  PROVE  StartupInv'
<1> USE DEF StartupInv
<1>1. Cardinality(inAction) \in Nat
  BY FS_CardinalityType DEF StartupTypeOK
<1>2. Finishing \in Nat \ {0} /\ Finishing' = Finishing - 1
  BY <1>1, StartupAssumption DEF Finishing, ServiceUnlock
<1>3. CASE published
  <2>1. Finish
    BY <1>3 DEF ServiceUnlock
  <2>2. /\ openTransactions' \in Nat /\ openTransactions' <= Finishing'
        /\ pending' \in Document /\ told' \in [Var -> Value]
        /\ aborted' \in BOOLEAN
        /\ ~early => /\ aborted' = aborted
                     /\ openTransactions' = Finishing'
                     /\ openTransactions' = 0 => pending' = NothingPending
                     /\ Told'
    BY <1>2, <1>3, <2>1, FinishKeeps DEF ServiceUnlock
  <2> QED
    BY <1>3, <2>2 DEF ServiceUnlock, StartupTypeOK, Counted, Orderly
<1>4. CASE ~published
  <2>1. early
    BY <1>4, StartupAssumption DEF Orderly, ServiceUnlock
  <2>2. openTransactions = 0 /\ openTransactions' = openTransactions
    BY <1>4 DEF Counted, ServiceUnlock
  <2> QED
    BY <1>2, <1>4, <2>1, <2>2 DEF ServiceUnlock, StartupTypeOK, Counted, Orderly
<1> QED
  BY <1>3, <1>4 DEF StartupTypeOK

LEMMA EndKeeps ==
  ASSUME StartupInv, NEW t \in Requests, EndAction(t)
  PROVE  StartupInv'
<1> USE DEF StartupInv
<1>1. /\ IsFiniteSet(inAction') /\ Cardinality(inAction) \in Nat \ {0}
      /\ Cardinality(inAction') = Cardinality(inAction) - 1
  BY OneLess DEF EndAction, StartupTypeOK
<1>2. Finishing \in Nat \ {0} /\ Finishing' = Finishing - 1
  BY <1>1 DEF Finishing, EndAction
<1>3. CASE published
  <2>1. Finish
    BY <1>3 DEF EndAction
  <2>2. /\ openTransactions' \in Nat /\ openTransactions' <= Finishing'
        /\ pending' \in Document /\ told' \in [Var -> Value]
        /\ aborted' \in BOOLEAN
        /\ ~early => /\ aborted' = aborted
                     /\ openTransactions' = Finishing'
                     /\ openTransactions' = 0 => pending' = NothingPending
                     /\ Told'
    BY <1>2, <1>3, <2>1, FinishKeeps DEF EndAction
  <2> QED
    BY <1>1, <1>3, <2>2 DEF EndAction, StartupTypeOK, Counted, Orderly
<1>4. CASE ~published
  <2>1. early
    BY <1>4 DEF Orderly, EndAction
  <2>2. openTransactions = 0 /\ openTransactions' = openTransactions
    BY <1>4 DEF Counted, EndAction
  <2> QED
    BY <1>1, <1>2, <1>4, <2>1, <2>2 DEF EndAction, StartupTypeOK, Counted, Orderly
<1> QED
  BY <1>3, <1>4 DEF StartupTypeOK

LEMMA StartupInvIsKept == StartupInv /\ [Next]_vars => StartupInv'
<1>1. StartupInv /\ UNCHANGED vars => StartupInv'
  BY DEF StartupInv, StartupTypeOK, Counted, Orderly, Finishing, Told, vars
<1> QED
  BY <1>1, MainStepsKeep, BeginKeeps, LockKeeps, ChangeKeeps, UnlockKeeps, EndKeeps
     DEF Next, ActionGoesOn

-----------------------------------------------------------------------------
(* Theorems. *)

THEOREM StartupInvHolds == Spec => []StartupInv
BY StartupInvHoldsAtStart, StartupInvIsKept, PTL DEF Spec

(* However upnp_transport_init interleaves with requests, no transaction   *)
(* is left open: LastChange is never silenced.                             *)
THEOREM StartNeverSilences == Spec => []NeverSilenced
<1>1. StartupInv => NeverSilenced
  <2> SUFFICES ASSUME StartupInv, AtRest
               PROVE  openTransactions = 0
    BY DEF NeverSilenced
  <2>1. Finishing = 0
    BY NoneUnderWay DEF AtRest, Finishing
  <2> QED
    BY <2>1 DEF StartupInv, StartupTypeOK, Counted
<1> QED
  BY <1>1, StartupInvHolds, PTL

(* Without a request before service->last_change is set, the assertion of  *)
(* UPnPLastChangeCollector_finish holds and every change is told.          *)
THEOREM OnlyEarlyRequestsHarm == Spec => []LateRequestsAreSafe
<1>1. StartupInv => LateRequestsAreSafe
  <2> SUFFICES ASSUME StartupInv, ~early
               PROVE  ~aborted /\ (AtRest => told = values)
    BY DEF LateRequestsAreSafe
  <2>1. ~aborted
    BY DEF StartupInv, Orderly
  <2>2. ASSUME AtRest
        PROVE  told = values
    <3>1. Finishing = 0
      BY <2>2, NoneUnderWay DEF AtRest, Finishing
    <3>2. pending = NothingPending
      BY <2>2, <3>1 DEF AtRest, StartupInv, Orderly, Counted
    <3>3. \A v \in Var : told[v] = values[v]
      BY <3>2, StartupAssumption
         DEF StartupInv, StartupTypeOK, Orderly, Told, NothingPending
    <3> QED
      BY <3>3 DEF StartupInv, StartupTypeOK
  <2> QED
    BY <2>1, <2>2
<1> QED
  BY <1>1, StartupInvHolds, PTL
=============================================================================
