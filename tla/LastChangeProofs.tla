-------------------------- MODULE LastChangeProofs --------------------------
(***************************************************************************)
(* Proofs about LastChange, for any number of variables, requests and      *)
(* threads.  The inductive invariant is Inv: the type invariant, the       *)
(* balance of the nesting counter, and the two facts that tie the          *)
(* container, the pending document and the last document to what the       *)
(* control point knows.                                                    *)
(***************************************************************************)
EXTENDS LastChange, FiniteSetTheorems, TLAPS

(* A document is only pending while a transaction is open. *)
PendingOnlyWhileOpen == openTransactions = 0 => doc = <<>>

Inv == /\ TypeOK
       /\ TransactionsBalanced
       /\ DocComplete
       /\ PendingOrKnown
       /\ RepeatIsHarmless
       /\ PendingOnlyWhileOpen

-----------------------------------------------------------------------------
(* Documents. *)

(* A document announces one value of a variable at most. *)
LEMMA AnnouncedOnce ==
  ASSUME NEW d \in Seq(Entry), NEW v, NEW x, NEW y,
         Announces(d, v, x), Announces(d, v, y)
  PROVE  x = y
<1>1. PICK i \in DOMAIN d : /\ d[i] = [var |-> v, value |-> x]
                            /\ \A j \in DOMAIN d : j > i => d[j].var # v
  BY DEF Announces
<1>2. PICK k \in DOMAIN d : /\ d[k] = [var |-> v, value |-> y]
                            /\ \A j \in DOMAIN d : j > k => d[j].var # v
  BY DEF Announces
<1>3. i \in Nat /\ k \in Nat
  OBVIOUS
<1>4. d[i].var = v /\ d[k].var = v
  BY <1>1, <1>2
<1>5. ~(k > i) /\ ~(i > k)
  BY <1>1, <1>2, <1>4
<1>6. i = k
  BY <1>3, <1>5
<1>7. [var |-> v, value |-> x].value = [var |-> v, value |-> y].value
  BY <1>1, <1>2, <1>6
<1> QED
  BY <1>7

(* A variable that is announced is not silent. *)
LEMMA AnnouncedNotSilent ==
  ASSUME NEW d \in Seq(Entry), NEW v, NEW x, Announces(d, v, x)
  PROVE  ~Silent(d, v)
<1>1. PICK i \in DOMAIN d : d[i] = [var |-> v, value |-> x]
  BY DEF Announces
<1>2. d[i].var = v
  BY <1>1
<1> QED
  BY <1>2 DEF Silent

(* The builder's add: the new entry counts for its variable, and for the   *)
(* others nothing changes.                                                 *)
LEMMA AppendEntry ==
  ASSUME NEW d \in Seq(Entry), NEW w \in Var, NEW y \in Value
  PROVE  LET e == Append(d, [var |-> w, value |-> y])
         IN  /\ e \in Seq(Entry)
             /\ Announces(e, w, y)
             /\ \A v \in Var \ {w}, x \in Value :
                  Announces(d, v, x) => Announces(e, v, x)
             /\ \A v \in Var \ {w} : Silent(d, v) => Silent(e, v)
<1> DEFINE n == Len(d)
           c == [var |-> w, value |-> y]
           e == Append(d, c)
<1>1. c \in Entry /\ n \in Nat
  BY DEF Entry
<1>2. /\ e \in Seq(Entry)
      /\ DOMAIN d = 1 .. n
      /\ DOMAIN e = 1 .. n + 1
      /\ e[n + 1] = c
      /\ \A i \in 1 .. n : e[i] = d[i]
  BY <1>1
<1>3. c.var = w
  OBVIOUS
<1> HIDE DEF n, e, c
<1>4. Announces(e, w, y)
  <2>1. n + 1 \in DOMAIN e /\ \A j \in DOMAIN e : ~(j > n + 1)
    BY <1>1, <1>2
  <2> QED
    BY <2>1, <1>2 DEF Announces, c
<1>5. ASSUME NEW v \in Var \ {w}, NEW x \in Value, Announces(d, v, x)
      PROVE  Announces(e, v, x)
  <2>1. PICK i \in DOMAIN d : /\ d[i] = [var |-> v, value |-> x]
                              /\ \A j \in DOMAIN d : j > i => d[j].var # v
    BY <1>5 DEF Announces
  <2>2. i \in DOMAIN e /\ e[i] = [var |-> v, value |-> x]
    BY <2>1, <1>1, <1>2
  <2>3. ASSUME NEW j \in DOMAIN e, j > i
        PROVE  e[j].var # v
    <3>1. CASE j = n + 1
      BY <3>1, <1>2, <1>3
    <3>2. CASE j # n + 1
      <4>1. j \in 1 .. n
        BY <3>2, <1>1, <1>2
      <4> QED
        BY <4>1, <2>1, <2>3, <1>2
    <3> QED
      BY <3>1, <3>2
  <2> QED
    BY <2>2, <2>3 DEF Announces
<1>6. ASSUME NEW v \in Var \ {w}, Silent(d, v)
      PROVE  Silent(e, v)
  <2>1. ASSUME NEW j \in DOMAIN e
        PROVE  e[j].var # v
    <3>1. CASE j = n + 1
      BY <3>1, <1>2, <1>3
    <3>2. CASE j # n + 1
      <4>1. j \in 1 .. n
        BY <3>2, <1>1, <1>2
      <4> QED
        BY <4>1, <1>6, <1>2 DEF Silent
    <3> QED
      BY <3>1, <3>2
  <2> QED
    BY <2>1 DEF Silent
<1> QED
  BY <1>2, <1>4, <1>5, <1>6 DEF e, c

(* A control point that applies a document learns the value it announces   *)
(* and keeps what it knew of the variables the document does not mention.  *)
LEMMA ReceivedValues ==
  ASSUME NEW d \in Seq(Entry), NEW w \in [Var -> Value],
         \A v \in Var : Silent(d, v) \/ \E x \in Value : Announces(d, v, x)
  PROVE  /\ Received(d, w) \in [Var -> Value]
         /\ \A v \in Var : Silent(d, v) => Received(d, w)[v] = w[v]
         /\ \A v \in Var, x \in Value : Announces(d, v, x) => Received(d, w)[v] = x
<1>1. ASSUME NEW v \in Var, NEW x \in Value, Announces(d, v, x)
      PROVE  Received(d, w)[v] = x
  <2>1. ~Silent(d, v)
    BY <1>1, AnnouncedNotSilent
  <2>2. (CHOOSE y \in Value : Announces(d, v, y)) = x
    BY <1>1, AnnouncedOnce
  <2> QED
    BY <2>1, <2>2 DEF Received
<1>2. ASSUME NEW v \in Var, Silent(d, v)
      PROVE  Received(d, w)[v] = w[v]
  BY <1>2 DEF Received
<1>3. ASSUME NEW v \in Var
      PROVE  Received(d, w)[v] \in Value
  <2>1. CASE Silent(d, v)
    BY <2>1, <1>2
  <2>2. CASE ~Silent(d, v)
    BY <2>2, <1>1
  <2> QED
    BY <2>1, <2>2
<1>4. Received(d, w) = [v \in Var |-> Received(d, w)[v]]
  BY DEF Received
<1>5. Received(d, w) \in [Var -> Value]
  BY <1>3, <1>4
<1> QED
  BY <1>1, <1>2, <1>5

-----------------------------------------------------------------------------
(* The collector. *)

(* UPnPLastChangeCollector_notify, called with a complete builder document *)
(* d that together with what the control point knows accounts for the      *)
(* values c, keeps every change accounted for; with no open transaction    *)
(* nothing stays pending.                                                  *)
LEMMA NotifyKeepsTrack ==
  ASSUME TypeOK, RepeatIsHarmless,
         NEW d \in Seq(Entry), NEW k \in Nat, NEW c \in [Var -> Value],
         \A v \in Var : Silent(d, v) \/ \E x \in Value : Announces(d, v, x),
         \A v \in Evented : \/ Announces(d, v, c[v])
                            \/ Silent(d, v) /\ view[v] = c[v],
         Notify(d, k)
  PROVE  /\ lastChange' \in Seq(Entry) /\ doc' \in Seq(Entry)
         /\ view' \in [Var -> Value]
         /\ DocComplete' /\ RepeatIsHarmless'
         /\ \A v \in Evented : \/ Announces(doc', v, c[v])
                               \/ Silent(doc', v) /\ view'[v] = c[v]
         /\ k = 0 => /\ doc' = <<>>
                     /\ \A v \in Evented : view'[v] = c[v]
         /\ k # 0 => doc' = d /\ view' = view
<1> USE DEF TypeOK
<1>1. CASE k # 0
  BY <1>1 DEF Notify, DocComplete, RepeatIsHarmless
<1>2. ASSUME k = 0, d = <<>>
      PROVE  /\ \A v \in Var : Silent(d, v)
             /\ \A v \in Var, x \in Value : ~Announces(d, v, x)
  BY <1>2 DEF Silent, Announces
<1>3. Evented \subseteq Var
  BY DEF Evented
<1>4. CASE k = 0 /\ d = <<>>
  <2>1. doc' = d /\ lastChange' = lastChange /\ view' = view
    BY <1>4 DEF Notify
  <2>2. \A v \in Evented : Silent(d, v) /\ view[v] = c[v]
    BY <1>2, <1>3, <1>4
  <2> QED
    BY <2>1, <2>2, <1>2, <1>4 DEF DocComplete, RepeatIsHarmless
<1>5. CASE k = 0 /\ d # <<>>
  <2>1. /\ doc' = <<>>
        /\ lastChange' = d
        /\ view' = IF d = lastChange THEN view ELSE Received(d, view)
    BY <1>5 DEF Notify
  <2>2. /\ view' \in [Var -> Value]
        /\ \A v \in Var : Silent(d, v) => view'[v] = view[v]
        /\ \A v \in Var, x \in Value : Announces(d, v, x) => view'[v] = x
    <3>1. CASE d = lastChange
      BY <3>1, <2>1 DEF RepeatIsHarmless
    <3>2. CASE d # lastChange
      BY <3>2, <2>1, ReceivedValues
    <3> QED
      BY <3>1, <3>2
  <2>3. RepeatIsHarmless'
    BY <2>1, <2>2 DEF RepeatIsHarmless
  <2>4. \A v \in Var : Silent(doc', v)
    BY <2>1 DEF Silent
  <2>5. \A v \in Evented : view'[v] = c[v]
    BY <2>2, <1>3
  <2>6. doc' \in Seq(Entry) /\ lastChange' \in Seq(Entry)
    BY <2>1
  <2> QED
    BY <2>1, <2>2, <2>3, <2>4, <2>5, <2>6, <1>3, <1>5 DEF DocComplete
<1> QED
  BY <1>1, <1>4, <1>5

(* The finish that ends a critical section or a request. *)
LEMMA FinishKeepsTrack ==
  ASSUME Inv, openTransactions \in Nat \ {0}, values' = values, Finish
  PROVE  /\ lastChange' \in Seq(Entry) /\ doc' \in Seq(Entry)
         /\ view' \in [Var -> Value] /\ openTransactions' \in Nat
         /\ DocComplete' /\ PendingOrKnown' /\ RepeatIsHarmless'
         /\ PendingOnlyWhileOpen'
         /\ openTransactions' = 0 => \A v \in Evented : view'[v] = values[v]
         /\ openTransactions' # 0 => view' = view
<1>1. Notify(doc, openTransactions - 1) /\ openTransactions' = openTransactions - 1
  BY DEF Finish
<1>2. openTransactions - 1 \in Nat
  OBVIOUS
<1>3. TypeOK /\ RepeatIsHarmless /\ doc \in Seq(Entry) /\ values \in [Var -> Value]
  BY DEF Inv, TypeOK
<1>4. \A v \in Var : Silent(doc, v) \/ \E x \in Value : Announces(doc, v, x)
  BY DEF Inv, DocComplete
<1>5. \A v \in Evented : \/ Announces(doc, v, values[v])
                         \/ Silent(doc, v) /\ view[v] = values[v]
  BY DEF Inv, PendingOrKnown
<1> QED
  BY <1>1, <1>2, <1>3, <1>4, <1>5, NotifyKeepsTrack
     DEF PendingOrKnown, PendingOnlyWhileOpen

-----------------------------------------------------------------------------
(* The invariant. *)

LEMMA InitInv == Init => Inv
<1> SUFFICES ASSUME Init PROVE Inv
  OBVIOUS
<1> USE VariablesAssumption, ThreadsAssumption, BoundsAssumption DEF Init
<1>1. InitialDoc \in Seq(Entry)
  <2>1. \A i \in 1 .. NumVars : [var |-> i - 1, value |-> Initial[i - 1]] \in Entry
    BY DEF Entry, Var
  <2> QED
    BY <2>1 DEF InitialDoc
<1>2. \A v \in Var : Silent(doc, v)
  BY DEF Silent
<1>3. TypeOK
  BY <1>1 DEF TypeOK
<1>4. TransactionsBalanced
  BY FS_EmptySet DEF TransactionsBalanced
<1>5. RepeatIsHarmless
  <2>1. SUFFICES ASSUME NEW v \in Var, NEW x \in Value, Announces(lastChange, v, x)
                 PROVE  view[v] = x
    BY DEF RepeatIsHarmless
  <2>2. PICK i \in DOMAIN InitialDoc : InitialDoc[i] = [var |-> v, value |-> x]
    BY <2>1 DEF Announces
  <2>3. i \in 1 .. NumVars /\ InitialDoc[i] = [var |-> i - 1, value |-> Initial[i - 1]]
    BY DEF InitialDoc
  <2>4. InitialDoc[i].var = v /\ InitialDoc[i].value = x
    BY <2>2
  <2>5. v = i - 1 /\ x = Initial[i - 1]
    BY <2>3, <2>4
  <2> QED
    BY <2>5
<1>6. DocComplete /\ PendingOrKnown /\ PendingOnlyWhileOpen
  BY <1>2 DEF DocComplete, PendingOrKnown, PendingOnlyWhileOpen, Evented
<1> QED
  BY <1>3, <1>4, <1>5, <1>6 DEF Inv

(* The set of requests under way is finite, so it can be counted. *)
LEMMA ActionsFinite ==
  ASSUME TypeOK
  PROVE  /\ IsFiniteSet(inAction)
         /\ Cardinality(inAction) \in Nat
         /\ inAction # {} => Cardinality(inAction) > 0
<1>1. IsFiniteSet(inAction)
  BY ThreadsAssumption, FS_Subset DEF TypeOK
<1> QED
  BY <1>1, FS_CardinalityType, FS_EmptySet

LEMMA NextInv == Inv /\ [Next]_vars => Inv'
<1> SUFFICES ASSUME Inv, [Next]_vars PROVE Inv'
  OBVIOUS
<1>0. /\ IsFiniteSet(inAction)
      /\ Cardinality(inAction) \in Nat
      /\ inAction # {} => Cardinality(inAction) > 0
  BY ActionsFinite DEF Inv
<1>t. Requests \subseteq Threads /\ Workers \subseteq Threads /\ NoThread \notin Threads
  BY ThreadsAssumption DEF Threads
<1>1. CASE UNCHANGED vars
  BY <1>1 DEF vars, Inv, TypeOK, TransactionsBalanced, DocComplete,
     PendingOrKnown, RepeatIsHarmless, PendingOnlyWhileOpen
<1>2. ASSUME NEW t \in Requests, BeginAction(t)
      PROVE  Inv'
  <2>1. TypeOK'
    BY <1>2, BoundsAssumption DEF BeginAction, Inv, TypeOK
  <2>2. TransactionsBalanced'
    <3>1. Cardinality(inAction \cup {t}) = Cardinality(inAction) + 1
      BY <1>0, <1>2, FS_AddElement DEF BeginAction
    <3> QED
      BY <3>1, <1>0, <1>2 DEF BeginAction, Inv, TypeOK, TransactionsBalanced
  <2>3. DocComplete' /\ PendingOrKnown' /\ RepeatIsHarmless'
    BY <1>2 DEF BeginAction, Inv, DocComplete, PendingOrKnown, RepeatIsHarmless
  <2>4. PendingOnlyWhileOpen'
    BY <1>2 DEF BeginAction, Inv, TypeOK, PendingOnlyWhileOpen
  <2> QED
    BY <2>1, <2>2, <2>3, <2>4 DEF Inv
<1>3. ASSUME NEW t \in Requests, EndAction(t)
      PROVE  Inv'
  <2>1. openTransactions = Cardinality(inAction) /\ openTransactions \in Nat \ {0}
    BY <1>0, <1>3 DEF EndAction, Inv, TransactionsBalanced
  <2>2. Cardinality(inAction \ {t}) = Cardinality(inAction) - 1
    BY <1>0, <1>3, FS_RemoveElement DEF EndAction
  <2>3. values' = values /\ Finish
    BY <1>3 DEF EndAction
  <2>4. /\ lastChange' \in Seq(Entry) /\ doc' \in Seq(Entry)
        /\ view' \in [Var -> Value] /\ openTransactions' \in Nat
        /\ DocComplete' /\ PendingOrKnown' /\ RepeatIsHarmless'
        /\ PendingOnlyWhileOpen'
    BY <2>1, <2>3, FinishKeepsTrack
  <2>5. TypeOK'
    BY <1>3, <2>4 DEF EndAction, Inv, TypeOK
  <2>6. TransactionsBalanced'
    BY <1>0, <1>3, <2>1, <2>2, <2>3 DEF EndAction, Finish, TransactionsBalanced
  <2> QED
    BY <2>4, <2>5, <2>6 DEF Inv
<1>4. ASSUME NEW t \in Threads, ServiceLock(t)
      PROVE  Inv'
  <2>1. TypeOK'
    BY <1>4 DEF ServiceLock, Inv, TypeOK
  <2>2. TransactionsBalanced'
    BY <1>0, <1>4, <1>t DEF ServiceLock, Inv, TypeOK, TransactionsBalanced
  <2>3. DocComplete' /\ PendingOrKnown' /\ RepeatIsHarmless'
    BY <1>4 DEF ServiceLock, Inv, DocComplete, PendingOrKnown, RepeatIsHarmless
  <2>4. PendingOnlyWhileOpen'
    BY <1>4 DEF ServiceLock, Inv, TypeOK, PendingOnlyWhileOpen
  <2> QED
    BY <2>1, <2>2, <2>3, <2>4 DEF Inv
<1>5. ASSUME NEW t \in Threads, NEW v \in Var, NEW x \in Value, Change(t, v, x)
      PROVE  Inv'
  <2>1. /\ values' = [values EXCEPT ![v] = x] /\ values' \in [Var -> Value]
        /\ UNCHANGED <<openTransactions, mutex, inAction, begun>>
    BY <1>5 DEF Change, Inv, TypeOK
  <2>2. openTransactions \in Nat \ {0}
    BY <1>0, <1>5, <1>t DEF Change, Inv, TransactionsBalanced
  <2>3. TransactionsBalanced'
    BY <2>1 DEF Inv, TransactionsBalanced
  <2>4. CASE v \in Ignored
    <3>1. UNCHANGED <<doc, lastChange, view>>
      BY <1>5, <2>4 DEF Change, Collect
    <3>2. \A w \in Evented : values'[w] = values[w]
      BY <2>1, <2>4 DEF Evented, Inv, TypeOK
    <3>3. TypeOK'
      BY <2>1, <3>1 DEF Inv, TypeOK
    <3>4. PendingOrKnown'
      BY <3>1, <3>2 DEF Inv, PendingOrKnown
    <3>5. DocComplete' /\ RepeatIsHarmless' /\ PendingOnlyWhileOpen'
      BY <2>1, <3>1 DEF Inv, DocComplete, RepeatIsHarmless, PendingOnlyWhileOpen
    <3> QED
      BY <2>3, <3>3, <3>4, <3>5 DEF Inv
  <2>5. CASE v \notin Ignored
    <3> DEFINE e == Append(doc, [var |-> v, value |-> x])
    <3>1. Notify(e, openTransactions)
      BY <1>5, <2>5 DEF Change, Collect
    <3>2. /\ e \in Seq(Entry)
          /\ Announces(e, v, x)
          /\ \A w \in Var \ {v}, y \in Value : Announces(doc, w, y) => Announces(e, w, y)
          /\ \A w \in Var \ {v} : Silent(doc, w) => Silent(e, w)
      BY AppendEntry DEF Inv, TypeOK
    <3> HIDE DEF e
    <3>3. \A w \in Var : Silent(e, w) \/ \E y \in Value : Announces(e, w, y)
      BY <3>2 DEF Inv, DocComplete
    <3>4. \A w \in Evented : \/ Announces(e, w, values'[w])
                             \/ Silent(e, w) /\ view[w] = values'[w]
      <4>1. SUFFICES ASSUME NEW w \in Evented
                     PROVE  \/ Announces(e, w, values'[w])
                            \/ Silent(e, w) /\ view[w] = values'[w]
        OBVIOUS
      <4>2. w \in Var /\ values[w] \in Value
        BY DEF Evented, Inv, TypeOK
      <4>3. CASE w = v
        BY <4>3, <2>1, <3>2, <4>2 DEF Inv, TypeOK
      <4>4. CASE w # v
        <5>1. values'[w] = values[w]
          BY <4>4, <4>2, <2>1 DEF Inv, TypeOK
        <5>2. \/ Announces(doc, w, values[w])
              \/ Silent(doc, w) /\ view[w] = values[w]
          BY DEF Inv, PendingOrKnown
        <5> QED
          BY <5>1, <5>2, <3>2, <4>2, <4>4
      <4> QED
        BY <4>3, <4>4
    <3>5. TypeOK /\ RepeatIsHarmless /\ openTransactions \in Nat
      BY <2>2 DEF Inv
    <3>6. /\ lastChange' \in Seq(Entry) /\ doc' \in Seq(Entry)
          /\ view' \in [Var -> Value]
          /\ DocComplete' /\ RepeatIsHarmless'
          /\ \A w \in Evented : \/ Announces(doc', w, values'[w])
                                \/ Silent(doc', w) /\ view'[w] = values'[w]
      <4>1. PICK c \in [Var -> Value] : c = values'
        BY <2>1
      <4>2. \A w \in Evented : \/ Announces(e, w, c[w])
                               \/ Silent(e, w) /\ view[w] = c[w]
        BY <3>4, <4>1
      <4>3. /\ lastChange' \in Seq(Entry) /\ doc' \in Seq(Entry)
            /\ view' \in [Var -> Value]
            /\ DocComplete' /\ RepeatIsHarmless'
            /\ \A w \in Evented : \/ Announces(doc', w, c[w])
                                  \/ Silent(doc', w) /\ view'[w] = c[w]
        BY <3>1, <3>2, <3>3, <3>5, <4>2, NotifyKeepsTrack
      <4> QED
        BY <4>1, <4>3
    <3>7. TypeOK'
      BY <2>1, <3>6 DEF Inv, TypeOK
    <3>8. PendingOrKnown'
      BY <3>6 DEF PendingOrKnown
    <3>9. PendingOnlyWhileOpen'
      BY <2>1, <2>2 DEF PendingOnlyWhileOpen
    <3> QED
      BY <2>3, <3>6, <3>7, <3>8, <3>9 DEF Inv
  <2> QED
    BY <2>4, <2>5
<1>6. ASSUME NEW t \in Threads, ServiceUnlock(t)
      PROVE  Inv'
  <2>1. mutex # NoThread /\ mutex' = NoThread /\ UNCHANGED <<values, inAction, begun>>
    BY <1>6, <1>t DEF ServiceUnlock
  <2>2. /\ openTransactions = Cardinality(inAction) + 1
        /\ openTransactions \in Nat \ {0}
    BY <1>0, <2>1 DEF Inv, TransactionsBalanced
  <2>3. Finish
    BY <1>6 DEF ServiceUnlock
  <2>4. /\ lastChange' \in Seq(Entry) /\ doc' \in Seq(Entry)
        /\ view' \in [Var -> Value] /\ openTransactions' \in Nat
        /\ DocComplete' /\ PendingOrKnown' /\ RepeatIsHarmless'
        /\ PendingOnlyWhileOpen'
    BY <2>1, <2>2, <2>3, FinishKeepsTrack
  <2>5. TypeOK'
    BY <2>1, <2>4 DEF Inv, TypeOK
  <2>6. TransactionsBalanced'
    BY <1>0, <2>1, <2>2, <2>3 DEF Finish, TransactionsBalanced
  <2> QED
    BY <2>4, <2>5, <2>6 DEF Inv
<1> QED
  BY <1>1, <1>2, <1>3, <1>4, <1>5, <1>6 DEF Next

(* Inv holds in every reachable state. *)
THEOREM Invariance == Spec => []Inv
<1> QED
  BY InitInv, NextInv, PTL DEF Spec

(* Type correctness. *)
THEOREM TypeCorrect == Spec => []TypeOK
<1>1. Inv => TypeOK
  BY DEF Inv
<1> QED
  BY <1>1, Invariance, PTL

(* The nesting counter counts the requests under way and the critical      *)
(* section; the assertion in UPnPLastChangeCollector_finish cannot fire.   *)
THEOREM Balance == Spec => []TransactionsBalanced
<1>1. Inv => TransactionsBalanced
  BY DEF Inv
<1> QED
  BY <1>1, Invariance, PTL

(* Every change to an evented variable is pending or known. *)
THEOREM NothingLost == Spec => []PendingOrKnown
<1>1. Inv => PendingOrKnown
  BY DEF Inv
<1> QED
  BY <1>1, Invariance, PTL

(* Dropping a document equal to the last one never loses a change.         *)
THEOREM RepeatsHarmless == Spec => []RepeatIsHarmless
<1>1. Inv => RepeatIsHarmless
  BY DEF Inv
<1> QED
  BY <1>1, Invariance, PTL

(* With no transaction open nothing is pending and the control point knows *)
(* every evented variable.                                                 *)
THEOREM RestInSync == Spec => []AtRestInSync
<1>1. ASSUME Inv, openTransactions = 0
      PROVE  doc = <<>> /\ \A v \in Evented : view[v] = values[v]
  <2>1. doc = <<>>
    BY <1>1 DEF Inv, PendingOnlyWhileOpen
  <2>2. \A v \in Evented : ~Announces(doc, v, values[v])
    BY <2>1 DEF Announces
  <2> QED
    BY <1>1, <2>1, <2>2 DEF Inv, PendingOrKnown
<1>2. Inv => AtRestInSync
  BY <1>1 DEF AtRestInSync
<1> QED
  BY <1>2, Invariance, PTL

-----------------------------------------------------------------------------
(* The refinement. *)

LEMMA InitRefines == Init => A!AInit
<1> SUFFICES ASSUME Init PROVE A!AInit
  OBVIOUS
<1> QED
  BY DEF Init, A!AInit

LEMMA StepRefines == Inv /\ [Next]_vars => [A!ANext]_(A!avars)
<1> SUFFICES ASSUME Inv, [Next]_vars PROVE [A!ANext]_(A!avars)
  OBVIOUS
<1> USE DEF A!avars
<1>0. /\ Cardinality(inAction) \in Nat
      /\ inAction # {} => Cardinality(inAction) > 0
      /\ IsFiniteSet(inAction)
  BY ActionsFinite DEF Inv
<1>t. Requests \subseteq Threads /\ Workers \subseteq Threads /\ NoThread \notin Threads
  BY ThreadsAssumption DEF Threads
<1>e. Evented \subseteq Var
  BY DEF Evented
<1>1. CASE UNCHANGED vars
  BY <1>1 DEF vars
<1>2. ASSUME NEW t \in Requests, BeginAction(t)
      PROVE  A!Start
  BY <1>2 DEF BeginAction, A!Start
<1>3. ASSUME NEW t \in Threads, ServiceLock(t)
      PROVE  A!Start
  BY <1>3, <1>t DEF ServiceLock, A!Start
<1>4. ASSUME NEW t \in Threads, NEW v \in Var, NEW x \in Value, Change(t, v, x)
      PROVE  A!Update \/ UNCHANGED A!avars
  <2>1. /\ values' = [values EXCEPT ![v] = x]
        /\ UNCHANGED <<openTransactions, mutex, inAction, begun>>
        /\ values \in [Var -> Value]
    BY <1>4 DEF Change, Inv, TypeOK
  <2>2. mutex # NoThread /\ openTransactions # 0
    BY <1>0, <1>4, <1>t DEF Change, Inv, TransactionsBalanced
  <2>3. view' = view
    BY <1>4, <2>2 DEF Change, Collect, Notify
  <2>4. CASE v \in Evented
    <3>1. [w \in Evented |-> values'[w]] = [[w \in Evented |-> values[w]] EXCEPT ![v] = x]
      BY <2>1, <2>4, <1>e
    <3> QED
      BY <3>1, <2>1, <2>2, <2>3, <2>4 DEF A!Update
  <2>5. CASE v \notin Evented
    <3>1. \A w \in Evented : values'[w] = values[w]
      BY <2>1, <2>5, <1>e
    <3>2. [w \in Evented |-> values'[w]] = [w \in Evented |-> values[w]]
      BY <3>1
    <3> QED
      BY <3>2, <2>1, <2>3
  <2> QED
    BY <2>4, <2>5
<1>5. ASSUME mutex # NoThread \/ inAction # {},
             openTransactions \in Nat \ {0}, values' = values, Finish,
             openTransactions' = 0 <=> mutex' = NoThread /\ inAction' = {}
      PROVE  A!Settle \/ UNCHANGED A!avars
  <2>1. /\ openTransactions' = 0 => \A v \in Evented : view'[v] = values[v]
        /\ openTransactions' # 0 => view' = view
    BY <1>5, FinishKeepsTrack
  <2>2. CASE openTransactions' = 0
    <3>1. [v \in Evented |-> view'[v]] = [v \in Evented |-> values[v]]
      BY <2>1, <2>2
    <3> QED
      BY <3>1, <1>5, <2>2 DEF A!Settle
  <2>3. CASE openTransactions' # 0
    BY <1>5, <2>1, <2>3
  <2> QED
    BY <2>2, <2>3
<1>6. ASSUME NEW t \in Requests, EndAction(t)
      PROVE  A!Settle \/ UNCHANGED A!avars
  <2>1. openTransactions = Cardinality(inAction) /\ openTransactions \in Nat \ {0}
    BY <1>0, <1>6 DEF EndAction, Inv, TransactionsBalanced
  <2>2. Cardinality(inAction \ {t}) = Cardinality(inAction) - 1
    BY <1>0, <1>6, FS_RemoveElement DEF EndAction
  <2>3. /\ inAction' = inAction \ {t} /\ mutex' = NoThread /\ values' = values
        /\ Finish /\ openTransactions' = Cardinality(inAction')
    BY <1>6, <2>1, <2>2 DEF EndAction, Finish
  <2>4. IsFiniteSet(inAction')
    BY <1>0, <2>3, FS_RemoveElement
  <2>5. openTransactions' = 0 <=> inAction' = {}
    BY <2>3, <2>4, FS_EmptySet
  <2> QED
    BY <1>5, <1>6, <2>1, <2>3, <2>5 DEF EndAction
<1>7. ASSUME NEW t \in Threads, ServiceUnlock(t)
      PROVE  A!Settle \/ UNCHANGED A!avars
  <2>1. mutex # NoThread /\ mutex' = NoThread /\ values' = values /\ inAction' = inAction
    BY <1>7, <1>t DEF ServiceUnlock
  <2>2. /\ openTransactions = Cardinality(inAction) + 1
        /\ openTransactions \in Nat \ {0}
    BY <1>0, <2>1 DEF Inv, TransactionsBalanced
  <2>3. Finish /\ openTransactions' = Cardinality(inAction)
    BY <1>0, <1>7, <2>2 DEF ServiceUnlock, Finish
  <2>4. openTransactions' = 0 <=> inAction' = {}
    BY <1>0, <2>1, <2>3, FS_EmptySet
  <2> QED
    BY <1>5, <2>1, <2>2, <2>3, <2>4
<1> QED
  BY <1>1, <1>2, <1>3, <1>4, <1>6, <1>7 DEF Next, A!ANext

(* LastChange implements Announcer: events go out only when the last       *)
(* transaction is over, and then bring the control point up to date.       *)
THEOREM Refinement == Spec => AnnouncerSpec
<1> QED
  BY InitRefines, StepRefines, Invariance, PTL DEF Spec, AnnouncerSpec, A!ASpec
=============================================================================
