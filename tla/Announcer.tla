----------------------------- MODULE Announcer -----------------------------
(***************************************************************************)
(* What the LastChange machinery promises to a control point, with none of *)
(* the machinery: while somebody is at work on the state variables of a    *)
(* service the control point hears nothing; at the moment the last one is  *)
(* done it is brought up to date completely.                               *)
(***************************************************************************)

CONSTANTS Evented,   \* the state variables of the service that are evented
          Value,     \* the values they take
          Initial    \* the value of every variable at the start

VARIABLES actual,    \* the state variables of the device
          known,     \* what the control point believes them to be
          busy       \* an action or a background update is under way

avars == <<actual, known, busy>>

AInit == /\ actual = [v \in Evented |-> Initial[v]]
         /\ known = actual
         /\ busy = FALSE

(* Work starts. *)
Start == /\ busy' = TRUE
         /\ UNCHANGED <<actual, known>>

(* One variable changes; the control point does not hear of it yet. *)
Update == /\ busy
          /\ \E v \in Evented, x \in Value : actual' = [actual EXCEPT ![v] = x]
          /\ UNCHANGED <<known, busy>>

(* Work ends: the control point learns every change at once. *)
Settle == /\ busy
          /\ busy' = FALSE
          /\ known' = actual
          /\ UNCHANGED actual

ANext == Start \/ Update \/ Settle

ASpec == AInit /\ [][ANext]_avars
=============================================================================
