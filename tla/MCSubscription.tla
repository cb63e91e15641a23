--------------------------- MODULE MCSubscription ---------------------------
(* Small instances of Subscription: one or two control points that         *)
(* subscribe while a request and the track-time thread are at work.        *)
EXTENDS Subscription

CONSTANTS r1, w1, s1, s2, a, b

MCRequest == {r1}
MCWorkers == {w1}
MCOne == {s1}
MCTwo == {s1, s2}
MCValue == {a, b}
MCInitial == [v \in 0 .. NumVars - 1 |-> a]
MCNoneIgnored == {}
=============================================================================
