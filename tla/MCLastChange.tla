---------------------------- MODULE MCLastChange ----------------------------
(* Small instances of LastChange: two evented variables and one that is    *)
(* ignored, as RelativeTimePosition is; two requests that overlap and the  *)
(* track-time thread.                                                      *)
EXTENDS LastChange

CONSTANTS r1, r2, w1, a, b

MCRequests == {r1, r2}
MCWorkers == {w1}
MCValue == {a, b}
MCInitial == [v \in 0 .. NumVars - 1 |-> a]
MCIgnored == {NumVars - 1}
=============================================================================
