----------------------------- MODULE MCStartup -----------------------------
(* Two evented variables, two requests that may come at any time; one      *)
(* service description of two bytes, an icon, which may be empty; filters  *)
(* that let a root through, add, remove, and leave nothing; one root ends  *)
(* in the middle of a word, one is longer than the type it lets through.   *)
EXTENDS Lifecycle

CONSTANTS r1, r2, a, b, icon, scpd

MCRequests == {r1, r2}
MCValue == {a, b}
MCInitial == [v \in 0 .. NumVars - 1 |-> a]

MCIcons == {icon}
MCScpds == {scpd}
MCContent == (icon :> <<>>) @@ (scpd :> <<1, 2>>)
MCBuffers == {1, 3}
MCOffsets == {-1, 1}

Ogg == <<"video/ogg">>
MCSinks == {{Mpeg, Ogg}}
MCFilters == {<<>>,
              <<<<"", <<"aud">>>>, <<"-", Mpeg>>, <<"+", Mpeg>>, <<"+", Ogg>>>>,
              <<<<"", Mpeg \o <<";rate">>>>, <<"-", Mpeg>>>>}
=============================================================================
