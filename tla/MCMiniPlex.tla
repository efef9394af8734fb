----------------------------- MODULE MCMiniPlex -----------------------------
(* A trunk and two permanent branches, which stand for other endpoints too in *)
(* the modes without a trunk; two application addresses for Switch mode.      *)
EXTENDS MiniPlex
CONSTANTS t, p1, p2, a1, a2
MCEndpoints == {t, p1, p2}
MCPerma == {p1, p2}
=============================================================================
