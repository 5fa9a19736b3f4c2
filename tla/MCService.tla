----------------------------- MODULE MCService -----------------------------
(* Bounds for model-checking the service.                                   *)
EXTENDS ServiceDirectory

CONSTANTS e1, e2, e3

MCEntity3 == {e1, e2, e3}
MCRealms == {0, 1}
MCOneRealm == {0}
MCGlobalAndRealm == {"LOADBALANCE", "WORLD"}
MCGlobalOnly == {"LOADBALANCE", "CHAT"}

Symmetry == Permutations(Entity)
=============================================================================
