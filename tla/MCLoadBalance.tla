--------------------------- MODULE MCLoadBalance ---------------------------
(* Bounds for model-checking the server table with its history.             *)
EXTENDS LoadBalanceHistory

CONSTANTS s1, s2, s3

MCEntity3 == {s1, s2, s3}
MCOneRealm == {0}
MCRealms == {0, 1}
MCGlobal == {"LOADBALANCE"}
MCMixed == {"CHAT", "WORLD", "INSTANCE"}

Symmetry3 == Permutations(MCEntity3)
=============================================================================
