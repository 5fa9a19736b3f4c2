-------------------------- MODULE MCServiceLookup --------------------------
(* Bounds for model-checking lookups.  With two connections, a load balancer *)
(* and a client of it, or two load balancers; a load balancer may ask too.   *)
EXTENDS ServiceLookup

CONSTANTS e1, e2, e3

MCEntity2 == {e1, e2}
MCEntity3 == {e1, e2, e3}
MCOneRealm == {0}
MCGlobalAndRealm == {"LOADBALANCE", "WORLD"}

Symmetry == Permutations(Entity)
=============================================================================
