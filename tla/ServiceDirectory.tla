-------------------------- MODULE ServiceDirectory --------------------------
(***************************************************************************)
(* The service implements Directory, seen from the buffers: the copy of a  *)
(* load balancer is what it will know when everything queued for it has    *)
(* arrived.  Where nothing exceeds one full list (FullLimit).              *)
(***************************************************************************)
EXTENDS Service

LoadBalancing == { e \in Entity : status[e] = "CONNECTED" /\ info[e].type = "LOADBALANCE" }

(* Load balancers are listed too, but are not announced when they arrive. *)
Announced(s) == info[s].type # "LOADBALANCE"

Members == { s \in Entity : status[s] = "CONNECTED" /\ Announced(s) }

(* Nothing is missing of a server that serves no realm. *)
WillLocate(e, s) == WillKnow(e, s) /\ (ServesRealm(s) => WillPlace(e, s))

D == INSTANCE Directory WITH
       Peer <- Entity,
       members <- Members,
       leftBehind <- { s \in Entity : Stale(s) },
       subscribers <- LoadBalancing,
       copies <- [e \in Entity |-> IF e \in LoadBalancing
                                   THEN { s \in KnownAfter(e) : Announced(s) } ELSE {}],
       located <- [e \in Entity |-> IF e \in LoadBalancing
                                    THEN { s \in Members : WillLocate(e, s) } ELSE {}]

(* Every step of the service - a registration with its notices, a drop with  *)
(* its notices, a full list sent past the buffer, an early send, a timer -   *)
(* is one step of the directory or none: no load balancer ever misses an     *)
(* arrival or a departure the others are told of, and a full list that       *)
(* overtakes buffered notices never brings a copy behind the others; it      *)
(* costs realms, but only of servers in it.                                  *)
KeepsDirectory == D!Spec
=============================================================================
