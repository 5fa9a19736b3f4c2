--------------------------- MODULE ServiceProofs ---------------------------
(***************************************************************************)
(* The invariant of the service, proved for every set of entities and      *)
(* realms and every size of the buffers; and with it, of address lookups,  *)
(* whom an answer is for and what a failed lookup means.                   *)
(***************************************************************************)
EXTENDS ServiceLookup, LoadBalanceProofs

-----------------------------------------------------------------------------
(* The invariant by groups of variables: an action disturbs few of them.     *)

ConnectionTypes ==
  /\ status \in [Entity -> Status]
  /\ closed \in [Entity -> BOOLEAN]
  /\ info \in [Entity -> Info \cup {NoInfo}]

TickTypes ==
  /\ dropQueue \in Seq(Entity)
  /\ phase \in Phase
  /\ todo \subseteq Entity
  /\ visiting \in Entity \cup {NoEntity}

PeerTypes ==
  /\ outbox \in [Entity -> Seq(Message)]
  /\ held \in [Entity -> 0 .. FlushTime - 1]
  /\ view \in [Entity -> SUBSET Entity]
  /\ placed \in [Entity -> SUBSET Entity]
  /\ relisted \in [Entity -> SUBSET Entity]
  /\ asked \in [Entity -> SUBSET Entity]

RestTypes == outOfRange \in BOOLEAN /\ requests \in 0 .. MaxRequests /\ fault \in Fault

(* TableMatchesRegistry without the repetitions, which TableOK speaks of.    *)
Matches ==
  /\ \A e \in Entity : info[e] # NoInfo => e \in Listed(info[e].type, info[e].realm)
  /\ \A t \in AddressType, r \in Realm : \A e \in ToSet(list[t][r]) :
       \/ info[e] = [type |-> t, realm |-> r]
       \/ r # 0 /\ t \in RealmTypes /\ status[e] = "DESTROYED"

(* The invariant is the conjunction of its groups.                           *)
LEMMA InvGroups ==
  ServiceInv <=> /\ TableOK /\ ConnectionTypes /\ TickTypes /\ PeerTypes /\ RestTypes
                 /\ RegistryAccessSafe /\ Matches /\ TickOK /\ ComponentsOK
BY DEF ServiceInv, ServiceTypeOK, LBTypeOK, TableOK, TableTypeOK, NoRepetition,
       ConnectionTypes, TickTypes, PeerTypes, RestTypes, TableMatchesRegistry, Matches

(* The same for the next state. *)
LEMMA InvGroupsNext ==
  ServiceInv' <=> /\ TableOK' /\ ConnectionTypes' /\ TickTypes' /\ PeerTypes' /\ RestTypes'
                  /\ RegistryAccessSafe' /\ Matches' /\ TickOK' /\ ComponentsOK'
BY DEF ServiceInv, ServiceTypeOK, LBTypeOK, TableOK, TableTypeOK, NoRepetition,
       ConnectionTypes, TickTypes, PeerTypes, RestTypes, TableMatchesRegistry, Matches

-----------------------------------------------------------------------------
(* Groups that stay as they are.                                             *)

(* The table is well formed as long as it is not touched.                    *)
LEMMA TableUnchanged == ASSUME TableOK, UNCHANGED tableVars PROVE TableOK'
BY DEF TableOK, TableTypeOK, NoRepetition, tableVars

(* The same for the state of the connections ...                             *)
LEMMA ConnectionUnchanged ==
  ASSUME ConnectionTypes, UNCHANGED connectionVars PROVE ConnectionTypes'
BY DEF ConnectionTypes, connectionVars

(* ... for the state of the tick ...                                         *)
LEMMA TickTypesUnchanged == ASSUME TickTypes, UNCHANGED tickVars PROVE TickTypes'
BY DEF TickTypes, tickVars

(* ... for the buffers and the peers ...                                     *)
LEMMA PeersUnchanged == ASSUME PeerTypes, UNCHANGED peerVars PROVE PeerTypes'
BY DEF PeerTypes, peerVars, copyVars

(* ... and for the agreement of table and components.                        *)
LEMMA MatchesUnchanged ==
  ASSUME Matches, UNCHANGED <<list, info, status>> PROVE Matches'
BY DEF Matches, Listed, Servers, Key

(* A change of status that neither destroys nor revives. *)
LEMMA TickUnchanged ==
  ASSUME TickOK, UNCHANGED tickVars, UNCHANGED closed, Alive \subseteq Alive'
  PROVE  TickOK'
BY DEF TickOK, tickVars

(* Queueing a packet keeps the types of buffers, timers and peers.           *)
LEMMA AddPacketTypes ==
  ASSUME PeerTypes, NEW targets, NEW gone, NEW m \in Message,
         AddPacketAndRelease(targets, m, gone)
  PROVE  PeerTypes'
<1>1. outbox' \in [Entity -> Seq(Message)]
  <2>1. ASSUME NEW e \in Entity PROVE Append(outbox[e], m) \in Seq(Message)
    BY DEF PeerTypes
  <2>2. <<m>> \in Seq(Message) /\ <<>> \in Seq(Message) OBVIOUS
  <2> QED BY <2>1, <2>2 DEF AddPacketAndRelease, PeerTypes
<1>2. held' \in [Entity -> 0 .. FlushTime - 1]
  BY BoundsAssumption DEF AddPacketAndRelease, PeerTypes
<1>3. view' \in [Entity -> SUBSET Entity]
  BY DEF AddPacketAndRelease, PeerTypes, KnownAfter
<1>4. asked' \in [Entity -> SUBSET Entity]
  BY DEF AddPacketAndRelease, PeerTypes, AskedAfter
<1>5. placed' \in [Entity -> SUBSET Entity]
  BY DEF AddPacketAndRelease, PeerTypes, PlacedAfter
<1>6. relisted' \in [Entity -> SUBSET Entity]
  BY DEF AddPacketAndRelease, PeerTypes
<1> QED BY <1>1, <1>2, <1>3, <1>4, <1>5, <1>6 DEF PeerTypes

(* Their component says that the listed load balancers are load balancers.   *)
LEMMA BalancerInfo ==
  ASSUME TableOK, Matches, NEW e \in LoadBalancers
  PROVE  e \in Entity /\ info[e] = [type |-> "LOADBALANCE", realm |-> 0]
<1>1. /\ "LOADBALANCE" \in AddressType /\ 0 \in Realm /\ Key("LOADBALANCE", 0) = 0
      /\ "LOADBALANCE" \notin RealmTypes
  BY RealmAssumption DEF AddressType, GlobalTypes, RealmTypes, Key
<1>2. e \in ToSet(list["LOADBALANCE"][0]) BY <1>1 DEF LoadBalancers, Listed, Servers
<1>3. list["LOADBALANCE"][0] \in Seq(Entity) BY <1>1 DEF TableOK, TableTypeOK
<1>4. e \in Entity BY <1>2, <1>3 DEF ToSet
<1>5. info[e] = [type |-> "LOADBALANCE", realm |-> 0] BY <1>1, <1>2 DEF Matches
<1> QED BY <1>4, <1>5

(* The listed load balancers are alive: their type has no realms, so a drop  *)
(* takes them off the list.                                                  *)
LEMMA LoadBalancersAlive ==
  ASSUME TableOK, Matches, ComponentsOK PROVE LoadBalancers \subseteq Alive
<1>1. ASSUME NEW e \in LoadBalancers PROVE e \in Alive
  <2>1. e \in Entity /\ info[e] = [type |-> "LOADBALANCE", realm |-> 0] BY BalancerInfo
  <2>2. info[e] # NoInfo BY <2>1 DEF NoInfo
  <2> QED BY <2>1, <2>2 DEF ComponentsOK
<1> QED BY <1>1

(* Get gives a listed load balancer, if it gives one.                        *)
LEMMA PickedListed ==
  ASSUME TableOK, GetServer("LOADBALANCE", 0)
  PROVE  Picked("LOADBALANCE", 0) \in LoadBalancers
<1>1. /\ "LOADBALANCE" \in AddressType /\ 0 \in Realm
      /\ "LOADBALANCE" \in GlobalTypes /\ "LOADBALANCE" \notin RealmTypes
      /\ Key("LOADBALANCE", 0) = 0
  BY RealmAssumption DEF AddressType, GlobalTypes, RealmTypes, Key
<1>2. Servers("LOADBALANCE", 0) \in Seq(Entity)
  BY <1>1 DEF TableOK, TableTypeOK, Servers
<1>3. cursor["LOADBALANCE"] \in Nat /\ cursor["LOADBALANCE"] < Len(Servers("LOADBALANCE", 0))
  BY <1>1 DEF TableOK, TableTypeOK, GetServer, CursorValid, CursorOf
<1>4. cursor["LOADBALANCE"] + 1 \in DOMAIN Servers("LOADBALANCE", 0) BY <1>2, <1>3
<1>5. Picked("LOADBALANCE", 0) = Servers("LOADBALANCE", 0)[cursor["LOADBALANCE"] + 1]
  BY <1>1 DEF Picked, CursorOf
<1> QED BY <1>4, <1>5 DEF LoadBalancers, Listed, ToSet

(* Whatever is listed is an entity.                                          *)
LEMMA AllListedEntities == ASSUME TableOK PROVE AllListed \subseteq Entity
<1>1. ASSUME NEW t \in AddressType, NEW r \in Realm PROVE Listed(t, r) \subseteq Entity
  <2>1. list[t][Key(t, r)] \in Seq(Entity) BY KeyInRealm DEF TableOK, TableTypeOK
  <2> QED BY <2>1 DEF Listed, Servers, ToSet
<1> QED BY <1>1 DEF AllListed

-----------------------------------------------------------------------------
(* The invariant holds when the service starts.                              *)
LEMMA InitInv == ServiceInit => ServiceInv
<1> SUFFICES ASSUME ServiceInit PROVE ServiceInv OBVIOUS
<1>1. TableOK BY TableInitOK DEF ServiceInit, LBInit
<1>2. ConnectionTypes BY DEF ServiceInit, ConnectionTypes, Status
<1>3. TickTypes BY DEF ServiceInit, TickTypes, Phase
<1>4. PeerTypes BY BoundsAssumption DEF ServiceInit, PeerTypes
<1>5. RestTypes /\ RegistryAccessSafe
  <2>1. outOfRange \in BOOLEAN BY Zenon DEF ServiceInit, LBInit
  <2>2. requests \in 0 .. MaxRequests /\ fault \in Fault /\ RegistryAccessSafe
    BY BoundsAssumption DEF ServiceInit, RegistryAccessSafe, Fault
  <2> QED BY <2>1, <2>2 DEF RestTypes
<1>6. Matches
  <2>1. \A t \in AddressType, r \in Realm : list[t][r] = <<>> BY DEF ServiceInit, LBInit, TableInit
  <2>2. ToSet(<<>>) = {} BY DEF ToSet
  <2>3. \A e \in Entity : info[e] = NoInfo BY DEF ServiceInit
  <2> QED BY <2>1, <2>2, <2>3 DEF Matches
<1>7. TickOK BY DEF ServiceInit, TickOK, ToSet, IsInjective
<1>8. ComponentsOK BY DEF ServiceInit, ComponentsOK
<1> QED BY <1>1, <1>2, <1>3, <1>4, <1>5, <1>6, <1>7, <1>8, InvGroups

-----------------------------------------------------------------------------
(* An action that leaves the table and the components alone.                 *)
LEMMA RegistryUnchanged ==
  ASSUME ServiceInv, UNCHANGED <<LBvars, connectionVars, fault>>,
         TickTypes', PeerTypes', requests' \in 0 .. MaxRequests, TickOK'
  PROVE  ServiceInv'
<1>0. /\ TableOK /\ ConnectionTypes /\ RestTypes /\ RegistryAccessSafe
      /\ Matches /\ ComponentsOK
  BY InvGroups
<1>1. TableOK' BY <1>0, TableUnchanged DEF LBvars, tableVars
<1>2. ConnectionTypes' BY <1>0, ConnectionUnchanged
<1>3. RestTypes' BY <1>0 DEF RestTypes, LBvars
<1>4. RegistryAccessSafe' BY <1>0 DEF RegistryAccessSafe
<1>5. Matches' BY <1>0, MatchesUnchanged DEF LBvars, connectionVars
<1>6. ComponentsOK' BY <1>0 DEF ComponentsOK, connectionVars, Alive, IsAlive
<1> QED BY <1>1, <1>2, <1>3, <1>4, <1>5, <1>6, InvGroupsNext

-----------------------------------------------------------------------------
(* Accept thread and visits.                                                 *)

(* A new client waits to become an entity.                                   *)
LEMMA HandleConnectionInv ==
  ASSUME ServiceInv, NEW e \in Entity, HandleConnection(e) PROVE ServiceInv'
<1>0. /\ TableOK /\ ConnectionTypes /\ TickTypes /\ PeerTypes /\ RestTypes
      /\ RegistryAccessSafe /\ Matches /\ TickOK /\ ComponentsOK
  BY InvGroups
<1> USE DEF HandleConnection
<1>1. TableOK' BY <1>0, TableUnchanged DEF LBvars, tableVars
<1>2. ConnectionTypes' BY <1>0 DEF ConnectionTypes, Status
<1>3. TickTypes' /\ PeerTypes' BY <1>0, TickTypesUnchanged, PeersUnchanged
<1>4. RestTypes' /\ RegistryAccessSafe' BY <1>0 DEF RestTypes, RegistryAccessSafe, LBvars
<1>5. Alive' = Alive BY <1>0 DEF Alive, IsAlive, ConnectionTypes
<1>6. Matches' BY <1>0 DEF Matches, Listed, Servers, Key, LBvars, ConnectionTypes
<1>7. TickOK' BY <1>0, <1>5, TickUnchanged
<1>8. ComponentsOK' BY <1>0, <1>5 DEF ComponentsOK, ConnectionTypes
<1> QED BY <1>1, <1>2, <1>3, <1>4, <1>6, <1>7, <1>8, InvGroupsNext

(* The entity that is visited next leaves the set of those to visit.         *)
LEMMA BeginVisitInv ==
  ASSUME ServiceInv, NEW e \in Entity, BeginVisit(e) PROVE ServiceInv'
<1>0. /\ ConnectionTypes /\ TickTypes /\ PeerTypes /\ RestTypes /\ TickOK BY InvGroups
<1> USE DEF BeginVisit
<1>1. TickTypes' BY <1>0 DEF TickTypes
<1>2. PeerTypes' BY <1>0, PeersUnchanged
<1>3. Alive' = Alive BY DEF Alive, IsAlive, connectionVars
<1>4. TickOK' BY <1>0, <1>3 DEF TickOK, connectionVars
<1>5. requests' \in 0 .. MaxRequests BY <1>0 DEF RestTypes
<1> QED BY <1>1, <1>2, <1>4, <1>5, RegistryUnchanged

(* A noticed disconnect moves an entity from the visits to the drops.        *)
LEMMA HandleDisconnectInv ==
  ASSUME ServiceInv, NEW e \in Entity, HandleDisconnect(e) PROVE ServiceInv'
<1>0. /\ ConnectionTypes /\ TickTypes /\ PeerTypes /\ RestTypes /\ TickOK BY InvGroups
<1> USE DEF HandleDisconnect
<1>1. TickTypes' BY <1>0 DEF TickTypes
<1>2. PeerTypes' BY <1>0, PeersUnchanged
<1>3. Alive' = Alive BY DEF Alive, IsAlive, connectionVars
<1>4. TickOK'
  <2>1. dropQueue \in Seq(Entity) /\ IsInjective(dropQueue) /\ e \notin ToSet(dropQueue)
    BY <1>0 DEF TickTypes, TickOK
  <2>2. /\ IsInjective(dropQueue')
        /\ ToSet(dropQueue') = ToSet(dropQueue) \cup {e}
    BY <2>1, AppendFresh
  <2>3. e \in Alive BY <1>0 DEF TickOK
  <2> QED BY <1>0, <1>3, <2>2, <2>3 DEF TickOK, connectionVars
<1>5. requests' \in 0 .. MaxRequests BY <1>0 DEF RestTypes
<1> QED BY <1>1, <1>2, <1>4, <1>5, RegistryUnchanged

(* The end of a visit touches one buffer, its timer and its peer.            *)
LEMMA EndVisitInv ==
  ASSUME ServiceInv, NEW e \in Entity, EndVisit(e) PROVE ServiceInv'
<1>0. /\ ConnectionTypes /\ TickTypes /\ PeerTypes /\ RestTypes /\ TickOK BY InvGroups
<1>1. TickTypes' BY <1>0 DEF TickTypes, EndVisit
<1>2. PeerTypes'
  <2>1. CASE outbox[e] = <<>> BY <1>0, <2>1, PeersUnchanged DEF EndVisit
  <2>2. CASE outbox[e] # <<>>
    <3>1. PICK d \in 1 .. FlushTime :
            IF Elapsed(e, d) >= FlushTime
            THEN /\ held' = [held EXCEPT ![e] = 0]
                 /\ outbox' = [outbox EXCEPT ![e] = <<>>]
                 /\ view' = [view EXCEPT ![e] = KnownAfter(e)]
                 /\ placed' = [placed EXCEPT ![e] = PlacedAfter(e)]
                 /\ asked' = [asked EXCEPT ![e] = AskedAfter(e)]
                 /\ UNCHANGED relisted
            ELSE held' = [held EXCEPT ![e] = Elapsed(e, d)] /\ UNCHANGED <<outbox, copyVars, asked>>
      BY <2>2 DEF EndVisit
    <3>2. CASE Elapsed(e, d) >= FlushTime
      <4>1. KnownAfter(e) \subseteq Entity /\ PlacedAfter(e) \subseteq Entity
        BY DEF KnownAfter, PlacedAfter
      <4>2. AskedAfter(e) \subseteq Entity BY <1>0 DEF AskedAfter, PeerTypes
      <4>3. /\ held' = [held EXCEPT ![e] = 0]
            /\ outbox' = [outbox EXCEPT ![e] = <<>>]
            /\ view' = [view EXCEPT ![e] = KnownAfter(e)]
            /\ placed' = [placed EXCEPT ![e] = PlacedAfter(e)]
            /\ asked' = [asked EXCEPT ![e] = AskedAfter(e)]
            /\ UNCHANGED relisted
        BY <3>1, <3>2
      <4>4. held' \in [Entity -> 0 .. FlushTime - 1]
        <5>1. 0 \in 0 .. FlushTime - 1 BY BoundsAssumption
        <5>2. held \in [Entity -> 0 .. FlushTime - 1] BY <1>0 DEF PeerTypes
        <5> QED BY <4>3, <5>1, <5>2
      <4>5. <<>> \in Seq(Message) OBVIOUS
      <4>6. outbox' \in [Entity -> Seq(Message)] BY <1>0, <4>3, <4>5 DEF PeerTypes
      <4>7. view' \in [Entity -> SUBSET Entity] BY <1>0, <4>3, <4>1 DEF PeerTypes
      <4>8. asked' \in [Entity -> SUBSET Entity] BY <1>0, <4>3, <4>2 DEF PeerTypes
      <4>9. placed' \in [Entity -> SUBSET Entity] BY <1>0, <4>3, <4>1 DEF PeerTypes
      <4>10. relisted' \in [Entity -> SUBSET Entity] BY <1>0, <4>3 DEF PeerTypes
      <4> QED BY <4>4, <4>6, <4>7, <4>8, <4>9, <4>10 DEF PeerTypes
    <3>3. CASE ~(Elapsed(e, d) >= FlushTime)
      <4>1. Elapsed(e, d) \in 0 .. FlushTime - 1
        BY <1>0, <3>3, BoundsAssumption DEF PeerTypes, Elapsed
      <4> QED BY <1>0, <3>1, <3>3, <4>1 DEF PeerTypes, copyVars
    <3> QED BY <3>2, <3>3
  <2> QED BY <2>1, <2>2
<1>3. Alive' = Alive BY DEF Alive, IsAlive, connectionVars, EndVisit
<1>4. visiting' = NoEntity /\ UNCHANGED <<dropQueue, phase, todo, closed>>
  BY DEF EndVisit, connectionVars
<1>5. TickOK' BY <1>0, <1>3, <1>4 DEF TickOK
<1>6. requests' \in 0 .. MaxRequests BY <1>0 DEF RestTypes, EndVisit
<1>7. UNCHANGED <<LBvars, connectionVars, fault>> BY DEF EndVisit
<1> QED BY <1>1, <1>2, <1>5, <1>6, <1>7, RegistryUnchanged

(* Between the phases of a tick nothing moves but the phase and, at the end, *)
(* the set of entities to visit.                                             *)
LEMMA PhaseInv ==
  ASSUME ServiceInv, BeginDeferred \/ BeginDrops \/ EndTick PROVE ServiceInv'
<1>0. /\ ConnectionTypes /\ TickTypes /\ PeerTypes /\ RestTypes /\ TickOK BY InvGroups
<1>1. /\ UNCHANGED <<LBvars, connectionVars, fault, peerVars, requests, dropQueue, visiting>>
      /\ phase' \in Phase
      /\ todo' = todo \/ (todo' = Alive /\ dropQueue = <<>> /\ phase' = "update")
      /\ (visiting # NoEntity \/ todo # {}) => phase # "update"
  BY DEF BeginDeferred, BeginDrops, EndTick, Phase
<1>2. TickTypes' BY <1>0, <1>1 DEF TickTypes, Alive
<1>3. PeerTypes' BY <1>0, <1>1, PeersUnchanged
<1>4. Alive' = Alive BY <1>1 DEF Alive, IsAlive, connectionVars
<1>5. TickOK'
  <2>1. visiting = NoEntity /\ todo = {} BY <1>0, <1>1 DEF TickOK
  <2>2. ToSet(<<>>) = {} BY DEF ToSet
  <2> QED BY <1>0, <1>1, <1>4, <2>1, <2>2 DEF TickOK, connectionVars
<1>6. requests' \in 0 .. MaxRequests BY <1>0, <1>1 DEF RestTypes
<1> QED BY <1>1, <1>2, <1>3, <1>5, <1>6, RegistryUnchanged

-----------------------------------------------------------------------------
(* Packet handlers: they run for the entity that is being visited.           *)

(* A step forward in the handshake, or out of the queue of new clients.      *)
LEMMA StatusStepInv ==
  ASSUME ServiceInv, NEW e \in Entity,
         ClientChallenge(e) \/ ClientHandshake(e) \/ AcceptNew(e)
  PROVE  ServiceInv'
<1>0. /\ TableOK /\ ConnectionTypes /\ TickTypes /\ PeerTypes /\ RestTypes
      /\ RegistryAccessSafe /\ Matches /\ TickOK /\ ComponentsOK
  BY InvGroups
<1>1. /\ UNCHANGED <<LBvars, closed, info, tickVars, peerVars, requests, fault>>
      /\ \E next \in Status \ {"ABSENT", "QUEUED", "DESTROYED"} :
           status' = [status EXCEPT ![e] = next]
      /\ status[e] \notin {"DESTROYED", "CONNECTED"}
  BY DEF ClientChallenge, ClientHandshake, AcceptNew, Handles, Status
<1>2. TableOK' BY <1>0, <1>1, TableUnchanged DEF LBvars, tableVars
<1>3. ConnectionTypes' BY <1>0, <1>1 DEF ConnectionTypes
<1>4. TickTypes' /\ PeerTypes' BY <1>0, <1>1, TickTypesUnchanged, PeersUnchanged
<1>5. RestTypes' /\ RegistryAccessSafe' BY <1>0, <1>1 DEF RestTypes, RegistryAccessSafe, LBvars
<1>6. Alive \subseteq Alive' BY <1>0, <1>1 DEF Alive, IsAlive, ConnectionTypes
<1>7. Matches' BY <1>0, <1>1 DEF Matches, Listed, Servers, Key, LBvars, ConnectionTypes
<1>8. TickOK' BY <1>0, <1>1, <1>6, TickUnchanged
<1>9. ComponentsOK' BY <1>0, <1>1, <1>6 DEF ComponentsOK, ConnectionTypes
<1> QED BY <1>2, <1>3, <1>4, <1>5, <1>7, <1>8, <1>9, InvGroupsNext

(* A client that is closed during its visit ends the visit.                  *)
LEMMA RejectTick ==
  ASSUME TickTypes, TickOK, NEW e \in Entity, visiting = e, Reject(e), UNCHANGED status
  PROVE  TickTypes' /\ TickOK'
<1>1. Alive' = Alive BY DEF Alive, IsAlive
<1> QED BY <1>1 DEF TickTypes, TickOK, Reject

(* Closing a client keeps the invariant.                                     *)
LEMMA RejectPacketInv ==
  ASSUME ServiceInv, NEW e \in Entity, RejectPacket(e) PROVE ServiceInv'
<1>0. /\ TableOK /\ ConnectionTypes /\ TickTypes /\ PeerTypes /\ RestTypes
      /\ RegistryAccessSafe /\ Matches /\ TickOK /\ ComponentsOK
  BY InvGroups
<1> USE DEF RejectPacket
<1>1. TableOK' BY <1>0, TableUnchanged DEF LBvars, tableVars
<1>2. ConnectionTypes' BY <1>0 DEF ConnectionTypes, Reject
<1>3. TickTypes' /\ TickOK' BY <1>0, RejectTick
<1>4. PeerTypes' BY <1>0, PeersUnchanged
<1>5. RestTypes' /\ RegistryAccessSafe' BY <1>0 DEF RestTypes, RegistryAccessSafe, LBvars
<1>6. Matches' BY <1>0, MatchesUnchanged DEF LBvars
<1>7. ComponentsOK'
  <2>1. e \in Alive BY <1>0, NoEntityAssumption DEF TickOK
  <2> QED BY <1>0, <2>1 DEF ComponentsOK, Reject, Alive, IsAlive, ConnectionTypes
<1> QED BY <1>1, <1>2, <1>3, <1>4, <1>5, <1>6, <1>7, InvGroupsNext

-----------------------------------------------------------------------------
(* Registration.                                                             *)

(* A type is registered under a realm, and under that key.                   *)
LEMMA RealmsOfFacts ==
  ASSUME NEW t, NEW r \in RealmsOf(t) PROVE r \in Realm /\ Key(t, r) = r
BY RealmAssumption DEF RealmsOf, Key

(* Whoever has no component and was not destroyed is in no vector.           *)
LEMMA UnlistedEntity ==
  ASSUME Matches, NEW e \in Entity, info[e] = NoInfo, status[e] # "DESTROYED",
         NEW t \in AddressType, NEW r \in Realm
  PROVE  e \notin ToSet(list[t][r])
<1>1. "none" \notin AddressType BY DEF AddressType, GlobalTypes, RealmTypes
<1>2. NoInfo # [type |-> t, realm |-> r] BY <1>1 DEF NoInfo
<1> QED BY <1>2 DEF Matches

(* Nobody registers twice: a client with a component is either connected, and*)
(* the handler does not run, or closed, and nobody visits it.                *)
LEMMA EnlistFacts ==
  ASSUME ServiceInv, NEW e \in Entity, NEW t \in AddressType, NEW r \in RealmsOf(t),
         Enlist(e, t, r),
         status' = status \/ status' = [status EXCEPT ![e] = "CONNECTED"]
  PROVE  /\ info[e] = NoInfo
         /\ TableOK' /\ Matches' /\ Alive' = Alive /\ e \in Alive
         /\ status' \in [Entity -> Status] /\ info' \in [Entity -> Info \cup {NoInfo}]
<1>0. TableOK /\ ConnectionTypes /\ Matches /\ TickOK /\ ComponentsOK BY InvGroups
<1>1. r \in Realm /\ Key(t, r) = r BY RealmsOfFacts
<1>2. /\ visiting = e /\ status[e] = "AUTH_SUCCESS" /\ info[e] = NoInfo
      /\ info' = [info EXCEPT ![e] = [type |-> t, realm |-> r]]
      /\ AddServer(e, t, r)
  <2>1. /\ visiting = e /\ status[e] = "AUTH_SUCCESS"
        /\ info' = [info EXCEPT ![e] = [type |-> t, realm |-> r]]
        /\ AddServer(e, t, r)
    BY DEF Enlist, Handles
  <2>2. info[e] = NoInfo BY <1>0, <2>1, NoEntityAssumption DEF TickOK, ComponentsOK
  <2> QED BY <2>1, <2>2
<1>3. \A u \in AddressType, q \in Realm : e \notin ToSet(list[u][q])
  BY <1>0, <1>2, UnlistedEntity
<1>4. e \notin Listed(t, r) BY <1>1, <1>3 DEF Listed, Servers
<1>5. /\ TableOK'
      /\ \A u \in AddressType, q \in Realm :
           ToSet(list'[u][q]) = IF u = t /\ q = r
                                THEN ToSet(list[u][q]) \cup {e} ELSE ToSet(list[u][q])
  BY <1>0, <1>1, <1>2, <1>4, AddServerFacts
<1>6. info' \in [Entity -> Info \cup {NoInfo}]
  BY <1>0, <1>1, <1>2 DEF ConnectionTypes, Info
<1>7. status' \in [Entity -> Status] BY <1>0 DEF ConnectionTypes, Status
<1>8. Alive' = Alive /\ e \in Alive
  BY <1>0, <1>2 DEF Alive, IsAlive, ConnectionTypes
<1>9. Matches'
  <2>1. ASSUME NEW x \in Entity, info'[x] # NoInfo
        PROVE  x \in Listed(info[x].type, info[x].realm)'
    <3>1. CASE x = e
      <4>1. info'[x] = [type |-> t, realm |-> r] BY <1>0, <1>2, <3>1 DEF ConnectionTypes
      <4>2. e \in ToSet(list'[t][r]) BY <1>1, <1>5
      <4> QED BY <1>1, <3>1, <4>1, <4>2 DEF Listed, Servers, Key
    <3>2. CASE x # e
      <4>1. info'[x] = info[x] /\ info[x] \in Info BY <1>0, <1>2, <2>1, <3>2 DEF ConnectionTypes
      <4>2. /\ info[x].type \in AddressType /\ info[x].realm \in Realm BY <4>1 DEF Info
      <4>3. Key(info[x].type, info[x].realm) \in Realm BY <4>2, KeyInRealm
      <4>4. x \in ToSet(list[info[x].type][Key(info[x].type, info[x].realm)])
        BY <1>0, <2>1, <4>1 DEF Matches, Listed, Servers
      <4>5. x \in ToSet(list'[info[x].type][Key(info[x].type, info[x].realm)])
        BY <1>5, <4>2, <4>3, <4>4
      <4> QED BY <4>1, <4>5 DEF Listed, Servers, Key
    <3> QED BY <3>1, <3>2
  <2>2. ASSUME NEW u \in AddressType, NEW q \in Realm, NEW x \in ToSet(list'[u][q])
        PROVE  \/ info'[x] = [type |-> u, realm |-> q]
               \/ q # 0 /\ u \in RealmTypes /\ status'[x] = "DESTROYED"
    <3>1. x \in Entity BY <1>5 DEF TableOK, TableTypeOK, ToSet
    <3>2. CASE x = e
      <4>1. u = t /\ q = r BY <1>3, <1>5, <3>2
      <4> QED BY <1>0, <1>2, <3>2, <4>1 DEF ConnectionTypes
    <3>3. CASE x # e
      <4>1. x \in ToSet(list[u][q]) BY <1>5, <3>3
      <4>2. info'[x] = info[x] /\ status'[x] = status[x]
        BY <1>0, <1>2, <3>1, <3>3 DEF ConnectionTypes
      <4> QED BY <1>0, <4>1, <4>2 DEF Matches
    <3> QED BY <3>2, <3>3
  <2> QED BY <2>1, <2>2 DEF Matches
<1> QED BY <1>2, <1>5, <1>6, <1>7, <1>8, <1>9

(* A registration that every load balancer is told of.                       *)
LEMMA RegisterServerInv ==
  ASSUME ServiceInv, NEW e \in Entity, NEW t \in AddressType, NEW r \in RealmsOf(t),
         RegisterServer(e, t, r)
  PROVE  ServiceInv'
<1>0. /\ TableOK /\ ConnectionTypes /\ TickTypes /\ PeerTypes /\ RestTypes
      /\ RegistryAccessSafe /\ Matches /\ TickOK /\ ComponentsOK
  BY InvGroups
<1>1. LoadBalancers \subseteq Alive BY <1>0, LoadBalancersAlive
<1>2. /\ Enlist(e, t, r)
      /\ AddPacket(LoadBalancers, [kind |-> "ADD", who |-> e])
      /\ status' = [status EXCEPT ![e] = "CONNECTED"]
      /\ UNCHANGED <<closed, tickVars>>
  BY DEF RegisterServer
<1>3. /\ info[e] = NoInfo
      /\ TableOK' /\ Matches' /\ Alive' = Alive /\ e \in Alive
      /\ status' \in [Entity -> Status] /\ info' \in [Entity -> Info \cup {NoInfo}]
  BY <1>2, EnlistFacts
<1>4. ConnectionTypes' BY <1>0, <1>2, <1>3 DEF ConnectionTypes
<1>5. TickTypes' BY <1>0, <1>2, TickTypesUnchanged
<1>6. PeerTypes'
  <2>1. [kind |-> "ADD", who |-> e] \in Message BY DEF Message
  <2> QED BY <1>0, <1>2, <2>1, AddPacketTypes DEF AddPacket
<1>7. RestTypes' /\ RegistryAccessSafe'
  <2>1. fault' = fault BY <1>1, <1>3 DEF RegisterServer, Emplace
  <2> QED BY <1>0, <1>2, <2>1 DEF RestTypes, RegistryAccessSafe, Enlist
<1>8. TickOK' BY <1>0, <1>2, <1>3, TickUnchanged
<1>9. ComponentsOK' BY <1>0, <1>2, <1>3 DEF ComponentsOK, Enlist, ConnectionTypes
<1> QED BY <1>3, <1>4, <1>5, <1>6, <1>7, <1>8, <1>9, InvGroupsNext

(* The registration of a load balancer that gets the whole table.            *)
LEMMA RegisterLoadBalancerInv ==
  ASSUME ServiceInv, NEW e \in Entity, RegisterLoadBalancer(e) PROVE ServiceInv'
<1>0. /\ TableOK /\ ConnectionTypes /\ TickTypes /\ PeerTypes /\ RestTypes
      /\ RegistryAccessSafe /\ Matches /\ TickOK /\ ComponentsOK
  BY InvGroups
<1>1. "LOADBALANCE" \in AddressType /\ 0 \in RealmsOf("LOADBALANCE")
  BY DEF AddressType, GlobalTypes, RealmTypes, RealmsOf
<1>2. /\ Enlist(e, "LOADBALANCE", 0)
      /\ view' = [view EXCEPT ![e] = AllListed \cup {e}]
      /\ placed' = [placed EXCEPT ![e] = RealmsWritten]
      /\ status' = [status EXCEPT ![e] = "CONNECTED"]
      /\ Emplace(e, fault)
      /\ UNCHANGED <<closed, tickVars, outbox, held, asked, relisted>>
  BY DEF RegisterLoadBalancer
<1>3. /\ info[e] = NoInfo
      /\ TableOK' /\ Matches' /\ Alive' = Alive /\ e \in Alive
      /\ status' \in [Entity -> Status] /\ info' \in [Entity -> Info \cup {NoInfo}]
  BY <1>1, <1>2, EnlistFacts
<1>4. ConnectionTypes' BY <1>0, <1>2, <1>3 DEF ConnectionTypes
<1>5. TickTypes' BY <1>0, <1>2, TickTypesUnchanged
<1>6. PeerTypes'
  <2>1. AllListed \subseteq Entity /\ RealmsWritten \subseteq Entity
    BY <1>0, AllListedEntities DEF RealmsWritten
  <2> QED BY <1>0, <1>2, <2>1 DEF PeerTypes
<1>7. RestTypes' /\ RegistryAccessSafe'
  BY <1>0, <1>2, <1>3 DEF RestTypes, RegistryAccessSafe, Enlist, Emplace
<1>8. TickOK' BY <1>0, <1>2, <1>3, TickUnchanged
<1>9. ComponentsOK' BY <1>0, <1>2, <1>3 DEF ComponentsOK, Enlist, ConnectionTypes
<1> QED BY <1>3, <1>4, <1>5, <1>6, <1>7, <1>8, <1>9, InvGroupsNext

(* The failed registration leaves a component behind, on a closed client.    *)
LEMMA RegisterLoadBalancerFailsInv ==
  ASSUME ServiceInv, NEW e \in Entity, RegisterLoadBalancerFails(e) PROVE ServiceInv'
<1>0. /\ TableOK /\ ConnectionTypes /\ TickTypes /\ PeerTypes /\ RestTypes
      /\ RegistryAccessSafe /\ Matches /\ TickOK /\ ComponentsOK
  BY InvGroups
<1>1. "LOADBALANCE" \in AddressType /\ 0 \in RealmsOf("LOADBALANCE")
  BY DEF AddressType, GlobalTypes, RealmTypes, RealmsOf
<1>2. /\ Enlist(e, "LOADBALANCE", 0)
      /\ Reject(e)
      /\ Emplace(e, fault)
      /\ UNCHANGED <<status, peerVars>>
  BY DEF RegisterLoadBalancerFails
<1>3. /\ info[e] = NoInfo
      /\ TableOK' /\ Matches' /\ Alive' = Alive /\ e \in Alive
      /\ status' \in [Entity -> Status] /\ info' \in [Entity -> Info \cup {NoInfo}]
  BY <1>1, <1>2, EnlistFacts
<1>4. ConnectionTypes' BY <1>0, <1>2, <1>3 DEF ConnectionTypes, Reject
<1>5. TickTypes' /\ TickOK' BY <1>0, <1>2, RejectTick DEF Enlist, Handles
<1>6. PeerTypes' BY <1>0, <1>2, PeersUnchanged
<1>7. RestTypes' /\ RegistryAccessSafe'
  BY <1>0, <1>2, <1>3 DEF RestTypes, RegistryAccessSafe, Enlist, Emplace
<1>8. ComponentsOK' BY <1>0, <1>2, <1>3 DEF ComponentsOK, Enlist, Reject, ConnectionTypes
<1> QED BY <1>3, <1>4, <1>5, <1>6, <1>7, <1>8, InvGroupsNext

-----------------------------------------------------------------------------
(* Lookups and answers.                                                      *)

(* Sending the table again changes one peer.                                 *)
LEMMA HandleRequestServerInfoInv ==
  ASSUME ServiceInv, NEW e \in Entity, HandleRequestServerInfo(e) PROVE ServiceInv'
<1>0. TableOK /\ TickTypes /\ PeerTypes /\ RestTypes /\ TickOK BY InvGroups
<1> USE DEF HandleRequestServerInfo
<1>1. PeerTypes'
  <2>1. { s \in AllListed : ServesRealm(s) } \subseteq Entity BY <1>0, AllListedEntities
  <2>2. view' \in [Entity -> SUBSET Entity] BY <1>0 DEF PeerTypes
  <2> QED BY <1>0, <2>1, <2>2 DEF PeerTypes
<1>2. TickTypes' BY <1>0, TickTypesUnchanged
<1>3. TickOK' BY <1>0, TickUnchanged DEF Alive, IsAlive, connectionVars
<1>4. requests' \in 0 .. MaxRequests BY <1>0 DEF RestTypes
<1> QED BY <1>1, <1>2, <1>3, <1>4, RegistryUnchanged

(* A lookup moves indices only; what else the handler does is a packet for   *)
(* somebody, or the end of the model.                                        *)
LEMMA LookupInv ==
  ASSUME ServiceInv, UNCHANGED connectionVars, TickTypes', PeerTypes', RestTypes', TickOK',
         RegistryAccessSafe', TableOK', list' = list
  PROVE  ServiceInv'
<1>0. ConnectionTypes /\ Matches /\ ComponentsOK BY InvGroups
<1>1. ConnectionTypes' BY <1>0, ConnectionUnchanged
<1>2. Matches' BY <1>0, MatchesUnchanged DEF connectionVars
<1>3. ComponentsOK' BY <1>0 DEF ComponentsOK, connectionVars, Alive, IsAlive
<1> QED BY <1>1, <1>2, <1>3, InvGroupsNext

(* The bound on the lookups of a behaviour is kept.                          *)
LEMMA CountRequestBound ==
  ASSUME RestTypes, CountRequest PROVE requests' \in 0 .. MaxRequests
BY BoundsAssumption DEF RestTypes, CountRequest

(* A question for an address goes to a live load balancer, if to any.        *)
LEMMA HandleRequestAddressInv ==
  ASSUME ServiceInv, NEW e \in Entity, HandleRequestAddress(e) PROVE ServiceInv'
<1>0. /\ TableOK /\ ConnectionTypes /\ TickTypes /\ PeerTypes /\ RestTypes
      /\ RegistryAccessSafe /\ Matches /\ TickOK /\ ComponentsOK
  BY InvGroups
<1>1. "LOADBALANCE" \in AddressType /\ 0 \in Realm
  BY RealmAssumption DEF AddressType, GlobalTypes
<1>2. UNCHANGED connectionVars /\ UNCHANGED tickVars /\ CountRequest
  BY DEF HandleRequestAddress
<1>3. TickTypes' BY <1>0, <1>2, TickTypesUnchanged
<1>4. TickOK' BY <1>0, <1>2, TickUnchanged DEF Alive, IsAlive, connectionVars
<1>5. requests' \in 0 .. MaxRequests BY <1>0, <1>2, CountRequestBound
<1>6. CASE /\ GetServer("LOADBALANCE", 0)
           /\ AddPacket({Picked("LOADBALANCE", 0)}, [kind |-> "ASK", who |-> e])
           /\ fault' = IF Picked("LOADBALANCE", 0) \in Alive THEN fault
                       ELSE "dead load balancer"
           /\ UNCHANGED outOfRange
  <2>1. Picked("LOADBALANCE", 0) \in LoadBalancers BY <1>0, <1>6, PickedListed
  <2>2. Picked("LOADBALANCE", 0) \in Alive BY <1>0, <2>1, LoadBalancersAlive
  <2>3. /\ AddPacket({Picked("LOADBALANCE", 0)}, [kind |-> "ASK", who |-> e])
        /\ UNCHANGED fault
    BY <1>6, <2>2
  <2>4. [kind |-> "ASK", who |-> e] \in Message BY DEF Message
  <2>5. PeerTypes' BY <1>0, <2>3, <2>4, AddPacketTypes DEF AddPacket
  <2>6. TableOK' /\ list' = list BY <1>0, <1>1, <1>6, LookupFacts
  <2>7. RestTypes' /\ RegistryAccessSafe'
    BY <1>0, <1>5, <1>6, <2>3 DEF RestTypes, RegistryAccessSafe
  <2> QED BY <1>2, <1>3, <1>4, <2>5, <2>6, <2>7, LookupInv
<1>7. CASE /\ GetNone("LOADBALANCE", 0)
           /\ fault' = "null entity"
           /\ UNCHANGED <<peerVars, outOfRange>>
  <2>1. TableOK' /\ list' = list BY <1>0, <1>1, <1>7, LookupFacts
  <2>2. PeerTypes' BY <1>0, <1>7, PeersUnchanged
  <2>3. RestTypes' /\ RegistryAccessSafe'
    BY <1>0, <1>5, <1>7 DEF RestTypes, RegistryAccessSafe, Fault
  <2> QED BY <1>2, <1>3, <1>4, <2>1, <2>2, <2>3, LookupInv
<1>8. CASE /\ outOfRange' = TRUE
           /\ UNCHANGED <<tableVars, peerVars, fault>>
  <2>1. TableOK' /\ list' = list BY <1>0, <1>8, TableUnchanged DEF tableVars
  <2>2. PeerTypes' BY <1>0, <1>8, PeersUnchanged
  <2>3. outOfRange' \in BOOLEAN BY <1>8, Zenon
  <2>4. RestTypes' /\ RegistryAccessSafe'
    BY <1>0, <1>5, <1>8, <2>3 DEF RestTypes, RegistryAccessSafe
  <2> QED BY <1>2, <1>3, <1>4, <2>1, <2>2, <2>4, LookupInv
<1> QED BY <1>6, <1>7, <1>8 DEF HandleRequestAddress

(* A question that cannot be forwarded closes the client.                    *)
LEMMA HandleRequestAddressFailsInv ==
  ASSUME ServiceInv, NEW e \in Entity, HandleRequestAddressFails(e) PROVE ServiceInv'
<1>0. /\ TableOK /\ ConnectionTypes /\ TickTypes /\ PeerTypes /\ RestTypes
      /\ RegistryAccessSafe /\ Matches /\ TickOK /\ ComponentsOK
  BY InvGroups
<1>1. "LOADBALANCE" \in AddressType /\ 0 \in Realm
  BY RealmAssumption DEF AddressType, GlobalTypes
<1>2. /\ visiting = e /\ Reject(e) /\ CountRequest
      /\ (GetServer("LOADBALANCE", 0) \/ GetNone("LOADBALANCE", 0))
      /\ UNCHANGED <<outOfRange, status, info, peerVars, fault>>
  BY DEF HandleRequestAddressFails, Handles
<1>3. TickTypes' /\ TickOK' BY <1>0, <1>2, RejectTick
<1>4. TableOK' /\ list' = list BY <1>0, <1>1, <1>2, LookupFacts
<1>5. ConnectionTypes' BY <1>0, <1>2 DEF ConnectionTypes, Reject
<1>6. PeerTypes' BY <1>0, <1>2, PeersUnchanged
<1>7. requests' \in 0 .. MaxRequests BY <1>0, <1>2, CountRequestBound
<1>8. RestTypes' /\ RegistryAccessSafe'
  BY <1>0, <1>2, <1>7 DEF RestTypes, RegistryAccessSafe
<1>9. Matches' BY <1>0, <1>2, <1>4, MatchesUnchanged
<1>10. ComponentsOK'
  <2>1. e \in Alive BY <1>0, <1>2, NoEntityAssumption DEF TickOK
  <2> QED BY <1>0, <1>2, <2>1 DEF ComponentsOK, Reject, Alive, IsAlive, ConnectionTypes
<1> QED BY <1>3, <1>4, <1>5, <1>6, <1>8, <1>9, <1>10, InvGroupsNext

(* An answer is queued, or whom it names is not there.                       *)
LEMMA HandleSendAddressInv ==
  ASSUME ServiceInv, NEW e \in Entity, NEW who \in Entity \cup {NoEntity},
         HandleSendAddress(e, who)
  PROVE  ServiceInv'
<1>0. /\ TableOK /\ ConnectionTypes /\ TickTypes /\ PeerTypes /\ RestTypes
      /\ RegistryAccessSafe /\ Matches /\ TickOK /\ ComponentsOK
  BY InvGroups
<1> USE DEF HandleSendAddress
<1>1. TickTypes' BY <1>0, TickTypesUnchanged
<1>2. TickOK' BY <1>0, TickUnchanged DEF Alive, IsAlive, connectionVars
<1>3. TableOK' /\ list' = list BY <1>0, TableUnchanged DEF LBvars, tableVars
<1>4. PeerTypes'
  <2>1. CASE who \in Alive
    <3>1. [kind |-> "ANSWER", who |-> who] \in Message BY <2>1 DEF Message, Alive
    <3> QED BY <1>0, <2>1, <3>1, AddPacketTypes DEF AddPacket
  <2>2. CASE who \notin Alive BY <1>0, <2>2, PeersUnchanged
  <2> QED BY <2>1, <2>2
<1>5. fault' = fault \/ fault' = "unknown requester" OBVIOUS
<1>6. requests' \in 0 .. MaxRequests BY <1>0, CountRequestBound DEF RestTypes
<1>7. RestTypes' /\ RegistryAccessSafe'
  BY <1>0, <1>5, <1>6 DEF RestTypes, RegistryAccessSafe, Fault, LBvars
<1> QED BY <1>1, <1>2, <1>3, <1>4, <1>7, LookupInv

(* A lookup by realm answers its requester.                                  *)
LEMMA HandleRequestRealmConnectionInfoInv ==
  ASSUME ServiceInv, NEW e \in Entity, NEW r \in Realm, HandleRequestRealmConnectionInfo(e, r)
  PROVE  ServiceInv'
<1>0. /\ TableOK /\ ConnectionTypes /\ TickTypes /\ PeerTypes /\ RestTypes
      /\ RegistryAccessSafe /\ Matches /\ TickOK /\ ComponentsOK
  BY InvGroups
<1>1. "WORLD" \in AddressType BY DEF AddressType, RealmTypes
<1>2. UNCHANGED connectionVars /\ UNCHANGED tickVars /\ CountRequest /\ UNCHANGED fault
  BY DEF HandleRequestRealmConnectionInfo
<1>3. TickTypes' BY <1>0, <1>2, TickTypesUnchanged
<1>4. TickOK' BY <1>0, <1>2, TickUnchanged DEF Alive, IsAlive, connectionVars
<1>5. requests' \in 0 .. MaxRequests BY <1>0, <1>2, CountRequestBound
<1>6. CASE /\ (GetServer("WORLD", r) \/ GetNone("WORLD", r))
           /\ AddPacket({e}, [kind |-> "ANSWER", who |-> e])
           /\ UNCHANGED outOfRange
  <2>1. TableOK' /\ list' = list BY <1>0, <1>1, <1>6, LookupFacts
  <2>2. [kind |-> "ANSWER", who |-> e] \in Message BY DEF Message
  <2>3. PeerTypes' BY <1>0, <1>6, <2>2, AddPacketTypes DEF AddPacket
  <2>4. RestTypes' /\ RegistryAccessSafe'
    BY <1>0, <1>2, <1>5, <1>6 DEF RestTypes, RegistryAccessSafe
  <2> QED BY <1>2, <1>3, <1>4, <2>1, <2>3, <2>4, LookupInv
<1>7. CASE /\ outOfRange' = TRUE
           /\ UNCHANGED <<tableVars, peerVars>>
  <2>1. TableOK' /\ list' = list BY <1>0, <1>7, TableUnchanged DEF tableVars
  <2>2. PeerTypes' BY <1>0, <1>7, PeersUnchanged
  <2>3. outOfRange' \in BOOLEAN BY <1>7, Zenon
  <2>4. RestTypes' /\ RegistryAccessSafe'
    BY <1>0, <1>2, <1>5, <2>3 DEF RestTypes, RegistryAccessSafe
  <2> QED BY <1>2, <1>3, <1>4, <2>1, <2>2, <2>4, LookupInv
<1> QED BY <1>6, <1>7 DEF HandleRequestRealmConnectionInfo

-----------------------------------------------------------------------------
(* Drops.                                                                    *)

(* The dropped entity is in the table only where its component says.  Remove *)
(* takes it out, unless its realm is not the default one; then it stays, and *)
(* it is the one exception Matches allows.                                   *)
LEMMA DropMatches ==
  ASSUME TableOK, ConnectionTypes, Matches, NEW e \in Entity,
         IF info[e] = NoInfo THEN UNCHANGED tableVars ELSE RemoveServer(info[e].type, e, 0),
         status[e] # "DESTROYED",
         status' = [status EXCEPT ![e] = "DESTROYED"],
         info' = [info EXCEPT ![e] = NoInfo]
  PROVE  TableOK' /\ Matches'
<1>1. CASE info[e] = NoInfo
  <2>1. list' = list /\ info' = info BY <1>1 DEF tableVars, ConnectionTypes
  <2>2. \A x \in Entity : status[x] = "DESTROYED" => status'[x] = "DESTROYED"
    BY DEF ConnectionTypes
  <2>3. \A t \in AddressType, r \in Realm : \A x \in ToSet(list[t][r]) : x \in Entity
    BY DEF TableOK, TableTypeOK, ToSet
  <2>4. Matches' BY <2>1, <2>2, <2>3 DEF Matches, Listed, Servers, Key
  <2> QED BY <1>1, <2>4, TableUnchanged
<1>2. CASE info[e] # NoInfo
  <2>0. info[e] \in Info BY <1>2 DEF ConnectionTypes
  <2>1. PICK t \in AddressType, r \in Realm :
          info[e] = [type |-> t, realm |-> r] /\ info[e].type = t /\ info[e].realm = r
    BY <2>0 DEF Info
  <2>2. 0 \in Realm /\ Key(t, 0) = 0 BY RealmAssumption DEF Key
  <2>3. RemoveServer(t, e, 0) BY <1>2, <2>1
  <2>4. /\ TableOK'
        /\ \A u \in AddressType, q \in Realm :
             ToSet(list'[u][q]) = IF u = t /\ q = Key(t, 0)
                                  THEN ToSet(list[u][q]) \ {e} ELSE ToSet(list[u][q])
    BY <2>2, <2>3, RemoveServerFacts
  <2>5. ASSUME NEW x \in Entity, info'[x] # NoInfo
        PROVE  x \in Listed(info[x].type, info[x].realm)'
    <3>1. x # e /\ info'[x] = info[x] /\ info[x] \in Info BY <2>5 DEF ConnectionTypes
    <3>2. info[x].type \in AddressType /\ info[x].realm \in Realm BY <3>1 DEF Info
    <3>3. Key(info[x].type, info[x].realm) \in Realm BY <3>2, KeyInRealm
    <3>4. x \in ToSet(list[info[x].type][Key(info[x].type, info[x].realm)])
      BY <2>5, <3>1 DEF Matches, Listed, Servers
    <3>5. x \in ToSet(list'[info[x].type][Key(info[x].type, info[x].realm)])
      BY <2>4, <3>1, <3>2, <3>3, <3>4
    <3> QED BY <3>1, <3>5 DEF Listed, Servers, Key
  <2>6. ASSUME NEW u \in AddressType, NEW q \in Realm, NEW x \in ToSet(list'[u][q])
        PROVE  \/ info'[x] = [type |-> u, realm |-> q]
               \/ q # 0 /\ u \in RealmTypes /\ status'[x] = "DESTROYED"
    <3>1. x \in ToSet(list[u][q]) BY <2>4
    <3>2. x \in Entity BY <3>1 DEF TableOK, TableTypeOK, ToSet
    <3>3. CASE x = e
      <4>1. u = t /\ q = r
        <5>1. info[e] = [type |-> u, realm |-> q] BY <3>1, <3>3 DEF Matches
        <5> QED BY <2>1, <5>1
      <4>2. q # 0 BY <2>2, <2>4, <3>3, <4>1
      <4>3. Key(t, r) = r
        <5>1. e \in ToSet(list[t][Key(t, r)])
          BY <1>2, <2>1 DEF Matches, Listed, Servers
        <5>2. Key(t, r) \in Realm BY <2>1, KeyInRealm
        <5>3. info[e] = [type |-> t, realm |-> Key(t, r)] BY <2>1, <5>1, <5>2 DEF Matches
        <5> QED BY <2>1, <5>3
      <4>4. u \in RealmTypes BY <4>1, <4>2, <4>3 DEF Key
      <4> QED BY <3>3, <4>2, <4>4 DEF ConnectionTypes
    <3>4. CASE x # e
      <4>1. info'[x] = info[x] /\ status'[x] = status[x] BY <3>2, <3>4 DEF ConnectionTypes
      <4> QED BY <3>1, <4>1 DEF Matches
    <3> QED BY <3>3, <3>4
  <2> QED BY <2>4, <2>5, <2>6 DEF Matches
<1> QED BY <1>1, <1>2

(* What taking the head does to a sequence without repetitions.              *)
LEMMA TailOfInjective ==
  ASSUME NEW S, NEW q \in Seq(S), q # <<>>, IsInjective(q)
  PROVE  /\ Tail(q) \in Seq(S) /\ IsInjective(Tail(q)) /\ Head(q) \in S
         /\ ToSet(Tail(q)) = ToSet(q) \ {Head(q)}
         /\ Head(q) \in ToSet(q)
<1>1. /\ Tail(q) \in Seq(S) /\ Head(q) = q[1] /\ Len(q) \in Nat \ {0}
      /\ Len(Tail(q)) = Len(q) - 1
      /\ \A i \in 1 .. Len(q) - 1 : Tail(q)[i] = q[i + 1]
      /\ DOMAIN q = 1 .. Len(q) /\ DOMAIN Tail(q) = 1 .. Len(q) - 1
  OBVIOUS
<1>2. IsInjective(Tail(q))
  <2>1. ASSUME NEW i \in 1 .. Len(q) - 1, NEW j \in 1 .. Len(q) - 1, Tail(q)[i] = Tail(q)[j]
        PROVE  i = j
    <3>1. q[i + 1] = q[j + 1] /\ i + 1 \in DOMAIN q /\ j + 1 \in DOMAIN q BY <1>1, <2>1
    <3>2. i + 1 = j + 1 BY <3>1 DEF IsInjective
    <3> QED BY <1>1, <3>2
  <2> QED BY <1>1, <2>1 DEF IsInjective
<1>3. ASSUME NEW x \in ToSet(Tail(q)) PROVE x \in ToSet(q) \ {Head(q)}
  <2>1. PICK i \in 1 .. Len(q) - 1 : x = q[i + 1] BY <1>1 DEF ToSet
  <2>2. i + 1 \in DOMAIN q /\ 1 \in DOMAIN q /\ i + 1 # 1 BY <1>1
  <2>3. x # q[1] BY <2>1, <2>2 DEF IsInjective
  <2> QED BY <1>1, <2>1, <2>2, <2>3 DEF ToSet
<1>4. ASSUME NEW x \in ToSet(q) \ {Head(q)} PROVE x \in ToSet(Tail(q))
  <2>1. PICK j \in 1 .. Len(q) : x = q[j] BY <1>1 DEF ToSet
  <2>2. j # 1 BY <1>1, <2>1
  <2>3. j - 1 \in 1 .. Len(q) - 1 /\ (j - 1) + 1 = j BY <1>1, <2>2
  <2>4. Tail(q)[j - 1] = x BY <1>1, <2>1, <2>3
  <2> QED BY <1>1, <2>3, <2>4 DEF ToSet
<1>5. Head(q) \in S /\ Head(q) \in ToSet(q)
  <2>1. 1 \in DOMAIN q BY <1>1
  <2> QED BY <1>1, <2>1 DEF ToSet
<1> QED BY <1>1, <1>2, <1>3, <1>4, <1>5

(* One turn of the drop loop.                                                *)
LEMMA DropOneInv == ASSUME ServiceInv, DropOne PROVE ServiceInv'
<1>0. /\ TableOK /\ ConnectionTypes /\ TickTypes /\ PeerTypes /\ RestTypes
      /\ RegistryAccessSafe /\ Matches /\ TickOK /\ ComponentsOK
  BY InvGroups
<1> DEFINE e == Head(dropQueue)
<1>1. dropQueue \in Seq(Entity) /\ dropQueue # <<>> /\ IsInjective(dropQueue)
  BY <1>0 DEF DropOne, TickTypes, TickOK
<1>2. /\ Tail(dropQueue) \in Seq(Entity) /\ IsInjective(Tail(dropQueue)) /\ e \in Entity
      /\ ToSet(Tail(dropQueue)) = ToSet(dropQueue) \ {e}
      /\ e \in ToSet(dropQueue)
  BY <1>1, TailOfInjective
<1>3. Told(e) \subseteq Alive /\ e \in Alive
  BY <1>0, <1>2, LoadBalancersAlive DEF TickOK, Told
<1>4. /\ phase = "drop" /\ e \in Alive
      /\ IF info[e] = NoInfo THEN UNCHANGED tableVars ELSE RemoveServer(info[e].type, e, 0)
      /\ AddPacketAndRelease(Told(e), [kind |-> "REMOVE", who |-> e], {e})
      /\ status' = [status EXCEPT ![e] = "DESTROYED"]
      /\ info' = [info EXCEPT ![e] = NoInfo]
      /\ dropQueue' = Tail(dropQueue)
      /\ UNCHANGED <<fault, outOfRange, closed, phase, todo, visiting, requests>>
  BY <1>3 DEF DropOne
<1> HIDE DEF e
<1>5. TableOK' /\ Matches' BY <1>0, <1>2, <1>4, DropMatches DEF Alive, IsAlive
<1>6. ConnectionTypes' BY <1>0, <1>2, <1>4 DEF ConnectionTypes, Status
<1>7. TickTypes' BY <1>0, <1>2, <1>4 DEF TickTypes
<1>8. PeerTypes'
  <2>1. [kind |-> "REMOVE", who |-> e] \in Message BY <1>2 DEF Message
  <2> QED BY <1>0, <1>4, <2>1, AddPacketTypes
<1>9. RestTypes' /\ RegistryAccessSafe' BY <1>0, <1>4 DEF RestTypes, RegistryAccessSafe
<1>10. Alive' = Alive \ {e} BY <1>0, <1>2, <1>4 DEF Alive, IsAlive, ConnectionTypes
<1>11. TickOK'
  <2>1. visiting = NoEntity /\ todo = {} BY <1>0, <1>4 DEF TickOK
  <2> QED BY <1>0, <1>2, <1>4, <1>10, <2>1 DEF TickOK
<1>12. ComponentsOK' BY <1>0, <1>2, <1>4, <1>10 DEF ComponentsOK, ConnectionTypes
<1> QED BY <1>5, <1>6, <1>7, <1>8, <1>9, <1>11, <1>12, InvGroupsNext

-----------------------------------------------------------------------------
(* Nothing happens.                                                          *)
LEMMA StutterInv == ASSUME ServiceInv, UNCHANGED serviceVars PROVE ServiceInv'
<1>0. TickTypes /\ PeerTypes /\ RestTypes /\ TickOK BY InvGroups
<1> USE DEF serviceVars
<1>1. TickTypes' /\ PeerTypes' BY <1>0, TickTypesUnchanged, PeersUnchanged
<1>2. TickOK' BY <1>0, TickUnchanged DEF connectionVars, Alive, IsAlive
<1>3. requests' \in 0 .. MaxRequests BY <1>0 DEF RestTypes
<1> QED BY <1>1, <1>2, <1>3, RegistryUnchanged

(* Every packet handler keeps the invariant.                                 *)
LEMMA HandlerStepInv == ASSUME ServiceInv, HandlerStep PROVE ServiceInv'
<1>1. PICK e \in Entity :
        \/ RejectPacket(e) \/ ClientChallenge(e) \/ ClientHandshake(e)
        \/ \E t \in Types : \E r \in RealmsOf(t) : RegisterServer(e, t, r)
        \/ RegisterLoadBalancer(e) \/ RegisterLoadBalancerFails(e)
        \/ HandleRequestServerInfo(e)
        \/ HandleRequestAddress(e) \/ HandleRequestAddressFails(e)
        \/ \E r \in Realm : HandleRequestRealmConnectionInfo(e, r)
  BY DEF HandlerStep
<1>2. CASE RejectPacket(e) BY <1>2, RejectPacketInv
<1>3. CASE ClientChallenge(e) \/ ClientHandshake(e) BY <1>3, StatusStepInv
<1>4. CASE \E t \in Types : \E r \in RealmsOf(t) : RegisterServer(e, t, r)
  BY <1>4, TypesAssumption, RegisterServerInv
<1>5. CASE RegisterLoadBalancer(e) BY <1>5, RegisterLoadBalancerInv
<1>6. CASE RegisterLoadBalancerFails(e) BY <1>6, RegisterLoadBalancerFailsInv
<1>7. CASE HandleRequestServerInfo(e) BY <1>7, HandleRequestServerInfoInv
<1>8. CASE HandleRequestAddress(e) BY <1>8, HandleRequestAddressInv
<1>9. CASE HandleRequestAddressFails(e) BY <1>9, HandleRequestAddressFailsInv
<1>10. CASE \E r \in Realm : HandleRequestRealmConnectionInfo(e, r)
  BY <1>10, HandleRequestRealmConnectionInfoInv
<1> QED BY <1>1, <1>2, <1>3, <1>4, <1>5, <1>6, <1>7, <1>8, <1>9, <1>10

(* Every step keeps the invariant.                                           *)
LEMMA NextInv == ASSUME ServiceInv, [ServiceNext]_serviceVars PROVE ServiceInv'
<1>1. CASE AcceptStep BY <1>1, HandleConnectionInv DEF AcceptStep
<1>2. CASE VisitStep BY <1>2, BeginVisitInv, HandleDisconnectInv DEF VisitStep
<1>3. CASE HandlerStep BY <1>3, HandlerStepInv
<1>4. CASE \E e \in Entity : EndVisit(e) BY <1>4, EndVisitInv
<1>5. CASE DeferredStep
  BY <1>5, PhaseInv, DropOneInv, StatusStepInv DEF DeferredStep
<1>6. CASE AnswerStep BY <1>6, HandleSendAddressInv DEF AnswerStep
<1>7. CASE UNCHANGED serviceVars BY <1>7, StutterInv
<1> QED BY <1>1, <1>2, <1>3, <1>4, <1>5, <1>6, <1>7 DEF ServiceNext, ServiceStep

(* ServiceInv holds in every reachable state, whatever peers connect, leave, *)
(* register and ask for, in any order the two threads allow.                 *)
THEOREM ServiceInvariant == ServiceSpec => []ServiceInv
BY InitInv, NextInv, PTL DEF ServiceSpec

(* The type invariant of the service.                                        *)
THEOREM ServiceTypeCorrect == ServiceSpec => []ServiceTypeOK
BY ServiceInvariant, PTL DEF ServiceInv

(* No notice or question is queued for a dead load balancer, no client       *)
(* registers twice and no entity is destroyed twice.                         *)
THEOREM RegistryAccessIsSafe == ServiceSpec => []RegistryAccessSafe
BY ServiceInvariant, PTL DEF ServiceInv

(* Outside the realms Remove is never told about, the table lists exactly    *)
(* the live entities with a HasServerInformation, each once.                 *)
THEOREM TableAlwaysMatches == ServiceSpec => []TableMatchesRegistry
BY ServiceInvariant, PTL DEF ServiceInv

-----------------------------------------------------------------------------
(* What a step changes about an entity, it changes for the one being visited,*)
(* for one that is not in the registry yet, or by destroying it.             *)
LEMMA ChangedBy ==
  ASSUME ServiceInv, ServiceNext, NEW e \in Entity
  PROVE  \/ status'[e] = status[e] /\ info'[e] = info[e]
         \/ visiting = e
         \/ status[e] \in {"ABSENT", "QUEUED"}
         \/ status'[e] = "DESTROYED"
<1>0. ConnectionTypes BY InvGroups
<1>1. CASE AcceptStep BY <1>0, <1>1 DEF AcceptStep, HandleConnection, ConnectionTypes
<1>2. CASE VisitStep
  BY <1>2 DEF VisitStep, BeginVisit, HandleDisconnect, connectionVars
<1>3. CASE \E x \in Entity : EndVisit(x) BY <1>3 DEF EndVisit, connectionVars
<1>4. CASE HandlerStep
  <2>1. ASSUME NEW x \in Entity,
               \/ RejectPacket(x) \/ HandleRequestServerInfo(x)
               \/ HandleRequestAddress(x) \/ HandleRequestAddressFails(x)
               \/ \E r \in Realm : HandleRequestRealmConnectionInfo(x, r)
        PROVE  UNCHANGED <<status, info>>
    BY <2>1 DEF RejectPacket, HandleRequestServerInfo, HandleRequestAddress,
         HandleRequestAddressFails, HandleRequestRealmConnectionInfo, connectionVars
  <2>2. ASSUME NEW x \in Entity, ClientChallenge(x) \/ ClientHandshake(x), x # e
        PROVE  status'[e] = status[e] /\ info'[e] = info[e]
    BY <1>0, <2>2 DEF ClientChallenge, ClientHandshake, ConnectionTypes
  <2>3. ASSUME NEW x \in Entity, x # e,
               \/ \E t \in Types : \E r \in RealmsOf(t) : RegisterServer(x, t, r)
               \/ RegisterLoadBalancer(x) \/ RegisterLoadBalancerFails(x)
        PROVE  status'[e] = status[e] /\ info'[e] = info[e]
    BY <1>0, <2>3 DEF RegisterServer, RegisterLoadBalancer, RegisterLoadBalancerFails, Enlist,
         ConnectionTypes
  <2>4. ASSUME NEW x \in Entity,
               \/ ClientChallenge(x) \/ ClientHandshake(x)
               \/ \E t \in Types : \E r \in RealmsOf(t) : RegisterServer(x, t, r)
               \/ RegisterLoadBalancer(x) \/ RegisterLoadBalancerFails(x)
        PROVE  visiting = x
    BY <2>4 DEF ClientChallenge, ClientHandshake, RegisterServer, RegisterLoadBalancer,
         RegisterLoadBalancerFails, Enlist, Handles
  <2> QED BY <1>4, <2>1, <2>2, <2>3, <2>4 DEF HandlerStep
<1>5. CASE DeferredStep
  <2>1. CASE DropOne BY <1>0, <2>1 DEF DropOne, ConnectionTypes
  <2>2. CASE \E x \in Entity : AcceptNew(x) BY <1>0, <2>2 DEF AcceptNew, ConnectionTypes
  <2>3. CASE BeginDeferred \/ BeginDrops \/ EndTick
    BY <2>3 DEF BeginDeferred, BeginDrops, EndTick, connectionVars
  <2> QED BY <1>5, <2>1, <2>2, <2>3 DEF DeferredStep
<1>6. CASE AnswerStep BY <1>6 DEF AnswerStep, HandleSendAddress, connectionVars
<1>7. CASE UNCHANGED serviceVars BY <1>7 DEF serviceVars, connectionVars
<1> QED BY <1>1, <1>2, <1>3, <1>4, <1>5, <1>6, <1>7 DEF ServiceNext, ServiceStep

(* A client that was closed or whose disconnect was noticed keeps its status *)
(* and its registration until it is destroyed: it is neither visited nor     *)
(* waiting to become an entity.                                              *)
THEOREM ClosedAreNotServed == ServiceSpec => NeverServedAgain
<1>1. ASSUME ServiceInv, [ServiceNext]_serviceVars, NEW e \in Entity,
             closed[e] \/ e \in ToSet(dropQueue)
      PROVE  UNCHANGED <<status[e], info[e]>> \/ status'[e] = "DESTROYED"
  <2>0. TickOK /\ ComponentsOK BY <1>1, InvGroups
  <2>1. visiting # e BY <1>1, <2>0, NoEntityAssumption DEF TickOK
  <2>2. e \in Alive \/ status[e] = "DESTROYED" BY <1>1, <2>0 DEF TickOK, ComponentsOK
  <2>3. status[e] \notin {"ABSENT", "QUEUED"} BY <2>2 DEF Alive, IsAlive
  <2>4. CASE ServiceNext BY <1>1, <2>1, <2>3, <2>4, ChangedBy
  <2>5. CASE UNCHANGED serviceVars BY <2>5 DEF serviceVars, connectionVars
  <2> QED BY <1>1, <2>4, <2>5
<1>2. ServiceInv /\ [ServiceNext]_serviceVars =>
        [\A e \in Entity : closed[e] \/ e \in ToSet(dropQueue) =>
             \/ UNCHANGED <<status[e], info[e]>>
             \/ status'[e] = "DESTROYED"]_serviceVars
  BY <1>1
<1> QED BY <1>2, ServiceInvariant, PTL DEF ServiceSpec, NeverServedAgain

-----------------------------------------------------------------------------
(* Address lookups.  First the messages of a buffer, as a set. *)
LEMMA BufferFacts ==
  ASSUME NEW s \in Seq(Message), NEW m \in Message
  PROVE  /\ ToSet(s) \subseteq Message
         /\ \A i \in DOMAIN s : s[i] \in ToSet(s)
         /\ Append(s, m) \in Seq(Message)
         /\ ToSet(Append(s, m)) = ToSet(s) \cup {m}
         /\ ToSet(<<m>>) = {m} /\ ToSet(<<>>) = {}
<1>1. DOMAIN s = 1 .. Len(s) /\ Len(s) \in Nat /\ \A i \in DOMAIN s : s[i] \in Message
  OBVIOUS
<1>2. /\ Append(s, m) \in Seq(Message) /\ Len(Append(s, m)) = Len(s) + 1
      /\ \A i \in 1 .. Len(s) : Append(s, m)[i] = s[i]
      /\ Append(s, m)[Len(s) + 1] = m
      /\ DOMAIN Append(s, m) = 1 .. Len(s) + 1
  BY AppendProperties
<1>3. \A i \in 1 .. Len(s) + 1 : i \in 1 .. Len(s) \/ i = Len(s) + 1 BY <1>1
<1>4. ToSet(Append(s, m)) = ToSet(s) \cup {m}
  <2>1. ASSUME NEW x \in ToSet(Append(s, m)) PROVE x \in ToSet(s) \cup {m}
    BY <1>1, <1>2, <1>3, <2>1 DEF ToSet
  <2>2. ASSUME NEW x \in ToSet(s) PROVE x \in ToSet(Append(s, m))
    BY <1>1, <1>2, <2>2 DEF ToSet
  <2>3. m \in ToSet(Append(s, m))
    <3>1. Len(s) + 1 \in DOMAIN Append(s, m) BY <1>1, <1>2
    <3> QED BY <1>2, <3>1 DEF ToSet
  <2> QED BY <2>1, <2>2, <2>3
<1>5. ToSet(<<m>>) = {m} /\ ToSet(<<>>) = {} BY DEF ToSet
<1> QED BY <1>1, <1>2, <1>4, <1>5 DEF ToSet

(* A packet that is added shows up in the buffers it is added to and in no   *)
(* other; what a peer was asked it has been asked before or was sent.        *)
LEMMA AddPacketMail ==
  ASSUME PeerTypes, NEW targets, NEW gone, NEW m \in Message, NEW e \in Entity,
         AddPacketAndRelease(targets, m, gone)
  PROVE  /\ \A x \in ToSet(outbox'[e]) : x \in ToSet(outbox[e]) \/ (e \in targets /\ x = m)
         /\ asked'[e] \subseteq AskedAfter(e)
         /\ e \notin gone => asked[e] \subseteq asked'[e]
<1>1. outbox[e] \in Seq(Message) BY DEF PeerTypes
<1>2. \/ outbox'[e] = <<>> \/ outbox'[e] = outbox[e]
      \/ e \in targets /\ (outbox'[e] = <<m>> \/ outbox'[e] = Append(outbox[e], m))
  BY DEF AddPacketAndRelease
<1>3. \A x \in ToSet(outbox'[e]) : x \in ToSet(outbox[e]) \/ (e \in targets /\ x = m)
  <2>1. /\ ToSet(Append(outbox[e], m)) = ToSet(outbox[e]) \cup {m}
        /\ ToSet(<<m>>) = {m} /\ ToSet(<<>>) = {}
    BY <1>1, BufferFacts
  <2>2. CASE outbox'[e] = <<>> BY <2>1, <2>2, Zenon
  <2>3. CASE outbox'[e] = outbox[e] BY <2>3, Zenon
  <2>4. CASE e \in targets /\ outbox'[e] = <<m>> BY <2>1, <2>4, Zenon
  <2>5. CASE e \in targets /\ outbox'[e] = Append(outbox[e], m) BY <2>1, <2>5, Zenon
  <2> QED BY <1>2, <2>2, <2>3, <2>4, <2>5, Zenon
<1>4. /\ asked'[e] \in {{}, asked[e], AskedAfter(e)}
      /\ e \notin gone => asked'[e] \in {asked[e], AskedAfter(e)}
  BY DEF AddPacketAndRelease
<1>5. asked[e] \subseteq AskedAfter(e) BY DEF AskedAfter
<1> QED BY <1>3, <1>4, <1>5

-----------------------------------------------------------------------------
(* Where a new message comes from, if not from another peer's answer: a      *)
(* question waits for a load balancer and names the client being visited,    *)
(* which makes a lookup by it; an answer is queued for the client being      *)
(* visited, which it names, and which makes a lookup.                        *)
NewMail(e, m) ==
  \/ m.kind \in {"ADD", "REMOVE"}
  \/ /\ m.kind = "ASK" /\ m.who = visiting
     /\ requests' # requests /\ info[e].type = "LOADBALANCE"
  \/ m.kind = "ANSWER" /\ m.who = e /\ visiting = e /\ requests' # requests

LEMMA MailStep ==
  ASSUME ServiceInv, ServiceStep, NEW e \in Entity
  PROVE  /\ \A m \in ToSet(outbox'[e]) : m \in ToSet(outbox[e]) \/ NewMail(e, m)
         /\ asked'[e] \subseteq AskedAfter(e)
<1>0. TableOK /\ Matches /\ PeerTypes /\ RestTypes BY InvGroups
<1>1. asked[e] \subseteq AskedAfter(e) BY DEF AskedAfter
<1>2. CASE UNCHANGED <<outbox, asked>> BY <1>1, <1>2
<1>3. CASE AcceptStep \/ VisitStep
  BY <1>2, <1>3 DEF AcceptStep, VisitStep, HandleConnection, BeginVisit, HandleDisconnect,
       peerVars
<1>4. ASSUME NEW x \in Entity, EndVisit(x)
      PROVE  /\ \A m \in ToSet(outbox'[e]) : m \in ToSet(outbox[e]) \/ NewMail(e, m)
             /\ asked'[e] \subseteq AskedAfter(e)
  <2>1. CASE UNCHANGED <<outbox, asked>> BY <1>2, <2>1
  <2>2. CASE outbox' = [outbox EXCEPT ![x] = <<>>] /\ asked' = [asked EXCEPT ![x] = AskedAfter(x)]
    <3>1. /\ outbox'[e] = outbox[e] \/ outbox'[e] = <<>>
          /\ asked'[e] = asked[e] \/ asked'[e] = AskedAfter(e)
      BY <1>0, <2>2 DEF PeerTypes
    <3>2. ToSet(<<>>) = {} BY DEF ToSet
    <3> QED BY <1>1, <3>1, <3>2
  <2> QED BY <1>4, <2>1, <2>2 DEF EndVisit, peerVars
<1>5. ASSUME HandlerStep
      PROVE  /\ \A m \in ToSet(outbox'[e]) : m \in ToSet(outbox[e]) \/ NewMail(e, m)
             /\ asked'[e] \subseteq AskedAfter(e)
  <2>1. PICK x \in Entity :
        \/ RejectPacket(x) \/ ClientChallenge(x) \/ ClientHandshake(x)
        \/ \E t \in Types : \E r \in RealmsOf(t) : RegisterServer(x, t, r)
        \/ RegisterLoadBalancer(x) \/ RegisterLoadBalancerFails(x)
        \/ HandleRequestServerInfo(x)
        \/ HandleRequestAddress(x) \/ HandleRequestAddressFails(x)
        \/ \E r \in Realm : HandleRequestRealmConnectionInfo(x, r)
    BY <1>5 DEF HandlerStep
  <2>2. CASE \/ RejectPacket(x) \/ ClientChallenge(x) \/ ClientHandshake(x)
             \/ RegisterLoadBalancer(x) \/ RegisterLoadBalancerFails(x)
             \/ HandleRequestServerInfo(x) \/ HandleRequestAddressFails(x)
    <3>1. UNCHANGED <<outbox, asked>>
      BY <2>2 DEF RejectPacket, ClientChallenge, ClientHandshake, RegisterLoadBalancer,
           RegisterLoadBalancerFails, HandleRequestServerInfo, HandleRequestAddressFails, peerVars
    <3> QED BY <1>2, <3>1
  <2>3. CASE \E t \in Types : \E r \in RealmsOf(t) : RegisterServer(x, t, r)
    <3> DEFINE m == [kind |-> "ADD", who |-> x]
    <3>1. m \in Message /\ m.kind = "ADD" BY DEF Message
    <3>2. AddPacketAndRelease(LoadBalancers, m, {}) BY <2>3 DEF RegisterServer, AddPacket
    <3> HIDE DEF m
    <3> QED BY <1>0, <3>1, <3>2, AddPacketMail DEF NewMail
  <2>4. CASE HandleRequestAddress(x)
    <3> DEFINE m == [kind |-> "ASK", who |-> x]
    <3>1. m \in Message /\ m.kind = "ASK" /\ m.who = x BY DEF Message
    <3>2. /\ visiting = x /\ requests' = requests + 1
          /\ \/ /\ GetServer("LOADBALANCE", 0)
                /\ AddPacketAndRelease({Picked("LOADBALANCE", 0)}, m, {})
             \/ UNCHANGED <<outbox, asked>>
      BY <2>4 DEF HandleRequestAddress, Handles, CountRequest, AddPacket, peerVars
    <3>3. requests' # requests BY <1>0, <3>2 DEF RestTypes
    <3> HIDE DEF m
    <3>4. CASE GetServer("LOADBALANCE", 0) /\ AddPacketAndRelease({Picked("LOADBALANCE", 0)}, m, {})
      <4>1. info[Picked("LOADBALANCE", 0)].type = "LOADBALANCE"
        BY <1>0, <3>4, PickedListed, BalancerInfo
      <4>2. NewMail(Picked("LOADBALANCE", 0), m) BY <3>1, <3>2, <3>3, <4>1 DEF NewMail
      <4> QED BY <1>0, <3>1, <3>4, <4>2, AddPacketMail
    <3> QED BY <1>2, <3>2, <3>4
  <2>5. CASE \E r \in Realm : HandleRequestRealmConnectionInfo(x, r)
    <3> DEFINE m == [kind |-> "ANSWER", who |-> x]
    <3>1. m \in Message /\ m.kind = "ANSWER" /\ m.who = x BY DEF Message
    <3>2. /\ visiting = x /\ requests' = requests + 1
          /\ AddPacketAndRelease({x}, m, {}) \/ UNCHANGED <<outbox, asked>>
      BY <2>5 DEF HandleRequestRealmConnectionInfo, Handles, CountRequest, AddPacket, peerVars
    <3>3. requests' # requests BY <1>0, <3>2 DEF RestTypes
    <3> HIDE DEF m
    <3>4. NewMail(x, m) BY <3>1, <3>2, <3>3 DEF NewMail
    <3> QED BY <1>0, <1>2, <3>1, <3>2, <3>4, AddPacketMail
  <2> QED BY <2>1, <2>2, <2>3, <2>4, <2>5
<1>6. CASE DeferredStep
  <2>1. CASE DropOne
    <3> DEFINE m == [kind |-> "REMOVE", who |-> Head(dropQueue)]
    <3>1. m \in Message /\ m.kind = "REMOVE"
      <4>1. dropQueue \in Seq(Entity) /\ dropQueue # <<>>
        BY <2>1, InvGroups DEF DropOne, TickTypes
      <4>2. Head(dropQueue) \in Entity BY <4>1, HeadTailProperties
      <4> QED BY <4>2 DEF Message
    <3>2. AddPacketAndRelease(Told(Head(dropQueue)), m, {Head(dropQueue)})
      BY <2>1 DEF DropOne
    <3> HIDE DEF m
    <3> QED BY <1>0, <3>1, <3>2, AddPacketMail DEF NewMail
  <2>2. CASE BeginDeferred \/ BeginDrops \/ EndTick \/ \E x \in Entity : AcceptNew(x)
    BY <1>2, <2>2 DEF BeginDeferred, BeginDrops, EndTick, AcceptNew, peerVars
  <2> QED BY <1>6, <2>1, <2>2 DEF DeferredStep
<1> QED BY <1>3, <1>4, <1>5, <1>6 DEF ServiceStep

(* Of a peer's answer: it is queued for whom it names, and nothing else is.  *)
LEMMA AnswerMail ==
  ASSUME ServiceInv, NEW x \in Entity, NEW who, HandleSendAddress(x, who), NEW e \in Entity
  PROVE  /\ \A m \in ToSet(outbox'[e]) :
              m \in ToSet(outbox[e]) \/ (e = who /\ m = [kind |-> "ANSWER", who |-> e])
         /\ asked'[e] \subseteq AskedAfter(e)
<1>0. PeerTypes BY InvGroups
<1>1. asked[e] \subseteq AskedAfter(e) BY DEF AskedAfter
<1>2. CASE who \in Alive
  <2> DEFINE m == [kind |-> "ANSWER", who |-> who]
  <2>1. AddPacketAndRelease({who}, m, {}) BY <1>2 DEF HandleSendAddress, AddPacket
  <2>2. m \in Message BY <1>2 DEF Message, Alive
  <2>3. e = who => m = [kind |-> "ANSWER", who |-> e] OBVIOUS
  <2> HIDE DEF m
  <2> QED BY <1>0, <2>1, <2>2, <2>3, AddPacketMail
<1>3. CASE who \notin Alive BY <1>1, <1>3 DEF HandleSendAddress, peerVars
<1> QED BY <1>2, <1>3

-----------------------------------------------------------------------------
(* A registration lasts: it goes only with its entity, and with whatever was *)
(* buffered for it or asked of it.                                           *)
LEMMA InfoStep ==
  ASSUME ServiceInv, ServiceStep \/ AnswerStep, NEW e \in Entity, info[e] # NoInfo
  PROVE  info'[e] = info[e] \/ (outbox'[e] = <<>> /\ asked'[e] = {})
<1>0. ConnectionTypes BY InvGroups
<1>1. CASE UNCHANGED info BY <1>1
<1>2. CASE AcceptStep \/ VisitStep \/ AnswerStep \/ \E x \in Entity : EndVisit(x)
  BY <1>1, <1>2 DEF AcceptStep, HandleConnection, VisitStep, BeginVisit, HandleDisconnect,
       AnswerStep, HandleSendAddress, EndVisit, connectionVars
<1>3. CASE HandlerStep
  <2>1. ASSUME NEW x \in Entity,
               \/ RejectPacket(x) \/ ClientChallenge(x) \/ ClientHandshake(x)
               \/ HandleRequestServerInfo(x)
               \/ HandleRequestAddress(x) \/ HandleRequestAddressFails(x)
               \/ \E r \in Realm : HandleRequestRealmConnectionInfo(x, r)
        PROVE  UNCHANGED info
    BY <2>1 DEF RejectPacket, ClientChallenge, ClientHandshake, HandleRequestServerInfo,
         HandleRequestAddress, HandleRequestAddressFails, HandleRequestRealmConnectionInfo,
         connectionVars
  <2>2. ASSUME NEW x \in Entity, NEW t \in AddressType, NEW r \in RealmsOf(t), Enlist(x, t, r),
               status' = status \/ status' = [status EXCEPT ![x] = "CONNECTED"]
        PROVE  info'[e] = info[e]
    <3>1. x # e BY <2>2, EnlistFacts
    <3> QED BY <1>0, <2>2, <3>1 DEF Enlist, ConnectionTypes
  <2>3. "LOADBALANCE" \in AddressType /\ 0 \in RealmsOf("LOADBALANCE")
    BY DEF AddressType, GlobalTypes, RealmTypes, RealmsOf
  <2>4. ASSUME NEW x \in Entity,
               \/ \E t \in Types : \E r \in RealmsOf(t) : RegisterServer(x, t, r)
               \/ RegisterLoadBalancer(x) \/ RegisterLoadBalancerFails(x)
        PROVE  info'[e] = info[e]
    BY <2>2, <2>3, <2>4, TypesAssumption DEF RegisterServer, RegisterLoadBalancer,
         RegisterLoadBalancerFails
  <2> QED BY <1>1, <1>3, <2>1, <2>4 DEF HandlerStep
<1>4. CASE DeferredStep
  <2>1. CASE DropOne
    <3>1. info' = [info EXCEPT ![Head(dropQueue)] = NoInfo] BY <2>1 DEF DropOne
    <3>2. CASE e = Head(dropQueue)
      BY <2>1, <3>2 DEF DropOne, AddPacketAndRelease
    <3> QED BY <1>0, <3>1, <3>2 DEF ConnectionTypes
  <2>2. CASE BeginDeferred \/ BeginDrops \/ EndTick \/ \E x \in Entity : AcceptNew(x)
    BY <1>1, <2>2 DEF BeginDeferred, BeginDrops, EndTick, AcceptNew, connectionVars
  <2> QED BY <1>4, <2>1, <2>2 DEF DeferredStep
<1> QED BY <1>2, <1>3, <1>4 DEF ServiceStep

(* A lookup is made by a connected client during its visit. *)
LEMMA AskerConnected ==
  ASSUME ServiceStep, requests' # requests
  PROVE  visiting \in Entity /\ status[visiting] = "CONNECTED"
<1>1. CASE AcceptStep \/ VisitStep \/ DeferredStep \/ \E x \in Entity : EndVisit(x)
  BY <1>1 DEF AcceptStep, HandleConnection, VisitStep, BeginVisit, HandleDisconnect, EndVisit,
       DeferredStep, BeginDeferred, BeginDrops, EndTick, AcceptNew, DropOne
<1>2. CASE HandlerStep
  <2>1. ASSUME NEW x \in Entity,
               \/ RejectPacket(x) \/ ClientChallenge(x) \/ ClientHandshake(x)
               \/ \E t \in Types : \E r \in RealmsOf(t) : RegisterServer(x, t, r)
               \/ RegisterLoadBalancer(x) \/ RegisterLoadBalancerFails(x)
               \/ HandleRequestServerInfo(x)
        PROVE  FALSE
    BY <2>1 DEF RejectPacket, ClientChallenge, ClientHandshake, RegisterServer,
         RegisterLoadBalancer, RegisterLoadBalancerFails, Enlist, HandleRequestServerInfo
  <2>2. ASSUME NEW x \in Entity,
               \/ HandleRequestAddress(x) \/ HandleRequestAddressFails(x)
               \/ \E r \in Realm : HandleRequestRealmConnectionInfo(x, r)
        PROVE  visiting = x /\ status[x] = "CONNECTED"
    BY <2>2 DEF HandleRequestAddress, HandleRequestAddressFails,
         HandleRequestRealmConnectionInfo, Handles
  <2> QED BY <1>2, <2>1, <2>2 DEF HandlerStep
<1> QED BY <1>1, <1>2 DEF ServiceStep

(* A client is never a stranger again. *)
LEMMA OnceAClient ==
  ASSUME ServiceInv, [ServiceNext]_serviceVars, NEW e \in Entity,
         status[e] \notin {"ABSENT", "QUEUED"}
  PROVE  status'[e] \notin {"ABSENT", "QUEUED"}
<1>0. ConnectionTypes /\ TickTypes BY InvGroups
<1>1. CASE AcceptStep BY <1>0, <1>1 DEF AcceptStep, HandleConnection, ConnectionTypes
<1>2. CASE VisitStep
  BY <1>2 DEF VisitStep, BeginVisit, HandleDisconnect, connectionVars
<1>3. CASE \E x \in Entity : EndVisit(x) BY <1>3 DEF EndVisit, connectionVars
<1>4. CASE HandlerStep
  <2>1. CASE UNCHANGED status BY <2>1
  <2>2. CASE \E x \in Entity : \E s \in {"AUTH_HANDSHAKE", "AUTH_SUCCESS", "CONNECTED"} :
               status' = [status EXCEPT ![x] = s]
    BY <1>0, <2>2 DEF ConnectionTypes
  <2>3. ASSUME NEW x \in Entity,
               \/ RejectPacket(x) \/ HandleRequestServerInfo(x)
               \/ HandleRequestAddress(x) \/ HandleRequestAddressFails(x)
               \/ \E r \in Realm : HandleRequestRealmConnectionInfo(x, r)
               \/ RegisterLoadBalancerFails(x)
        PROVE  UNCHANGED status
    BY <2>3 DEF RejectPacket, HandleRequestServerInfo, HandleRequestAddress,
         HandleRequestAddressFails, HandleRequestRealmConnectionInfo,
         RegisterLoadBalancerFails, connectionVars
  <2>4. ASSUME NEW x \in Entity,
               \/ ClientChallenge(x) \/ ClientHandshake(x)
               \/ \E t \in Types : \E r \in RealmsOf(t) : RegisterServer(x, t, r)
               \/ RegisterLoadBalancer(x)
        PROVE  \E s \in {"AUTH_HANDSHAKE", "AUTH_SUCCESS", "CONNECTED"} :
                 status' = [status EXCEPT ![x] = s]
    BY <2>4 DEF ClientChallenge, ClientHandshake, RegisterServer, RegisterLoadBalancer
  <2> QED BY <1>4, <2>1, <2>2, <2>3, <2>4 DEF HandlerStep
<1>5. CASE DeferredStep
  <2>1. CASE DropOne
    <3>1. status' = [status EXCEPT ![Head(dropQueue)] = "DESTROYED"] BY <2>1 DEF DropOne
    <3> QED BY <1>0, <3>1 DEF ConnectionTypes
  <2>2. CASE \E x \in Entity : AcceptNew(x) BY <1>0, <2>2 DEF AcceptNew, ConnectionTypes
  <2>3. CASE BeginDeferred \/ BeginDrops \/ EndTick
    BY <2>3 DEF BeginDeferred, BeginDrops, EndTick, connectionVars
  <2> QED BY <1>5, <2>1, <2>2, <2>3 DEF DeferredStep
<1>6. CASE AnswerStep BY <1>6 DEF AnswerStep, HandleSendAddress, connectionVars
<1>7. CASE UNCHANGED serviceVars BY <1>7 DEF serviceVars, connectionVars
<1> QED BY <1>1, <1>2, <1>3, <1>4, <1>5, <1>6, <1>7 DEF ServiceNext, ServiceStep

-----------------------------------------------------------------------------
(* Apart from a peer's answer, only an address request reaches a null or an  *)
(* unknown entity.                                                           *)
LEMMA FaultStep ==
  ASSUME ServiceInv, ServiceStep, ~Undefined, fault' \in {"null entity", "unknown requester"}
  PROVE  \E x \in Entity : HandleRequestAddress(x)
<1>0. fault = "none" BY DEF Undefined
<1>1. CASE AcceptStep BY <1>0, <1>1 DEF AcceptStep, HandleConnection
<1>2. CASE VisitStep BY <1>0, <1>2 DEF VisitStep, BeginVisit, HandleDisconnect
<1>3. CASE \E x \in Entity : EndVisit(x) BY <1>0, <1>3 DEF EndVisit
<1>4. CASE HandlerStep
  <2>1. ASSUME NEW x \in Entity,
               \/ RejectPacket(x) \/ ClientChallenge(x) \/ ClientHandshake(x)
               \/ HandleRequestServerInfo(x) \/ HandleRequestAddressFails(x)
               \/ \E r \in Realm : HandleRequestRealmConnectionInfo(x, r)
        PROVE  fault' = fault
    BY <2>1 DEF RejectPacket, ClientChallenge, ClientHandshake, HandleRequestServerInfo,
         HandleRequestAddressFails, HandleRequestRealmConnectionInfo
  <2>2. ASSUME NEW x \in Entity,
               \/ \E t \in Types : \E r \in RealmsOf(t) : RegisterServer(x, t, r)
               \/ RegisterLoadBalancer(x) \/ RegisterLoadBalancerFails(x)
        PROVE  fault' \in {"none", "dead load balancer", "registered twice"}
    BY <1>0, <2>2 DEF RegisterServer, RegisterLoadBalancer, RegisterLoadBalancerFails, Emplace
  <2> QED BY <1>0, <1>4, <2>1, <2>2 DEF HandlerStep
<1>5. CASE DeferredStep
  <2>1. CASE DropOne BY <1>0, <2>1 DEF DropOne
  <2>2. CASE BeginDeferred \/ BeginDrops \/ EndTick \/ \E x \in Entity : AcceptNew(x)
    BY <1>0, <2>2 DEF BeginDeferred, BeginDrops, EndTick, AcceptNew
  <2> QED BY <1>5, <2>1, <2>2 DEF DeferredStep
<1> QED BY <1>1, <1>2, <1>3, <1>4, <1>5 DEF ServiceStep

(* A connected load balancer is in the list the lookups read. *)
LEMMA ConnectedBalancerListed ==
  ASSUME Matches, NEW e \in Entity, info[e].type = "LOADBALANCE", info[e] # NoInfo
  PROVE  Servers("LOADBALANCE", 0) # <<>>
<1>1. e \in Listed("LOADBALANCE", info[e].realm) BY DEF Matches
<1>2. Key("LOADBALANCE", info[e].realm) = 0 /\ Key("LOADBALANCE", 0) = 0
  BY DEF Key, RealmTypes
<1>3. e \in ToSet(Servers("LOADBALANCE", 0)) BY <1>1, <1>2 DEF Listed, Servers
<1>4. ToSet(<<>>) = {} BY DEF ToSet
<1> QED BY <1>3, <1>4

-----------------------------------------------------------------------------
(* AnswersFindTheAsker, said of the messages and not of their places. *)
MailIsWanted ==
  \A e \in Entity :
    /\ \A m \in ToSet(outbox[e]) :
         /\ m.kind = "ASK" => m.who \in requested /\ info[e].type = "LOADBALANCE"
         /\ m.kind = "ANSWER" => m.who = e /\ e \in requested \cup unasked
    /\ asked[e] # {} => info[e].type = "LOADBALANCE"
    /\ asked[e] \subseteq requested
    /\ answered \subseteq requested \cup unasked

(* Whoever asked was a client. *)
AskersWereClients == \A w \in requested : w \in Entity /\ status[w] \notin {"ABSENT", "QUEUED"}

AskingInv == ServiceInv /\ MailIsWanted /\ AskersWereClients /\ LookupFaultsExplained

LEMMA WantedIsFound == ASSUME PeerTypes PROVE MailIsWanted <=> AnswersFindTheAsker
<1>1. ASSUME NEW e \in Entity
      PROVE  \A m : m \in ToSet(outbox[e]) <=> \E i \in DOMAIN outbox[e] : m = outbox[e][i]
  BY DEF ToSet
<1>2. MailIsWanted => AnswersFindTheAsker BY <1>1 DEF MailIsWanted, AnswersFindTheAsker
<1>3. AnswersFindTheAsker => MailIsWanted BY <1>1 DEF MailIsWanted, AnswersFindTheAsker
<1> QED BY <1>2, <1>3

(* With or without the history variables the service does the same. *)
LEMMA LookupIsService == ASSUME LookupNext PROVE [ServiceNext]_serviceVars
BY DEF LookupNext, Answer, ServiceNext, AnswerStep, Stopped, lookupVars

(* Where a message comes from, in terms of who asked. *)
LEMMA LookupMail ==
  ASSUME ServiceInv, MailIsWanted, LookupNext, ~Undefined, NEW e \in Entity
  PROVE  /\ requested \subseteq requested' /\ unasked \subseteq unasked'
         /\ asked'[e] \subseteq AskedAfter(e)
         /\ \A m \in ToSet(outbox'[e]) :
              \/ m \in ToSet(outbox[e])
              \/ m.kind \in {"ADD", "REMOVE"}
              \/ m.kind = "ASK" /\ m.who \in requested' /\ info[e].type = "LOADBALANCE"
              \/ m.kind = "ANSWER" /\ m.who = e /\ e \in requested' \cup unasked'
<1>1. CASE ServiceStep /\ RecordAsker /\ UNCHANGED unasked
  <2>1. requested \subseteq requested' /\ (requests' # requests => visiting \in requested')
    BY <1>1 DEF RecordAsker
  <2>2. asked'[e] \subseteq AskedAfter(e) BY <1>1, MailStep
  <2>3. ASSUME NEW m \in ToSet(outbox'[e]), NewMail(e, m)
        PROVE  \/ m.kind \in {"ADD", "REMOVE"}
               \/ m.kind = "ASK" /\ m.who \in requested' /\ info[e].type = "LOADBALANCE"
               \/ m.kind = "ANSWER" /\ m.who = e /\ e \in requested' \cup unasked'
    BY <2>1, <2>3 DEF NewMail
  <2> QED BY <1>1, <2>1, <2>2, <2>3, MailStep
<1>2. ASSUME NEW x \in Entity, NEW who \in Entity \cup {NoEntity}, Answer(x, who)
      PROVE  /\ requested \subseteq requested' /\ unasked \subseteq unasked'
             /\ asked'[e] \subseteq AskedAfter(e)
             /\ \A m \in ToSet(outbox'[e]) :
                  \/ m \in ToSet(outbox[e])
                  \/ m.kind = "ANSWER" /\ m.who = e /\ e \in requested' \cup unasked'
  <2>1. /\ HandleSendAddress(x, who) /\ requested' = requested /\ unasked \subseteq unasked'
        /\ who \in asked[x] \/ who \in unasked'
    BY <1>2 DEF Answer
  <2>2. who \in requested' \cup unasked' BY <2>1 DEF MailIsWanted
  <2>3. asked'[e] \subseteq AskedAfter(e) BY <2>1, AnswerMail
  <2>4. ASSUME NEW m \in ToSet(outbox'[e]), m \notin ToSet(outbox[e])
        PROVE  m.kind = "ANSWER" /\ m.who = e /\ e = who
    <3>1. e = who /\ m = [kind |-> "ANSWER", who |-> e] BY <2>1, <2>4, AnswerMail
    <3> QED BY <3>1
  <2> QED BY <2>1, <2>2, <2>3, <2>4
<1> QED BY <1>1, <1>2 DEF LookupNext, Stopped

LEMMA WantedStep ==
  ASSUME ServiceInv, MailIsWanted, LookupNext, ~Undefined PROVE MailIsWanted'
<1>1. ASSUME NEW e \in Entity
      PROVE  /\ requested \subseteq requested' /\ unasked \subseteq unasked'
             /\ asked'[e] \subseteq AskedAfter(e)
             /\ \A m \in ToSet(outbox'[e]) :
                  \/ m \in ToSet(outbox[e])
                  \/ m.kind \in {"ADD", "REMOVE"}
                  \/ m.kind = "ASK" /\ m.who \in requested' /\ info[e].type = "LOADBALANCE"
                  \/ m.kind = "ANSWER" /\ m.who = e /\ e \in requested' \cup unasked'
  BY LookupMail
<1>2. ServiceStep \/ AnswerStep BY DEF LookupNext, Answer, AnswerStep, Stopped
<1>3. ASSUME NEW e \in Entity, info[e].type = "LOADBALANCE"
      PROVE  info'[e].type = "LOADBALANCE" \/ (ToSet(outbox'[e]) = {} /\ asked'[e] = {})
  <2>1. info[e] # NoInfo BY <1>3 DEF NoInfo
  <2>2. ToSet(<<>>) = {} BY DEF ToSet
  <2>3. info'[e] = info[e] \/ (outbox'[e] = <<>> /\ asked'[e] = {}) BY <1>2, <2>1, InfoStep
  <2> QED BY <1>3, <2>2, <2>3
<1>4. ASSUME NEW e \in Entity, NEW m \in ToSet(outbox'[e])
      PROVE  /\ m.kind = "ASK" => m.who \in requested' /\ info'[e].type = "LOADBALANCE"
             /\ m.kind = "ANSWER" => m.who = e /\ e \in requested' \cup unasked'
  <2>1. /\ m.kind = "ASK" => m.who \in requested' /\ info[e].type = "LOADBALANCE"
        /\ m.kind = "ANSWER" => m.who = e /\ e \in requested' \cup unasked'
    <3>1. CASE m \in ToSet(outbox[e]) BY <1>1, <3>1 DEF MailIsWanted
    <3>2. CASE m \notin ToSet(outbox[e]) BY <1>1, <3>2
    <3> QED BY <3>1, <3>2
  <2> QED BY <1>3, <2>1
<1>5. ASSUME NEW e \in Entity
      PROVE  /\ asked'[e] # {} => info'[e].type = "LOADBALANCE"
             /\ asked'[e] \subseteq requested'
  <2>1. ASSUME NEW w \in Entity, [kind |-> "ASK", who |-> w] \in ToSet(outbox[e])
        PROVE  w \in requested /\ info[e].type = "LOADBALANCE"
    BY <2>1 DEF MailIsWanted
  <2>2. asked[e] \subseteq requested /\ (asked[e] # {} => info[e].type = "LOADBALANCE")
    BY DEF MailIsWanted
  <2>3. asked'[e] \subseteq requested BY <1>1, <2>1, <2>2 DEF AskedAfter
  <2>4. asked'[e] # {} => info[e].type = "LOADBALANCE" BY <1>1, <2>1, <2>2 DEF AskedAfter
  <2> QED BY <1>1, <1>3, <2>3, <2>4
<1>6. ASSUME NEW e \in Entity PROVE answered' \subseteq requested' \cup unasked'
  <2>1. ASSUME NEW w \in Entity, AnswerIn(w) PROVE w \in requested \cup unasked
    <3>1. PICK i \in DOMAIN outbox[w] : outbox[w][i].kind = "ANSWER" BY <2>1 DEF AnswerIn
    <3>2. outbox[w][i] \in ToSet(outbox[w]) BY <3>1 DEF ToSet
    <3> QED BY <3>1, <3>2 DEF MailIsWanted
  <2>2. answered' = answered \cup { w \in Entity : AnswerIn(w) /\ SentNow(w) }
    BY DEF LookupNext, Answer, RecordSent, Stopped
  <2>3. answered \subseteq requested \cup unasked BY DEF MailIsWanted
  <2> QED BY <1>1, <2>1, <2>2, <2>3
<1> QED BY <1>4, <1>5, <1>6 DEF MailIsWanted

(* A client that asked stays one, or is destroyed. *)
LEMMA AskersStep ==
  ASSUME ServiceInv, AskersWereClients, LookupNext, ~Undefined PROVE AskersWereClients'
<1>1. ASSUME NEW w \in requested', w \notin requested
      PROVE  ServiceStep /\ requests' # requests /\ w = visiting
  <2>1. requested' # requested BY <1>1
  <2>2. ServiceStep /\ RecordAsker BY <2>1 DEF LookupNext, Answer, Stopped
  <2> QED BY <1>1, <2>2 DEF RecordAsker
<1>2. ASSUME NEW w \in requested' PROVE w \in Entity /\ status[w] \notin {"ABSENT", "QUEUED"}
  BY <1>1, AskerConnected DEF AskersWereClients
<1>3. [ServiceNext]_serviceVars BY LookupIsService
<1> QED BY <1>2, <1>3, OnceAClient DEF AskersWereClients

LEMMA ExplainedStep ==
  ASSUME ServiceInv, MailIsWanted, AskersWereClients, LookupNext, ~Undefined
  PROVE  LookupFaultsExplained'
<1>0. Matches /\ PeerTypes /\ fault = "none" BY InvGroups DEF Undefined
<1>1. CASE ServiceStep /\ fault' \notin {"null entity", "unknown requester"}
  BY <1>1 DEF LookupFaultsExplained
<1>2. CASE ServiceStep /\ fault' \in {"null entity", "unknown requester"}
  <2>1. PICK x \in Entity : HandleRequestAddress(x) BY <1>2, FaultStep
  <2>2. /\ fault' = "null entity" /\ GetNone("LOADBALANCE", 0)
        /\ status' = status /\ info' = info
    BY <1>0, <1>2, <2>1 DEF HandleRequestAddress, connectionVars
  <2>3. Servers("LOADBALANCE", 0) = <<>> BY <2>2 DEF GetNone
  <2>4. ASSUME NEW e \in Entity, info[e].type = "LOADBALANCE" PROVE FALSE
    <3>1. info[e] # NoInfo BY <2>4 DEF NoInfo
    <3> QED BY <1>0, <2>3, <2>4, <3>1, ConnectedBalancerListed
  <2> QED BY <2>2, <2>4 DEF LookupFaultsExplained
<1>3. ASSUME NEW x \in Entity, NEW who \in Entity \cup {NoEntity}, Answer(x, who)
      PROVE  LookupFaultsExplained'
  <2>1. /\ HandleSendAddress(x, who) /\ requested' = requested
        /\ who \in asked[x] \/ who \in unasked'
    BY <1>3 DEF Answer
  <2>2. visiting = x /\ visiting' = x /\ status' = status /\ Alive' = Alive
    BY <2>1 DEF HandleSendAddress, Handles, connectionVars, tickVars, Alive, IsAlive
  <2>3. CASE who \in Alive
    BY <1>0, <2>1, <2>3 DEF HandleSendAddress, LookupFaultsExplained
  <2>4. CASE who \notin Alive
    <3>1. fault' = "unknown requester" /\ asked' = asked
      BY <2>1, <2>4 DEF HandleSendAddress, peerVars
    <3>2. CASE who \in unasked' BY <2>2, <2>4, <3>1, <3>2 DEF LookupFaultsExplained
    <3>3. CASE who \in asked[x]
      <4>1. who \in requested BY <3>3 DEF MailIsWanted
      <4>2. who \in Entity /\ status[who] \notin {"ABSENT", "QUEUED"}
        BY <4>1 DEF AskersWereClients
      <4>3. status[who] = "DESTROYED" BY <2>4, <4>2 DEF Alive, IsAlive
      <4>4. x # NoEntity BY NoEntityAssumption
      <4> QED BY <2>1, <2>2, <3>1, <3>3, <4>1, <4>3, <4>4 DEF LookupFaultsExplained
    <3> QED BY <2>1, <3>2, <3>3
  <2> QED BY <2>3, <2>4
<1> QED BY <1>1, <1>2, <1>3 DEF LookupNext, Stopped

(* Nothing is claimed of what follows undefined behaviour. *)
LEMMA LookupStops ==
  ASSUME AskingInv, UNCHANGED lookupVars
  PROVE  MailIsWanted' /\ AskersWereClients' /\ LookupFaultsExplained'
<1> USE DEF AskingInv, lookupVars, serviceVars, connectionVars, tickVars, peerVars
<1>1. MailIsWanted' BY DEF MailIsWanted
<1>2. AskersWereClients' BY DEF AskersWereClients
<1>3. LookupFaultsExplained' BY DEF LookupFaultsExplained, Alive, IsAlive
<1> QED BY <1>1, <1>2, <1>3

LEMMA LookupInvariant == LookupSpec => []AskingInv
<1>1. LookupInit => AskingInv
  <2> SUFFICES ASSUME LookupInit PROVE AskingInv OBVIOUS
  <2>1. ToSet(<<>>) = {} BY DEF ToSet
  <2>2. ServiceInv BY InitInv DEF LookupInit
  <2>3. MailIsWanted BY <2>1 DEF LookupInit, ServiceInit, MailIsWanted
  <2>4. AskersWereClients /\ LookupFaultsExplained
    BY DEF LookupInit, ServiceInit, AskersWereClients, LookupFaultsExplained
  <2> QED BY <2>2, <2>3, <2>4 DEF AskingInv
<1>2. ASSUME AskingInv, [LookupNext]_lookupVars PROVE AskingInv'
  <2>1. ServiceInv'
    <3>1. [ServiceNext]_serviceVars BY <1>2, LookupIsService DEF lookupVars
    <3> QED BY <1>2, <3>1, NextInv DEF AskingInv
  <2>2. CASE LookupNext /\ ~Undefined
    BY <1>2, <2>1, <2>2, WantedStep, AskersStep, ExplainedStep DEF AskingInv
  <2>3. CASE UNCHANGED lookupVars BY <1>2, <2>1, <2>3, LookupStops DEF AskingInv
  <2>4. LookupNext => ~Undefined \/ UNCHANGED lookupVars
    BY DEF LookupNext, Answer, Stopped, lookupVars
  <2> QED BY <1>2, <2>2, <2>3, <2>4
<1> QED BY <1>1, <1>2, PTL DEF LookupSpec

(* Without any assumption on the peers: a lookup fails for want of a load    *)
(* balancer only while none is connected; and an answer fails only because   *)
(* its requester, which asked for it as a client, has been destroyed, or     *)
(* because a peer named somebody it had not been asked for.                  *)
THEOREM LookupFaultsAreExplained == LookupSpec => []LookupFaultsExplained
BY LookupInvariant, PTL DEF AskingInv

(* A question waits only for, and reaches only, a load balancer, and is about*)
(* a client that asked; an answer is only ever queued for, and sent to, the  *)
(* client it is about, which asked or for which a peer answered unasked:     *)
(* whatever is buffered, sent early, dropped or answered twice in between.   *)
THEOREM AnswersAlwaysFindTheAsker == LookupSpec => []AnswersFindTheAsker
<1>1. AskingInv => AnswersFindTheAsker BY InvGroups, WantedIsFound DEF AskingInv
<1> QED BY <1>1, LookupInvariant, PTL
=============================================================================
