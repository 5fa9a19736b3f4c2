--------------------------- MODULE DirectoryProofs ---------------------------
(***************************************************************************)
(* What the load balancers end up knowing, for every set of entities,      *)
(* realms and types and every size of the buffers: their copies of the     *)
(* server list converge, and the service implements Directory, as long as  *)
(* the server list fits into one full list.                                *)
(***************************************************************************)
EXTENDS ServiceDirectory, ServiceProofs, FiniteSetTheorems

-----------------------------------------------------------------------------
(* Beliefs: what a peer knows of s when the messages of the sequence b reach *)
(* it and it knows the servers in v.                                         *)

About(m, s) == m.kind \in {"ADD", "REMOVE"} /\ m.who = s

NoticesIn(b, s) == { i \in DOMAIN b : About(b[i], s) }

Believes(b, v, s) ==
  IF NoticesIn(b, s) = {} THEN s \in v
  ELSE \E i \in NoticesIn(b, s) : b[i].kind = "ADD" /\ \A j \in NoticesIn(b, s) : j <= i

(* The last notice decides.                                                  *)
LEMMA BelievesAppend ==
  ASSUME NEW b \in Seq(Message), NEW m \in Message, NEW v, NEW s
  PROVE  /\ Believes(Append(b, m), v, s) <=> IF About(m, s) THEN m.kind = "ADD"
                                             ELSE Believes(b, v, s)
         /\ NoticesIn(b, s) = {} /\ ~About(m, s) => NoticesIn(Append(b, m), s) = {}
<1> DEFINE c == Append(b, m)
           n == Len(b)
<1>1. /\ n \in Nat /\ DOMAIN b = 1 .. n /\ DOMAIN c = 1 .. n + 1
      /\ \A i \in 1 .. n : c[i] = b[i]
      /\ c[n + 1] = m
  BY AppendProperties
<1> HIDE DEF c, n
<1>2. CASE About(m, s)
  <2>1. n + 1 \in NoticesIn(c, s) BY <1>1, <1>2 DEF NoticesIn
  <2>2. \A j \in NoticesIn(c, s) : j \in 1 .. n + 1 BY <1>1 DEF NoticesIn
  <2>3. \A i \in NoticesIn(c, s) : (\A j \in NoticesIn(c, s) : j <= i) <=> i = n + 1
    BY <1>1, <2>1, <2>2
  <2>4. Believes(c, v, s) <=> m.kind = "ADD"
    BY <1>1, <2>1, <2>3 DEF Believes
  <2> QED BY <1>2, <2>4 DEF c
<1>3. CASE ~About(m, s)
  <2>1. NoticesIn(c, s) = NoticesIn(b, s)
    <3>1. \A i \in 1 .. n + 1 : i = n + 1 \/ i \in 1 .. n BY <1>1
    <3>2. \A i \in 1 .. n : i \in 1 .. n + 1 BY <1>1
    <3> QED BY <1>1, <1>3, <3>1, <3>2 DEF NoticesIn
  <2>2. \A i \in NoticesIn(b, s) : c[i] = b[i] BY <1>1 DEF NoticesIn
  <2>3. Believes(c, v, s) <=> Believes(b, v, s) BY <2>1, <2>2 DEF Believes
  <2> QED BY <1>3, <2>1, <2>3 DEF c
<1> QED BY <1>2, <1>3

(* Nothing in the buffer, or one message.                                    *)
LEMMA BelievesShort ==
  ASSUME NEW m, NEW v, NEW s
  PROVE  /\ Believes(<<>>, v, s) <=> s \in v
         /\ NoticesIn(<<>>, s) = {}
         /\ Believes(<<m>>, v, s) <=> IF About(m, s) THEN m.kind = "ADD" ELSE s \in v
         /\ ~About(m, s) => NoticesIn(<<m>>, s) = {}
<1>1. NoticesIn(<<>>, s) = {} BY DEF NoticesIn
<1>2. NoticesIn(<<m>>, s) = IF About(m, s) THEN {1} ELSE {} BY DEF NoticesIn
<1>3. CASE About(m, s)
  <2>1. Believes(<<m>>, v, s) <=> m.kind = "ADD" BY <1>2, <1>3 DEF Believes
  <2> QED BY <1>1, <1>3, <2>1 DEF Believes
<1>4. CASE ~About(m, s) BY <1>1, <1>2, <1>4 DEF Believes
<1> QED BY <1>3, <1>4

(* WillKnow is belief in what is buffered, now ...                           *)
LEMMA WillKnowIs ==
  \A e, s : WillKnow(e, s) <=> Believes(outbox[e], view[e], s)
BY DEF WillKnow, WillHold, Notices, Believes, NoticesIn, About

(* ... and in the next state.                                                *)
LEMMA WillKnowNext ==
  \A e, s : WillKnow(e, s)' <=> Believes(outbox'[e], view'[e], s)
BY DEF WillKnow, WillHold, Notices, Believes, NoticesIn, About

(* WillPlace is the same belief about a server with a realm, now ...         *)
LEMMA WillPlaceIs ==
  \A e, s : WillPlace(e, s) <=> ServesRealm(s) /\ Believes(outbox[e], placed[e], s)
BY DEF WillPlace, WillHold, Notices, Believes, NoticesIn, About

(* ... and in the next state.                                                *)
LEMMA WillPlaceNext ==
  \A e, s : WillPlace(e, s)' <=> ServesRealm(s)' /\ Believes(outbox'[e], placed'[e], s)
BY DEF WillPlace, WillHold, Notices, Believes, NoticesIn, About

(* A packet changes what its targets will know of the server it is about, if *)
(* it is a notice, and nothing else: whether or not buffers are sent early.  *)
LEMMA AddPacketBelief ==
  ASSUME PeerTypes, NEW targets, NEW gone, NEW m \in Message,
         AddPacketAndRelease(targets, m, gone), NEW e \in Entity, e \notin gone, NEW s \in Entity
  PROVE  /\ WillKnow(e, s)' <=> IF e \in targets /\ About(m, s) THEN m.kind = "ADD"
                                ELSE WillKnow(e, s)
         /\ NoticesIn(outbox[e], s) = {} /\ ~(e \in targets /\ About(m, s))
              => NoticesIn(outbox'[e], s) = {}
<1> DEFINE b == outbox[e]
           v == view[e]
<1>0. b \in Seq(Message) BY DEF PeerTypes
<1>1. s \in KnownAfter(e) <=> Believes(b, v, s) BY WillKnowIs DEF KnownAfter
<1>2. \/ outbox'[e] = b /\ view'[e] = v /\ e \notin targets
      \/ outbox'[e] = Append(b, m) /\ view'[e] = v /\ e \in targets
      \/ outbox'[e] = <<m>> /\ view'[e] = KnownAfter(e) /\ e \in targets
  BY DEF AddPacketAndRelease
<1> HIDE DEF b, v
<1>3. /\ Believes(outbox'[e], view'[e], s)
           <=> IF e \in targets /\ About(m, s) THEN m.kind = "ADD" ELSE Believes(b, v, s)
      /\ NoticesIn(b, s) = {} /\ ~(e \in targets /\ About(m, s))
           => NoticesIn(outbox'[e], s) = {}
  <2>1. CASE outbox'[e] = b /\ view'[e] = v /\ e \notin targets BY <2>1
  <2>2. CASE outbox'[e] = Append(b, m) /\ view'[e] = v /\ e \in targets
    <3>1. /\ Believes(Append(b, m), v, s) <=> IF About(m, s) THEN m.kind = "ADD"
                                               ELSE Believes(b, v, s)
          /\ NoticesIn(b, s) = {} /\ ~About(m, s) => NoticesIn(Append(b, m), s) = {}
      BY <1>0, BelievesAppend
    <3> QED BY <2>2, <3>1, Zenon
  <2>3. CASE outbox'[e] = <<m>> /\ view'[e] = KnownAfter(e) /\ e \in targets
    <3>1. /\ Believes(<<m>>, KnownAfter(e), s)
               <=> IF About(m, s) THEN m.kind = "ADD" ELSE s \in KnownAfter(e)
          /\ ~About(m, s) => NoticesIn(<<m>>, s) = {}
      BY BelievesShort
    <3> QED BY <1>1, <2>3, <3>1, Zenon
  <2> QED BY <1>2, <2>1, <2>2, <2>3
<1>4. WillKnow(e, s) <=> Believes(b, v, s) BY WillKnowIs DEF b, v
<1>5. WillKnow(e, s)' <=> Believes(outbox'[e], view'[e], s) BY WillKnowNext
<1> QED BY <1>3, <1>4, <1>5 DEF b

(* The same for the realms, of servers that keep or lose theirs meanwhile.   *)
LEMMA AddPacketPlaces ==
  ASSUME PeerTypes, NEW targets, NEW gone, NEW m \in Message,
         AddPacketAndRelease(targets, m, gone), NEW e \in Entity, e \notin gone, NEW s \in Entity
  PROVE  /\ e \in targets /\ About(m, s) =>
              (WillPlace(e, s)' <=> ServesRealm(s)' /\ m.kind = "ADD")
         /\ ~(e \in targets /\ About(m, s)) /\ (ServesRealm(s)' <=> ServesRealm(s)) =>
              (WillPlace(e, s)' <=> WillPlace(e, s))
         /\ relisted'[e] = relisted[e]
<1> DEFINE b == outbox[e]
           v == placed[e]
<1>0. b \in Seq(Message) BY DEF PeerTypes
<1>1. s \in PlacedAfter(e) <=> ServesRealm(s) /\ Believes(b, v, s)
  BY WillPlaceIs DEF PlacedAfter
<1>2. /\ \/ outbox'[e] = b /\ placed'[e] = v /\ e \notin targets
         \/ outbox'[e] = Append(b, m) /\ placed'[e] = v /\ e \in targets
         \/ outbox'[e] = <<m>> /\ placed'[e] = PlacedAfter(e) /\ e \in targets
      /\ relisted'[e] = relisted[e]
  BY DEF AddPacketAndRelease
<1> HIDE DEF b, v
<1>3. \/ Believes(outbox'[e], placed'[e], s)
           <=> IF e \in targets /\ About(m, s) THEN m.kind = "ADD" ELSE Believes(b, v, s)
      \/ Believes(outbox'[e], placed'[e], s)
           <=> IF e \in targets /\ About(m, s) THEN m.kind = "ADD"
               ELSE ServesRealm(s) /\ Believes(b, v, s)
  <2>1. CASE outbox'[e] = b /\ placed'[e] = v /\ e \notin targets BY <2>1
  <2>2. CASE outbox'[e] = Append(b, m) /\ placed'[e] = v /\ e \in targets
    <3>1. Believes(Append(b, m), v, s) <=> IF About(m, s) THEN m.kind = "ADD"
                                           ELSE Believes(b, v, s)
      BY <1>0, BelievesAppend
    <3> QED BY <2>2, <3>1, Zenon
  <2>3. CASE outbox'[e] = <<m>> /\ placed'[e] = PlacedAfter(e) /\ e \in targets
    <3>1. Believes(<<m>>, PlacedAfter(e), s)
            <=> IF About(m, s) THEN m.kind = "ADD" ELSE s \in PlacedAfter(e)
      BY BelievesShort
    <3> QED BY <1>1, <2>3, <3>1, Zenon
  <2> QED BY <1>2, <2>1, <2>2, <2>3
<1>4. WillPlace(e, s) <=> ServesRealm(s) /\ Believes(b, v, s) BY WillPlaceIs DEF b, v
<1>5. WillPlace(e, s)' <=> ServesRealm(s)' /\ Believes(outbox'[e], placed'[e], s)
  BY WillPlaceNext
<1> QED BY <1>2, <1>3, <1>4, <1>5

(* Who serves a realm is said by the component.                              *)
LEMMA ServesSame ==
  \A s : info'[s] = info[s] => (ServesRealm(s)' <=> ServesRealm(s))
BY DEF ServesRealm

(* Neither a load balancer nor anybody without a component serves a realm.   *)
LEMMA NoRealm ==
  /\ \A s : ServesRealm(s) => info[s] # NoInfo /\ info[s].type # "LOADBALANCE"
  /\ \A s : ServesRealm(s)' => info'[s] # NoInfo /\ info'[s].type # "LOADBALANCE"
BY DEF ServesRealm, NoInfo, RealmTypes

-----------------------------------------------------------------------------
(* The condition: everything listed fits into one full list.  Without it the *)
(* list is cut off, or a load balancer that registers is turned away after   *)
(* it was listed.                                                            *)
ListsFit == IsFiniteSet(AllListed) /\ Cardinality(AllListed) <= FullLimit

(* The inductive invariant next to ServiceInv.  Who has a component is       *)
(* connected; notices wait only for listed load balancers, so that the copy  *)
(* a new one starts from is not overtaken by old ones; and ReplicaConverges  *)
(* itself, which says of every buffer what will come of it.                  *)
RegisteredConnected == \A e \in Entity : info[e] # NoInfo <=> status[e] = "CONNECTED"

NoticesForBalancers ==
  \A e \in Entity, s \in Entity : e \notin LoadBalancers => NoticesIn(outbox[e], s) = {}

DirectoryInv == RegisteredConnected /\ NoticesForBalancers /\ ReplicaConverges

(* Load balancers are entities.                                              *)
LEMMA BalancersAreEntities == ASSUME TableOK PROVE LoadBalancers \subseteq Entity
<1>1. "LOADBALANCE" \in AddressType /\ 0 \in Realm
  BY RealmAssumption DEF AddressType, GlobalTypes
<1>2. LoadBalancers \subseteq AllListed BY <1>1 DEF LoadBalancers, AllListed
<1> QED BY <1>2, AllListedEntities

(* The listed load balancers are the connected ones.                         *)
LEMMA BalancersConnected ==
  ASSUME TableOK, Matches, RegisteredConnected PROVE LoadBalancers = LoadBalancing
<1>1. /\ "LOADBALANCE" \in AddressType /\ 0 \in Realm /\ "LOADBALANCE" \notin RealmTypes
      /\ \A r : Key("LOADBALANCE", r) = 0
  BY RealmAssumption DEF AddressType, GlobalTypes, RealmTypes, Key
<1>2. LoadBalancers = ToSet(list["LOADBALANCE"][0])
      /\ \A r : Listed("LOADBALANCE", r) = ToSet(list["LOADBALANCE"][0])
  BY <1>1 DEF LoadBalancers, Listed, Servers
<1>3. ToSet(list["LOADBALANCE"][0]) \subseteq Entity
  <2>1. list["LOADBALANCE"][0] \in Seq(Entity) BY <1>1 DEF TableOK, TableTypeOK
  <2> QED BY <2>1 DEF ToSet
<1>4. ASSUME NEW e \in LoadBalancers PROVE e \in LoadBalancing
  <2>1. e \in Entity /\ info[e] = [type |-> "LOADBALANCE", realm |-> 0]
    BY <1>1, <1>2, <1>3 DEF Matches
  <2>2. info[e].type = "LOADBALANCE" /\ info[e] # NoInfo BY <2>1 DEF NoInfo
  <2> QED BY <2>1, <2>2 DEF LoadBalancing, RegisteredConnected
<1>5. ASSUME NEW e \in LoadBalancing PROVE e \in LoadBalancers
  <2>1. e \in Entity /\ info[e] # NoInfo /\ info[e].type = "LOADBALANCE"
    BY DEF LoadBalancing, NoInfo
  <2>2. e \in Listed("LOADBALANCE", info[e].realm) BY <2>1 DEF Matches
  <2> QED BY <1>2, <2>2
<1> QED BY <1>4, <1>5

(* Whoever stays behind, stays behind: Stale reads the status and the lists. *)
LEMMA StaleChange ==
  ASSUME NEW s, status'[s] = "DESTROYED" <=> status[s] = "DESTROYED",
         \A u \in RealmTypes, q \in Realm : s \in ToSet(list'[u][q]) <=> s \in ToSet(list[u][q])
  PROVE  Stale(s)' <=> Stale(s)
<1>1. \A u \in RealmTypes, q \in Realm : Listed(u, q) = ToSet(list[u][q])
  BY DEF Listed, Servers, Key
<1>2. \A u \in RealmTypes, q \in Realm : Listed(u, q)' = ToSet(list'[u][q])
  BY DEF Listed, Servers, Key
<1> QED BY <1>1, <1>2 DEF Stale

-----------------------------------------------------------------------------
(* Most steps change nothing that a copy of the list is about: not who is    *)
(* connected or destroyed, no component, no list, and nobody's belief.       *)

PeersCalm ==
  \A e \in Entity, s \in Entity :
    /\ WillKnow(e, s)' <=> WillKnow(e, s)
    /\ WillPlace(e, s)' <=> WillPlace(e, s)
    /\ relisted'[e] = relisted[e]
    /\ NoticesIn(outbox[e], s) = {} => NoticesIn(outbox'[e], s) = {}

StatusCalm ==
  \A e \in Entity : \A s \in {"CONNECTED", "DESTROYED"} : status'[e] = s <=> status[e] = s

Calm == PeersCalm /\ StatusCalm /\ list' = list /\ info' = info

(* Untouched buffers.                                                        *)
LEMMA UntouchedCalm == ASSUME UNCHANGED <<outbox, copyVars, info>> PROVE PeersCalm
<1>1. /\ outbox' = outbox /\ view' = view /\ placed' = placed /\ relisted' = relisted
      /\ \A s : ServesRealm(s)' <=> ServesRealm(s)
  BY ServesSame DEF copyVars
<1> QED BY <1>1, WillKnowIs, WillKnowNext, WillPlaceIs, WillPlaceNext DEF PeersCalm

(* A packet that is no notice.                                               *)
LEMMA MailCalm ==
  ASSUME PeerTypes, NEW targets, NEW m \in Message, m.kind \in {"ASK", "ANSWER"},
         AddPacket(targets, m), UNCHANGED info
  PROVE  PeersCalm
<1>1. \A s : ~About(m, s) BY DEF About
<1>2. AddPacketAndRelease(targets, m, {}) BY DEF AddPacket
<1>3. \A s : ServesRealm(s)' <=> ServesRealm(s) BY ServesSame
<1>4. ASSUME NEW e \in Entity, NEW s \in Entity
      PROVE  /\ WillKnow(e, s)' <=> WillKnow(e, s)
             /\ NoticesIn(outbox[e], s) = {} => NoticesIn(outbox'[e], s) = {}
  BY <1>1, <1>2, AddPacketBelief
<1>5. ASSUME NEW e \in Entity, NEW s \in Entity
      PROVE  (WillPlace(e, s)' <=> WillPlace(e, s)) /\ relisted'[e] = relisted[e]
  BY <1>1, <1>2, <1>3, AddPacketPlaces
<1> QED BY <1>4, <1>5 DEF PeersCalm

(* A buffer that is sent at the end of a visit.                              *)
LEMMA EndVisitCalm ==
  ASSUME PeerTypes, NEW x \in Entity, EndVisit(x) PROVE PeersCalm
<1>0. info' = info BY DEF EndVisit, connectionVars
<1>1. CASE UNCHANGED <<outbox, copyVars>> BY <1>0, <1>1, UntouchedCalm
<1>2. CASE /\ outbox' = [outbox EXCEPT ![x] = <<>>]
           /\ view' = [view EXCEPT ![x] = KnownAfter(x)]
           /\ placed' = [placed EXCEPT ![x] = PlacedAfter(x)]
           /\ relisted' = relisted
  <2> SUFFICES ASSUME NEW e \in Entity, NEW s \in Entity
               PROVE  /\ WillKnow(e, s)' <=> WillKnow(e, s)
                      /\ WillPlace(e, s)' <=> WillPlace(e, s)
                      /\ NoticesIn(outbox[e], s) = {} => NoticesIn(outbox'[e], s) = {}
    BY <1>2 DEF PeersCalm
  <2>0. ServesRealm(s)' <=> ServesRealm(s) BY <1>0, ServesSame
  <2>1. CASE e # x
    <3>1. outbox'[e] = outbox[e] /\ view'[e] = view[e] /\ placed'[e] = placed[e]
      BY <1>2, <2>1 DEF PeerTypes
    <3> QED BY <2>0, <3>1, WillKnowIs, WillKnowNext, WillPlaceIs, WillPlaceNext
  <2>2. CASE e = x
    <3>1. outbox'[e] = <<>> /\ view'[e] = KnownAfter(e) /\ placed'[e] = PlacedAfter(e)
      BY <1>2, <2>2 DEF PeerTypes
    <3>2. /\ WillKnow(e, s)' <=> Believes(outbox'[e], view'[e], s)
          /\ WillPlace(e, s)' <=> ServesRealm(s)' /\ Believes(outbox'[e], placed'[e], s)
      BY WillKnowNext, WillPlaceNext
    <3>3. /\ Believes(<<>>, KnownAfter(e), s) <=> s \in KnownAfter(e)
          /\ Believes(<<>>, PlacedAfter(e), s) <=> s \in PlacedAfter(e)
          /\ NoticesIn(<<>>, s) = {}
      BY BelievesShort
    <3>4. WillPlace(e, s) => ServesRealm(s) BY DEF WillPlace
    <3> QED BY <2>0, <3>1, <3>2, <3>3, <3>4 DEF KnownAfter, PlacedAfter
  <2> QED BY <2>1, <2>2
<1> QED BY <1>1, <1>2 DEF EndVisit, peerVars

(* A status that changes below CONNECTED.                                    *)
LEMMA LowStatusCalm ==
  ASSUME ConnectionTypes, NEW x \in Entity, NEW s,
         {status[x], s} \cap {"CONNECTED", "DESTROYED"} = {},
         status' = [status EXCEPT ![x] = s]
  PROVE  StatusCalm
BY DEF ConnectionTypes, StatusCalm

(* The handlers that are calm.                                               *)
LEMMA CalmHandlers ==
  ASSUME ServiceInv, NEW x \in Entity,
         \/ RejectPacket(x) \/ ClientChallenge(x) \/ ClientHandshake(x)
         \/ HandleRequestAddress(x) \/ HandleRequestAddressFails(x)
         \/ \E r \in Realm : HandleRequestRealmConnectionInfo(x, r)
  PROVE  Calm
<1>0. ConnectionTypes /\ PeerTypes /\ RestTypes BY InvGroups
<1>1. CASE RejectPacket(x)
  BY <1>1, UntouchedCalm DEF RejectPacket, Calm, StatusCalm, peerVars, LBvars
<1>2. CASE ClientChallenge(x) \/ ClientHandshake(x)
  <2>1. StatusCalm
    BY <1>0, <1>2, LowStatusCalm DEF ClientChallenge, ClientHandshake, Handles
  <2>2. UNCHANGED <<outbox, copyVars, list, info>>
    BY <1>2 DEF ClientChallenge, ClientHandshake, peerVars, LBvars
  <2> QED BY <2>1, <2>2, UntouchedCalm DEF Calm
<1>3. CASE HandleRequestAddress(x)
  <2> DEFINE m == [kind |-> "ASK", who |-> x]
  <2>1. m \in Message /\ m.kind = "ASK" BY DEF Message
  <2>2. /\ UNCHANGED <<list, status, info>>
        /\ (\E targets : AddPacket(targets, m)) \/ UNCHANGED <<outbox, copyVars>>
    BY <1>3
    DEF HandleRequestAddress, GetServer, GetNone, connectionVars, peerVars, tableVars
  <2> HIDE DEF m
  <2>3. PeersCalm BY <1>0, <2>1, <2>2, MailCalm, UntouchedCalm
  <2> QED BY <2>2, <2>3 DEF Calm, StatusCalm
<1>4. CASE HandleRequestAddressFails(x)
  <2>1. UNCHANGED <<list, status, info, outbox, copyVars>>
    BY <1>4 DEF HandleRequestAddressFails, GetServer, GetNone, peerVars
  <2> QED BY <2>1, UntouchedCalm DEF Calm, StatusCalm
<1>5. ASSUME NEW r \in Realm, HandleRequestRealmConnectionInfo(x, r) PROVE Calm
  <2> DEFINE m == [kind |-> "ANSWER", who |-> x]
  <2>1. m \in Message /\ m.kind = "ANSWER" BY DEF Message
  <2>2. /\ UNCHANGED <<list, status, info>>
        /\ AddPacket({x}, m) \/ UNCHANGED <<outbox, copyVars>>
    BY <1>5
    DEF HandleRequestRealmConnectionInfo, GetServer, GetNone, connectionVars, peerVars, tableVars
  <2> HIDE DEF m
  <2>3. PeersCalm BY <1>0, <2>1, <2>2, MailCalm, UntouchedCalm
  <2> QED BY <2>2, <2>3 DEF Calm, StatusCalm
<1> QED BY <1>1, <1>2, <1>3, <1>4, <1>5

(* A peer's answer.                                                          *)
LEMMA AnswerCalm == ASSUME ServiceInv, AnswerStep PROVE Calm
<1>0. PeerTypes BY InvGroups
<1>1. PICK x \in Entity, who \in Entity \cup {NoEntity} : HandleSendAddress(x, who)
  BY DEF AnswerStep
<1>2. UNCHANGED <<list, status, info>> BY <1>1 DEF HandleSendAddress, connectionVars, LBvars
<1>3. PeersCalm
  <2>1. CASE who \in Alive
    <3> DEFINE m == [kind |-> "ANSWER", who |-> who]
    <3>1. m \in Message /\ m.kind = "ANSWER" BY <2>1 DEF Message, Alive
    <3>2. AddPacket({who}, m) BY <1>1, <2>1 DEF HandleSendAddress
    <3> HIDE DEF m
    <3> QED BY <1>0, <1>2, <3>1, <3>2, MailCalm
  <2>2. CASE who \notin Alive
    <3>1. UNCHANGED <<outbox, copyVars>> BY <1>1, <2>2 DEF HandleSendAddress, peerVars
    <3> QED BY <1>2, <3>1, UntouchedCalm
  <2> QED BY <2>1, <2>2
<1> QED BY <1>2, <1>3 DEF Calm, StatusCalm

(* The other calm steps.                                                     *)
LEMMA CalmSteps ==
  ASSUME ServiceInv,
         \/ AcceptStep \/ VisitStep \/ AnswerStep
         \/ \E x \in Entity : EndVisit(x) \/ AcceptNew(x)
         \/ BeginDeferred \/ BeginDrops \/ EndTick
         \/ UNCHANGED serviceVars
  PROVE  Calm
<1>0. ConnectionTypes /\ PeerTypes BY InvGroups
<1>1. ASSUME NEW x \in Entity, HandleConnection(x) \/ AcceptNew(x) PROVE Calm
  <2>1. StatusCalm BY <1>0, <1>1, LowStatusCalm DEF HandleConnection, AcceptNew
  <2>2. UNCHANGED <<outbox, copyVars, list, info>>
    BY <1>1 DEF HandleConnection, AcceptNew, peerVars, LBvars
  <2> QED BY <2>1, <2>2, UntouchedCalm DEF Calm
<1>2. ASSUME NEW x \in Entity, EndVisit(x) PROVE Calm
  <2>1. PeersCalm BY <1>0, <1>2, EndVisitCalm
  <2>2. UNCHANGED <<list, status, info>> BY <1>2 DEF EndVisit, connectionVars, LBvars
  <2> QED BY <2>1, <2>2 DEF Calm, StatusCalm
<1>3. CASE VisitStep \/ BeginDeferred \/ BeginDrops \/ EndTick \/ UNCHANGED serviceVars
  <2>1. UNCHANGED <<outbox, copyVars, list, status, info>>
    BY <1>3
    DEF VisitStep, BeginVisit, HandleDisconnect, BeginDeferred, BeginDrops, EndTick,
        serviceVars, connectionVars, peerVars, LBvars
  <2> QED BY <2>1, UntouchedCalm DEF Calm, StatusCalm
<1> QED BY <1>1, <1>2, <1>3, AnswerCalm DEF AcceptStep

(* Calm steps keep the invariant ...                                         *)
LEMMA CalmKeeps == ASSUME TableOK, Calm, DirectoryInv PROVE DirectoryInv'
<1>1. RegisteredConnected' BY DEF Calm, StatusCalm, DirectoryInv, RegisteredConnected
<1>2. LoadBalancers' = LoadBalancers BY DEF LoadBalancers, Calm, Listed, Servers
<1>3. NoticesForBalancers'
  BY <1>2 DEF DirectoryInv, NoticesForBalancers, Calm, PeersCalm
<1>4. \A s \in Entity : Stale(s)' <=> Stale(s)
  BY StaleChange DEF Calm, StatusCalm
<1>5. ReplicaConverges'
  <2> SUFFICES ASSUME NEW e \in LoadBalancers', NEW s \in Entity, status'[e] = "CONNECTED"
               PROVE  /\ status'[s] = "CONNECTED" /\ info'[s].type # "LOADBALANCE"
                           => /\ WillKnow(e, s)'
                              /\ ServesRealm(s)' => WillPlace(e, s)' \/ s \in relisted'[e]
                      /\ WillKnow(e, s)' => info'[s] # NoInfo \/ Stale(s)'
    BY DEF ReplicaConverges
  <2>1. e \in LoadBalancers /\ e \in Entity BY <1>2, BalancersAreEntities
  <2>2. /\ WillKnow(e, s)' <=> WillKnow(e, s)
        /\ WillPlace(e, s)' <=> WillPlace(e, s)
        /\ relisted'[e] = relisted[e]
    BY <2>1 DEF Calm, PeersCalm
  <2>3. /\ \A x \in Entity : status'[x] = "CONNECTED" <=> status[x] = "CONNECTED"
        /\ info'[s] = info[s]
    BY DEF Calm, StatusCalm
  <2>4. ServesRealm(s)' <=> ServesRealm(s) BY <2>3, ServesSame
  <2> QED BY <1>4, <2>1, <2>2, <2>3, <2>4 DEF DirectoryInv, ReplicaConverges
<1> QED BY <1>1, <1>3, <1>5 DEF DirectoryInv

-----------------------------------------------------------------------------
(* What the four steps that are not calm do, in terms of who is in the list, *)
(* who stays behind in it, and who believes what.                            *)

(* What the vector of load balancers is.                                     *)
LEMMA BalancerVector ==
  /\ "LOADBALANCE" \in AddressType /\ "LOADBALANCE" \notin RealmTypes /\ 0 \in Realm
  /\ \A r : Key("LOADBALANCE", r) = 0
  /\ LoadBalancers = ToSet(list["LOADBALANCE"][0])
  /\ LoadBalancers' = ToSet(list'["LOADBALANCE"][0])
<1>1. /\ "LOADBALANCE" \in AddressType /\ "LOADBALANCE" \notin RealmTypes /\ 0 \in Realm
      /\ \A r : Key("LOADBALANCE", r) = 0
  BY RealmAssumption DEF AddressType, GlobalTypes, RealmTypes, Key
<1> QED BY <1>1 DEF LoadBalancers, Listed, Servers

(* Whoever is listed has a component or stays behind, and the other way      *)
(* round.                                                                    *)
LEMMA ListedAre ==
  ASSUME TableOK, ConnectionTypes, Matches, NEW s \in Entity
  PROVE  s \in AllListed <=> info[s] # NoInfo \/ Stale(s)
<1>1. ASSUME s \in AllListed PROVE info[s] # NoInfo \/ Stale(s)
  <2>1. PICK t \in AddressType, r \in Realm : s \in Listed(t, r) BY <1>1 DEF AllListed
  <2>2. Key(t, r) \in Realm /\ s \in ToSet(list[t][Key(t, r)])
    BY <2>1, KeyInRealm DEF Listed, Servers
  <2>3. CASE info[s] = [type |-> t, realm |-> Key(t, r)]
    <3>1. "none" \notin AddressType BY DEF AddressType, GlobalTypes, RealmTypes
    <3> QED BY <2>3, <3>1 DEF NoInfo
  <2>4. CASE t \in RealmTypes /\ status[s] = "DESTROYED" BY <2>1, <2>4 DEF Stale
  <2> QED BY <2>2, <2>3, <2>4 DEF Matches
<1>2. ASSUME info[s] # NoInfo PROVE s \in AllListed
  <2>1. info[s].type \in AddressType /\ info[s].realm \in Realm
    BY <1>2 DEF ConnectionTypes, Info
  <2> QED BY <1>2, <2>1 DEF Matches, AllListed
<1>3. ASSUME Stale(s) PROVE s \in AllListed
  BY <1>3, TypeKinds DEF Stale, AllListed
<1> QED BY <1>1, <1>2, <1>3

(* A registration lists one more server, in one vector ...                   *)
LEMMA EnlistLists ==
  ASSUME ServiceInv, NEW e \in Entity, NEW t \in AddressType, NEW r \in RealmsOf(t),
         Enlist(e, t, r)
  PROVE  /\ status[e] = "AUTH_SUCCESS" /\ info[e] = NoInfo /\ e \notin AllListed
         /\ \A u \in AddressType, q \in Realm :
              ToSet(list'[u][q]) = IF u = t /\ q = r
                                   THEN ToSet(list[u][q]) \cup {e} ELSE ToSet(list[u][q])
<1>0. TableOK /\ ConnectionTypes /\ Matches /\ TickOK /\ ComponentsOK BY InvGroups
<1>1. status[e] = "AUTH_SUCCESS" /\ info[e] = NoInfo
  <2>1. visiting = e /\ status[e] = "AUTH_SUCCESS" BY DEF Enlist, Handles
  <2> QED BY <1>0, <2>1, NoEntityAssumption DEF TickOK, ComponentsOK
<1>2. r \in Realm /\ Key(t, r) = r BY RealmsOfFacts
<1>3. ~Stale(e) BY <1>1 DEF Stale
<1>4. e \notin AllListed BY <1>0, <1>1, <1>3, ListedAre
<1>5. e \notin Listed(t, r) BY <1>2, <1>4 DEF AllListed
<1>6. AddServer(e, t, r) BY DEF Enlist
<1>7. \A u \in AddressType, q \in Realm :
        ToSet(list'[u][q]) = IF u = t /\ q = r
                             THEN ToSet(list[u][q]) \cup {e} ELSE ToSet(list[u][q])
  BY <1>0, <1>2, <1>5, <1>6, AddServerFacts, SMTT(30)
<1> QED BY <1>1, <1>4, <1>7

(* ... and connects it; nobody else changes.                                 *)
LEMMA EnlistEffect ==
  ASSUME ServiceInv, NEW e \in Entity, NEW t \in AddressType, NEW r \in RealmsOf(t),
         Enlist(e, t, r), status' = [status EXCEPT ![e] = "CONNECTED"]
  PROVE  \A x \in Entity :
           /\ status'[x] = IF x = e THEN "CONNECTED" ELSE status[x]
           /\ info'[x] = IF x = e THEN [type |-> t, realm |-> r] ELSE info[x]
           /\ Stale(x)' <=> Stale(x)
<1>0. ConnectionTypes BY InvGroups
<1>1. status[e] = "AUTH_SUCCESS" BY EnlistLists
<1>2. \A u \in AddressType, q \in Realm :
        ToSet(list'[u][q]) = IF u = t /\ q = r
                             THEN ToSet(list[u][q]) \cup {e} ELSE ToSet(list[u][q])
  BY EnlistLists
<1>3. \A x \in Entity :
        /\ status'[x] = IF x = e THEN "CONNECTED" ELSE status[x]
        /\ info'[x] = IF x = e THEN [type |-> t, realm |-> r] ELSE info[x]
  BY <1>0 DEF Enlist, ConnectionTypes
<1>4. ASSUME NEW x \in Entity PROVE Stale(x)' <=> Stale(x)
  <2>1. CASE x = e BY <1>1, <1>3, <2>1 DEF Stale
  <2>2. CASE x # e
    <3>1. \A u \in RealmTypes, q \in Realm : x \in ToSet(list'[u][q]) <=> x \in ToSet(list[u][q])
      BY <1>2, <2>2, TypeKinds
    <3>2. status'[x] = status[x] BY <1>3, <2>2
    <3> QED BY <3>1, <3>2, StaleChange
  <2> QED BY <2>1, <2>2
<1> QED BY <1>3, <1>4

(* The registration of a server: every load balancer will know it.           *)
LEMMA RegisterServerEffect ==
  ASSUME ServiceInv, NEW e \in Entity, NEW t \in AddressType, NEW r \in RealmsOf(t),
         RegisterServer(e, t, r)
  PROVE  /\ LoadBalancers' = LoadBalancers
         /\ \A f \in Entity, s \in Entity :
              /\ WillKnow(f, s)' <=> (f \in LoadBalancers /\ s = e) \/ WillKnow(f, s)
              /\ f \in LoadBalancers =>
                   (WillPlace(f, s)' <=> IF s = e THEN ServesRealm(s)' ELSE WillPlace(f, s))
              /\ relisted'[f] = relisted[f]
              /\ f \notin LoadBalancers /\ NoticesIn(outbox[f], s) = {}
                   => NoticesIn(outbox'[f], s) = {}
<1>0. PeerTypes /\ ConnectionTypes BY InvGroups
<1>1. Enlist(e, t, r) /\ t # "LOADBALANCE" BY DEF RegisterServer
<1>2. LoadBalancers' = LoadBalancers
  <2>1. ToSet(list'["LOADBALANCE"][0]) = ToSet(list["LOADBALANCE"][0])
    <3>1. \A u \in AddressType, q \in Realm :
            ToSet(list'[u][q]) = IF u = t /\ q = r
                                 THEN ToSet(list[u][q]) \cup {e} ELSE ToSet(list[u][q])
      BY <1>1, EnlistLists
    <3> QED BY <1>1, <3>1, BalancerVector
  <2> QED BY <2>1, BalancerVector
<1> DEFINE m == [kind |-> "ADD", who |-> e]
<1>3. m \in Message /\ (\A s : About(m, s) <=> s = e) /\ m.kind = "ADD"
  BY DEF Message, About
<1>4. AddPacketAndRelease(LoadBalancers, m, {}) BY DEF RegisterServer, AddPacket
<1> HIDE DEF m
<1>5. ASSUME NEW f \in Entity, NEW s \in Entity
      PROVE  /\ WillKnow(f, s)' <=> (f \in LoadBalancers /\ s = e) \/ WillKnow(f, s)
             /\ f \in LoadBalancers =>
                  (WillPlace(f, s)' <=> IF s = e THEN ServesRealm(s)' ELSE WillPlace(f, s))
             /\ relisted'[f] = relisted[f]
             /\ f \notin LoadBalancers /\ NoticesIn(outbox[f], s) = {}
                  => NoticesIn(outbox'[f], s) = {}
  <2>1. /\ WillKnow(f, s)' <=> IF f \in LoadBalancers /\ About(m, s) THEN m.kind = "ADD"
                               ELSE WillKnow(f, s)
        /\ NoticesIn(outbox[f], s) = {} /\ ~(f \in LoadBalancers /\ About(m, s))
             => NoticesIn(outbox'[f], s) = {}
    BY <1>0, <1>3, <1>4, AddPacketBelief
  <2>2. /\ f \in LoadBalancers /\ About(m, s) =>
             (WillPlace(f, s)' <=> ServesRealm(s)' /\ m.kind = "ADD")
        /\ ~(f \in LoadBalancers /\ About(m, s)) /\ (ServesRealm(s)' <=> ServesRealm(s)) =>
             (WillPlace(f, s)' <=> WillPlace(f, s))
        /\ relisted'[f] = relisted[f]
    BY <1>0, <1>3, <1>4, AddPacketPlaces
  <2>3. s # e => (ServesRealm(s)' <=> ServesRealm(s))
    <3>1. s # e => info'[s] = info[s] BY <1>0, <1>1 DEF Enlist, ConnectionTypes
    <3> QED BY <3>1, ServesSame
  <2> QED BY <1>3, <2>1, <2>2, <2>3
<1> QED BY <1>2, <1>5

(* The registration of a load balancer: it will know the whole list.         *)
LEMMA RegisterLoadBalancerEffect ==
  ASSUME ServiceInv, DirectoryInv, NEW e \in Entity, RegisterLoadBalancer(e)
  PROVE  /\ e \notin LoadBalancers /\ LoadBalancers' = LoadBalancers \cup {e}
         /\ outbox' = outbox
         /\ \A f \in Entity, s \in Entity :
              /\ WillKnow(f, s)' <=> IF f = e THEN s \in AllListed \cup {e} ELSE WillKnow(f, s)
              /\ WillPlace(f, s)' <=> IF f = e THEN s \in RealmsWritten ELSE WillPlace(f, s)
              /\ relisted'[f] = relisted[f]
<1>0. PeerTypes /\ ConnectionTypes BY InvGroups
<1>1. /\ outbox' = outbox
      /\ view' = [view EXCEPT ![e] = AllListed \cup {e}]
      /\ placed' = [placed EXCEPT ![e] = RealmsWritten]
      /\ relisted' = relisted
  BY DEF RegisterLoadBalancer
<1>2. Enlist(e, "LOADBALANCE", 0) BY DEF RegisterLoadBalancer
<1>3. 0 \in RealmsOf("LOADBALANCE") /\ "LOADBALANCE" \in AddressType
  BY BalancerVector DEF RealmsOf
<1>4. e \notin AllListed BY <1>2, <1>3, EnlistLists
<1>5. LoadBalancers' = LoadBalancers \cup {e}
  <2>1. ToSet(list'["LOADBALANCE"][0]) = ToSet(list["LOADBALANCE"][0]) \cup {e}
    <3>1. \A u \in AddressType, q \in Realm :
            ToSet(list'[u][q]) = IF u = "LOADBALANCE" /\ q = 0
                                 THEN ToSet(list[u][q]) \cup {e} ELSE ToSet(list[u][q])
      BY <1>2, <1>3, EnlistLists
    <3> QED BY <3>1, BalancerVector
  <2> QED BY <2>1, BalancerVector
<1>6. e \notin LoadBalancers BY <1>4, BalancerVector DEF LoadBalancers, AllListed
<1>7. ASSUME NEW f \in Entity, NEW s \in Entity
      PROVE  WillKnow(f, s)' <=> IF f = e THEN s \in AllListed \cup {e} ELSE WillKnow(f, s)
  <2>1. CASE f = e
    <3>1. NoticesIn(outbox[f], s) = {} BY <1>6, <2>1 DEF DirectoryInv, NoticesForBalancers
    <3>2. view'[f] = AllListed \cup {e} BY <1>0, <1>1, <2>1 DEF PeerTypes
    <3>3. WillKnow(f, s)' <=> Believes(outbox'[f], view'[f], s) BY WillKnowNext
    <3> QED BY <1>1, <2>1, <3>1, <3>2, <3>3 DEF Believes
  <2>2. CASE f # e
    <3>1. outbox'[f] = outbox[f] /\ view'[f] = view[f] BY <1>0, <1>1, <2>2 DEF PeerTypes
    <3> QED BY <2>2, <3>1, WillKnowIs, WillKnowNext
  <2> QED BY <2>1, <2>2
<1>8. ASSUME NEW s \in Entity PROVE ServesRealm(s)' <=> ServesRealm(s)
  <2>1. CASE s = e
    <3>1. info[e] = NoInfo BY <1>2, <1>3, EnlistLists
    <3>2. info'[e].type = "LOADBALANCE" BY <1>0, <1>2 DEF Enlist, ConnectionTypes
    <3> QED BY <2>1, <3>1, <3>2, NoRealm
  <2>2. CASE s # e
    <3>1. info'[s] = info[s] BY <1>0, <1>2, <2>2 DEF Enlist, ConnectionTypes
    <3> QED BY <3>1, ServesSame
  <2> QED BY <2>1, <2>2
<1>9. ASSUME NEW f \in Entity, NEW s \in Entity
      PROVE  WillPlace(f, s)' <=> IF f = e THEN s \in RealmsWritten ELSE WillPlace(f, s)
  <2>1. WillPlace(f, s)' <=> ServesRealm(s)' /\ Believes(outbox'[f], placed'[f], s)
    BY WillPlaceNext
  <2>2. CASE f = e
    <3>1. NoticesIn(outbox[f], s) = {} BY <1>6, <2>2 DEF DirectoryInv, NoticesForBalancers
    <3>2. placed'[f] = RealmsWritten BY <1>0, <1>1, <2>2 DEF PeerTypes
    <3>3. s \in RealmsWritten => ServesRealm(s) BY DEF RealmsWritten
    <3> QED BY <1>1, <1>8, <2>1, <2>2, <3>1, <3>2, <3>3 DEF Believes
  <2>3. CASE f # e
    <3>1. outbox'[f] = outbox[f] /\ placed'[f] = placed[f] BY <1>0, <1>1, <2>3 DEF PeerTypes
    <3> QED BY <1>8, <2>1, <2>3, <3>1, WillPlaceIs
  <2> QED BY <2>2, <2>3
<1> QED BY <1>1, <1>5, <1>6, <1>7, <1>9

(* A full list again: what notices in the buffer do not speak of is as the   *)
(* list says, the rest as before.                                            *)
LEMMA FullListEffect ==
  ASSUME ServiceInv, ListsFit, NEW e \in Entity, HandleRequestServerInfo(e)
  PROVE  /\ UNCHANGED <<list, status, info, outbox>>
         /\ \A f \in Entity, s \in Entity :
              \/ WillKnow(f, s)' <=> WillKnow(f, s)
              \/ f = e /\ (WillKnow(f, s)' <=> s \in AllListed)
         /\ \A f \in Entity, s \in Entity :
              /\ f # e => (WillPlace(f, s)' <=> WillPlace(f, s)) /\ relisted'[f] = relisted[f]
              /\ WillPlace(f, s)' => WillPlace(f, s)
         /\ \A s \in AllListed : ServesRealm(s) => s \in relisted'[e]
<1>0. PeerTypes BY InvGroups
<1>1. /\ UNCHANGED <<list, status, info, outbox>>
      /\ view' = [view EXCEPT ![e] = AllListed]
      /\ placed' = [placed EXCEPT ![e] = {}]
      /\ relisted' = [relisted EXCEPT ![e] = { s \in AllListed : ServesRealm(s) }]
  BY DEF HandleRequestServerInfo, ListsFit, LBvars, connectionVars
<1>2. ASSUME NEW f \in Entity, NEW s \in Entity
      PROVE  \/ WillKnow(f, s)' <=> WillKnow(f, s)
             \/ f = e /\ (WillKnow(f, s)' <=> s \in AllListed)
  <2>1. /\ WillKnow(f, s)' <=> Believes(outbox'[f], view'[f], s)
        /\ WillKnow(f, s) <=> Believes(outbox[f], view[f], s)
    BY WillKnowIs, WillKnowNext
  <2>2. outbox'[f] = outbox[f] BY <1>1
  <2>3. CASE f # e
    <3>1. view'[f] = view[f] BY <1>0, <1>1, <2>3 DEF PeerTypes
    <3> QED BY <2>1, <2>2, <3>1
  <2>4. CASE f = e /\ NoticesIn(outbox[f], s) = {}
    <3>1. view'[f] = AllListed BY <1>0, <1>1, <2>4 DEF PeerTypes
    <3> QED BY <2>1, <2>2, <2>4, <3>1 DEF Believes
  <2>5. CASE NoticesIn(outbox[f], s) # {} BY <2>1, <2>2, <2>5 DEF Believes
  <2> QED BY <2>3, <2>4, <2>5
<1>3. ASSUME NEW f \in Entity, NEW s \in Entity
      PROVE  /\ f # e => (WillPlace(f, s)' <=> WillPlace(f, s)) /\ relisted'[f] = relisted[f]
             /\ WillPlace(f, s)' => WillPlace(f, s)
  <2>1. /\ WillPlace(f, s)' <=> ServesRealm(s)' /\ Believes(outbox'[f], placed'[f], s)
        /\ WillPlace(f, s) <=> ServesRealm(s) /\ Believes(outbox[f], placed[f], s)
    BY WillPlaceIs, WillPlaceNext
  <2>2. outbox'[f] = outbox[f] /\ (ServesRealm(s)' <=> ServesRealm(s)) BY <1>1, ServesSame
  <2>3. CASE f # e
    <3>1. placed'[f] = placed[f] /\ relisted'[f] = relisted[f]
      BY <1>0, <1>1, <2>3 DEF PeerTypes
    <3> QED BY <2>1, <2>2, <3>1
  <2>4. CASE f = e
    <3>1. placed'[f] = {} BY <1>0, <1>1, <2>4 DEF PeerTypes
    <3>2. Believes(outbox[f], {}, s) => Believes(outbox[f], placed[f], s) BY DEF Believes
    <3> QED BY <2>1, <2>2, <2>4, <3>1, <3>2
  <2> QED BY <2>3, <2>4
<1>4. relisted'[e] = { s \in AllListed : ServesRealm(s) } BY <1>0, <1>1 DEF PeerTypes
<1> QED BY <1>1, <1>2, <1>3, <1>4

(* A drop takes the entity out of the table, unless it is listed under a     *)
(* realm other than the default one.                                         *)
LEMMA DropLists ==
  ASSUME TableOK, ConnectionTypes, Matches, NEW e \in Entity, status[e] # "DESTROYED",
         IF info[e] = NoInfo THEN UNCHANGED tableVars ELSE RemoveServer(info[e].type, e, 0),
         NEW u \in AddressType, NEW q \in Realm
  PROVE  /\ \A x : x # e => (x \in ToSet(list'[u][q]) <=> x \in ToSet(list[u][q]))
         /\ e \in ToSet(list'[u][q]) => info[e] # NoInfo /\ info[e].type = u /\ q # 0
<1>1. e \in ToSet(list[u][q]) => info[e] = [type |-> u, realm |-> q]
  BY DEF Matches
<1>2. CASE info[e] = NoInfo
  <2>1. list' = list BY <1>2 DEF tableVars
  <2>2. "none" \notin AddressType BY DEF AddressType, GlobalTypes, RealmTypes
  <2> QED BY <1>1, <1>2, <2>1, <2>2 DEF NoInfo
<1>3. CASE info[e] # NoInfo
  <2>1. PICK t \in AddressType : info[e].type = t BY <1>3 DEF ConnectionTypes, Info
  <2>2. RemoveServer(t, e, 0) BY <1>3, <2>1
  <2>3. Key(t, 0) = 0 /\ 0 \in Realm BY RealmAssumption DEF Key
  <2>4. \A v \in AddressType, p \in Realm :
          ToSet(list'[v][p]) = IF v = t /\ p = Key(t, 0)
                               THEN ToSet(list[v][p]) \ {e} ELSE ToSet(list[v][p])
    BY <2>2, <2>3, RemoveServerFacts
  <2>5. ToSet(list'[u][q]) = IF u = t /\ q = 0
                             THEN ToSet(list[u][q]) \ {e} ELSE ToSet(list[u][q])
    BY <2>3, <2>4
  <2>6. e \in ToSet(list[u][q]) => info[e].type = u BY <1>1
  <2> QED BY <1>3, <2>1, <2>5, <2>6
<1> QED BY <1>2, <1>3

(* A drop: no load balancer will know the one that is gone, whether it was   *)
(* told or never knew it.                                                    *)
LEMMA DropEffect ==
  ASSUME ServiceInv, DirectoryInv, DropOne, NEW e, e = Head(dropQueue)
  PROVE  /\ e \in Entity /\ e \in Alive
         /\ \A x \in Entity :
              /\ status'[x] = IF x = e THEN "DESTROYED" ELSE status[x]
              /\ info'[x] = IF x = e THEN NoInfo ELSE info[x]
              /\ x # e => (Stale(x)' <=> Stale(x))
         /\ Stale(e)' => info[e] # NoInfo /\ info[e].type # "LOADBALANCE"
         /\ LoadBalancers' = LoadBalancers \ {e}
         /\ \A f \in Entity \ {e}, s \in Entity :
              /\ f \in LoadBalancers => (WillKnow(f, s)' <=> s # e /\ WillKnow(f, s))
              /\ s # e => (WillPlace(f, s)' <=> WillPlace(f, s))
              /\ relisted'[f] = relisted[f]
              /\ f \notin LoadBalancers /\ NoticesIn(outbox[f], s) = {}
                   => NoticesIn(outbox'[f], s) = {}
         /\ \A s : NoticesIn(outbox'[e], s) = {}
<1>0. /\ TableOK /\ ConnectionTypes /\ TickTypes /\ PeerTypes /\ Matches /\ TickOK
      /\ RegisteredConnected /\ ReplicaConverges
  BY InvGroups DEF DirectoryInv
<1>1. e \in Entity /\ e \in Alive
  <2>1. dropQueue \in Seq(Entity) /\ dropQueue # <<>> BY <1>0 DEF DropOne, TickTypes
  <2>2. e \in ToSet(dropQueue) /\ e \in Entity
    <3>1. 1 \in DOMAIN dropQueue /\ Head(dropQueue) = dropQueue[1] BY <2>1
    <3> QED BY <2>1, <3>1 DEF ToSet
  <2> QED BY <1>0, <2>2 DEF TickOK
<1>2. /\ IF info[e] = NoInfo THEN UNCHANGED tableVars ELSE RemoveServer(info[e].type, e, 0)
      /\ AddPacketAndRelease(Told(e), [kind |-> "REMOVE", who |-> e], {e})
      /\ status' = [status EXCEPT ![e] = "DESTROYED"]
      /\ info' = [info EXCEPT ![e] = NoInfo]
  BY DEF DropOne
<1>3. \A x \in Entity :
        /\ status'[x] = IF x = e THEN "DESTROYED" ELSE status[x]
        /\ info'[x] = IF x = e THEN NoInfo ELSE info[x]
  BY <1>0, <1>2 DEF ConnectionTypes
<1>4. ASSUME NEW u \in AddressType, NEW q \in Realm
      PROVE  /\ \A x : x # e => (x \in ToSet(list'[u][q]) <=> x \in ToSet(list[u][q]))
             /\ e \in ToSet(list'[u][q]) => info[e] # NoInfo /\ info[e].type = u /\ q # 0
  BY <1>0, <1>1, <1>2, DropLists DEF Alive, IsAlive
<1>5. ASSUME NEW x \in Entity, x # e PROVE Stale(x)' <=> Stale(x)
  BY <1>3, <1>4, <1>5, StaleChange, TypeKinds
<1>6. ASSUME Stale(e)' PROVE info[e] # NoInfo /\ info[e].type # "LOADBALANCE"
  <2>1. PICK u \in RealmTypes, q \in Realm : e \in Listed(u, q)'
    BY <1>6 DEF Stale
  <2>2. e \in ToSet(list'[u][q]) BY <2>1 DEF Listed, Servers, Key
  <2> QED BY <1>4, <2>2, TypeKinds, BalancerVector
<1>7. LoadBalancers' = LoadBalancers \ {e} BY <1>4, BalancerVector
<1> DEFINE m == [kind |-> "REMOVE", who |-> e]
<1>8. m \in Message /\ (\A s : About(m, s) <=> s = e) /\ m.kind = "REMOVE"
  BY <1>1 DEF Message, About
<1>9. AddPacketAndRelease(Told(e), m, {e}) BY <1>2
<1> HIDE DEF m
<1>10. ASSUME NEW f \in Entity \ {e}, NEW s \in Entity
       PROVE  /\ f \in LoadBalancers => (WillKnow(f, s)' <=> s # e /\ WillKnow(f, s))
              /\ f \notin LoadBalancers /\ NoticesIn(outbox[f], s) = {}
                   => NoticesIn(outbox'[f], s) = {}
  <2>1. /\ WillKnow(f, s)' <=> IF f \in Told(e) /\ About(m, s) THEN m.kind = "ADD"
                               ELSE WillKnow(f, s)
        /\ NoticesIn(outbox[f], s) = {} /\ ~(f \in Told(e) /\ About(m, s))
             => NoticesIn(outbox'[f], s) = {}
    BY <1>0, <1>8, <1>9, AddPacketBelief
  <2>2. f \in Told(e) <=> info[e] # NoInfo /\ f \in LoadBalancers BY DEF Told
  <2>3. f \in LoadBalancers /\ info[e] = NoInfo => ~WillKnow(f, e)
    <3>1. ~Stale(e) BY <1>1 DEF Stale, Alive, IsAlive
    <3>2. f \in LoadBalancers => status[f] = "CONNECTED"
      BY <1>0, BalancersConnected DEF LoadBalancing
    <3> QED BY <1>0, <1>1, <3>1, <3>2 DEF ReplicaConverges
  <2>4. f \in LoadBalancers => (WillKnow(f, s)' <=> s # e /\ WillKnow(f, s))
    <3>1. CASE s = e /\ info[e] # NoInfo BY <1>8, <2>1, <2>2, <3>1
    <3>2. CASE s = e /\ info[e] = NoInfo BY <2>1, <2>2, <2>3, <3>2
    <3>3. CASE s # e BY <1>8, <2>1, <3>3
    <3> QED BY <3>1, <3>2, <3>3
  <2> QED BY <2>1, <2>2, <2>4
<1>11. ASSUME NEW f \in Entity \ {e}, NEW s \in Entity
       PROVE  /\ s # e => (WillPlace(f, s)' <=> WillPlace(f, s))
              /\ relisted'[f] = relisted[f]
  <2>1. /\ ~(f \in Told(e) /\ About(m, s)) /\ (ServesRealm(s)' <=> ServesRealm(s)) =>
             (WillPlace(f, s)' <=> WillPlace(f, s))
        /\ relisted'[f] = relisted[f]
    BY <1>0, <1>8, <1>9, AddPacketPlaces
  <2>2. s # e => (ServesRealm(s)' <=> ServesRealm(s)) BY <1>3, ServesSame
  <2> QED BY <1>8, <2>1, <2>2
<1>12. \A s : NoticesIn(outbox'[e], s) = {}
  <2>1. outbox'[e] = <<>> BY <1>1, <1>9 DEF AddPacketAndRelease
  <2> QED BY <2>1, BelievesShort
<1> QED BY <1>1, <1>3, <1>5, <1>6, <1>7, <1>10, <1>12, <1>11

-----------------------------------------------------------------------------
(* The invariant holds at first and every step keeps it.                     *)

(* A component is not the absence of one.                                    *)
LEMMA ComponentIsSome ==
  ASSUME NEW t \in AddressType, NEW r PROVE [type |-> t, realm |-> r] # NoInfo
<1>1. "none" \notin AddressType BY DEF AddressType, GlobalTypes, RealmTypes
<1> QED BY <1>1 DEF NoInfo

(* The registration of a server.                                             *)
LEMMA RegisterServerKeeps ==
  ASSUME ServiceInv, DirectoryInv, NEW e \in Entity, NEW t \in AddressType,
         NEW r \in RealmsOf(t), RegisterServer(e, t, r)
  PROVE  DirectoryInv'
<1>0. /\ RegisteredConnected /\ NoticesForBalancers /\ ReplicaConverges /\ TableOK
      /\ Enlist(e, t, r) /\ status' = [status EXCEPT ![e] = "CONNECTED"]
  BY InvGroups DEF DirectoryInv, RegisterServer
<1>1. /\ LoadBalancers' = LoadBalancers
      /\ \A f \in Entity, s \in Entity :
           /\ WillKnow(f, s)' <=> (f \in LoadBalancers /\ s = e) \/ WillKnow(f, s)
           /\ f \in LoadBalancers =>
                (WillPlace(f, s)' <=> IF s = e THEN ServesRealm(s)' ELSE WillPlace(f, s))
           /\ relisted'[f] = relisted[f]
           /\ f \notin LoadBalancers /\ NoticesIn(outbox[f], s) = {}
                => NoticesIn(outbox'[f], s) = {}
  BY RegisterServerEffect
<1>2. \A x \in Entity :
        /\ status'[x] = IF x = e THEN "CONNECTED" ELSE status[x]
        /\ info'[x] = IF x = e THEN [type |-> t, realm |-> r] ELSE info[x]
        /\ Stale(x)' <=> Stale(x)
  BY <1>0, EnlistEffect
<1>3. e \notin AllListed BY <1>0, EnlistLists
<1>4. e \notin LoadBalancers BY <1>3, BalancerVector DEF LoadBalancers, AllListed
<1>5. info'[e] # NoInfo BY <1>2, ComponentIsSome
<1>6. RegisteredConnected' BY <1>0, <1>2, <1>5 DEF RegisteredConnected
<1>7. NoticesForBalancers' BY <1>0, <1>1 DEF NoticesForBalancers
<1>8. ReplicaConverges'
  <2> SUFFICES ASSUME NEW f \in LoadBalancers', NEW s \in Entity, status'[f] = "CONNECTED"
               PROVE  /\ status'[s] = "CONNECTED" /\ info'[s].type # "LOADBALANCE"
                           => /\ WillKnow(f, s)'
                              /\ ServesRealm(s)' => WillPlace(f, s)' \/ s \in relisted'[f]
                      /\ WillKnow(f, s)' => info'[s] # NoInfo \/ Stale(s)'
    BY DEF ReplicaConverges
  <2>1. f \in LoadBalancers /\ f \in Entity BY <1>0, <1>1, BalancersAreEntities
  <2>2. status[f] = "CONNECTED" BY <1>2, <1>4, <2>1
  <2>3. CASE s = e BY <1>1, <1>5, <2>1, <2>3
  <2>4. CASE s # e
    <3>1. status'[s] = status[s] /\ info'[s] = info[s] /\ (Stale(s)' <=> Stale(s))
      BY <1>2, <2>4
    <3>2. ServesRealm(s)' <=> ServesRealm(s) BY <3>1, ServesSame
    <3>3. /\ WillKnow(f, s)' <=> WillKnow(f, s)
          /\ WillPlace(f, s)' <=> WillPlace(f, s)
          /\ relisted'[f] = relisted[f]
      BY <1>1, <2>1, <2>4
    <3> QED BY <1>0, <2>1, <2>2, <3>1, <3>2, <3>3 DEF ReplicaConverges
  <2> QED BY <2>3, <2>4
<1> QED BY <1>6, <1>7, <1>8 DEF DirectoryInv

(* The registration of a load balancer.                                      *)
LEMMA RegisterLoadBalancerKeeps ==
  ASSUME ServiceInv, DirectoryInv, NEW e \in Entity, RegisterLoadBalancer(e)
  PROVE  DirectoryInv'
<1>0. /\ RegisteredConnected /\ NoticesForBalancers /\ ReplicaConverges
      /\ TableOK /\ ConnectionTypes /\ Matches
      /\ Enlist(e, "LOADBALANCE", 0) /\ status' = [status EXCEPT ![e] = "CONNECTED"]
  BY InvGroups DEF DirectoryInv, RegisterLoadBalancer
<1>1. /\ e \notin LoadBalancers /\ LoadBalancers' = LoadBalancers \cup {e}
      /\ outbox' = outbox
      /\ \A f \in Entity, s \in Entity :
           /\ WillKnow(f, s)' <=> IF f = e THEN s \in AllListed \cup {e} ELSE WillKnow(f, s)
           /\ WillPlace(f, s)' <=> IF f = e THEN s \in RealmsWritten ELSE WillPlace(f, s)
           /\ relisted'[f] = relisted[f]
  BY RegisterLoadBalancerEffect
<1>2. 0 \in RealmsOf("LOADBALANCE") /\ "LOADBALANCE" \in AddressType
  BY BalancerVector DEF RealmsOf
<1>3. \A x \in Entity :
        /\ status'[x] = IF x = e THEN "CONNECTED" ELSE status[x]
        /\ info'[x] = IF x = e THEN [type |-> "LOADBALANCE", realm |-> 0] ELSE info[x]
        /\ Stale(x)' <=> Stale(x)
  BY <1>0, <1>2, EnlistEffect
<1>4. info'[e] # NoInfo /\ info'[e].type = "LOADBALANCE" BY <1>2, <1>3, ComponentIsSome
<1>5. RegisteredConnected' BY <1>0, <1>3, <1>4 DEF RegisteredConnected
<1>6. NoticesForBalancers' BY <1>0, <1>1 DEF NoticesForBalancers
<1>7. ReplicaConverges'
  <2> SUFFICES ASSUME NEW f \in LoadBalancers', NEW s \in Entity, status'[f] = "CONNECTED"
               PROVE  /\ status'[s] = "CONNECTED" /\ info'[s].type # "LOADBALANCE"
                           => /\ WillKnow(f, s)'
                              /\ ServesRealm(s)' => WillPlace(f, s)' \/ s \in relisted'[f]
                      /\ WillKnow(f, s)' => info'[s] # NoInfo \/ Stale(s)'
    BY DEF ReplicaConverges
  <2>1. CASE s = e BY <1>4, <2>1
  <2>2. CASE s # e
    <3>1. status'[s] = status[s] /\ info'[s] = info[s] /\ (Stale(s)' <=> Stale(s))
      BY <1>3, <2>2
    <3>2. ServesRealm(s)' <=> ServesRealm(s) BY <3>1, ServesSame
    <3>3. CASE f = e
      <4>1. WillKnow(f, s)' <=> s \in AllListed BY <1>1, <2>2, <3>3
      <4>2. s \in AllListed <=> info[s] # NoInfo \/ Stale(s) BY <1>0, ListedAre
      <4>3. status[s] = "CONNECTED" => info[s] # NoInfo BY <1>0 DEF RegisteredConnected
      <4>4. WillPlace(f, s)' <=> s \in AllListed /\ ServesRealm(s)
        BY <1>1, <3>3 DEF RealmsWritten
      <4> QED BY <3>1, <3>2, <4>1, <4>2, <4>3, <4>4
    <3>4. CASE f # e
      <4>1. f \in LoadBalancers /\ f \in Entity BY <1>0, <1>1, <3>4, BalancersAreEntities
      <4>2. status[f] = "CONNECTED" BY <1>3, <3>4, <4>1
      <4>3. /\ WillKnow(f, s)' <=> WillKnow(f, s)
            /\ WillPlace(f, s)' <=> WillPlace(f, s)
            /\ relisted'[f] = relisted[f]
        BY <1>1, <3>4, <4>1
      <4> QED BY <1>0, <3>1, <3>2, <4>1, <4>2, <4>3 DEF ReplicaConverges
    <3> QED BY <3>3, <3>4
  <2> QED BY <2>1, <2>2
<1> QED BY <1>5, <1>6, <1>7 DEF DirectoryInv

(* While the lists fit, no load balancer is turned away after it was listed: *)
(* it would itself be one too many.                                          *)
LEMMA NoneTurnedAway ==
  ASSUME ServiceInv, ListsFit', NEW e \in Entity PROVE ~RegisterLoadBalancerFails(e)
<1> SUFFICES ASSUME RegisterLoadBalancerFails(e) PROVE FALSE OBVIOUS
<1>1. Enlist(e, "LOADBALANCE", 0) BY DEF RegisterLoadBalancerFails
<1>2. Cardinality(AllListed \cup {e}) > FullLimit BY DEF RegisterLoadBalancerFails
<1>3. 0 \in RealmsOf("LOADBALANCE") /\ "LOADBALANCE" \in AddressType /\ 0 \in Realm
  BY BalancerVector DEF RealmsOf
<1>4. \A u \in AddressType, q \in Realm :
        ToSet(list'[u][q]) = IF u = "LOADBALANCE" /\ q = 0
                             THEN ToSet(list[u][q]) \cup {e} ELSE ToSet(list[u][q])
  BY <1>1, <1>3, EnlistLists
<1>5. AllListed \cup {e} \subseteq AllListed'
  <2>1. ASSUME NEW x \in AllListed PROVE x \in AllListed'
    <3>1. PICK u \in AddressType, q \in Realm : x \in Listed(u, q) BY <2>1 DEF AllListed
    <3>2. Key(u, q) \in Realm BY KeyInRealm
    <3>3. x \in Listed(u, q)' BY <1>4, <3>1, <3>2 DEF Listed, Servers, Key
    <3> QED BY <3>3 DEF AllListed
  <2>2. e \in AllListed'
    <3>1. e \in LoadBalancers' BY <1>3, <1>4, BalancerVector
    <3> QED BY <1>3, <3>1 DEF LoadBalancers, AllListed
  <2> QED BY <2>1, <2>2
<1> DEFINE S == AllListed'
           T == AllListed \cup {e}
<1>6. IsFiniteSet(S) /\ Cardinality(S) <= FullLimit BY DEF ListsFit
<1>7. T \in SUBSET S BY <1>5
<1>8. Cardinality(T) > FullLimit BY <1>2
<1> HIDE DEF S, T
<1>9. Cardinality(T) <= Cardinality(S) /\ IsFiniteSet(T) BY <1>6, <1>7, FS_Subset
<1>10. Cardinality(S) \in Nat /\ Cardinality(T) \in Nat BY <1>6, <1>9, FS_CardinalityType
<1> QED BY <1>6, <1>8, <1>9, <1>10, BoundsAssumption

(* A full list again.                                                        *)
LEMMA FullListKeeps ==
  ASSUME ServiceInv, DirectoryInv, ListsFit, NEW e \in Entity, HandleRequestServerInfo(e)
  PROVE  DirectoryInv'
<1>0. /\ RegisteredConnected /\ NoticesForBalancers /\ ReplicaConverges
      /\ TableOK /\ ConnectionTypes /\ Matches
  BY InvGroups DEF DirectoryInv
<1>1. /\ UNCHANGED <<list, status, info, outbox>>
      /\ \A f \in Entity, s \in Entity :
           \/ WillKnow(f, s)' <=> WillKnow(f, s)
           \/ f = e /\ (WillKnow(f, s)' <=> s \in AllListed)
      /\ \A f \in Entity, s \in Entity :
           f # e => (WillPlace(f, s)' <=> WillPlace(f, s)) /\ relisted'[f] = relisted[f]
      /\ \A s \in AllListed : ServesRealm(s) => s \in relisted'[e]
  BY FullListEffect
<1>2. LoadBalancers' = LoadBalancers BY <1>1, BalancerVector
<1>3. RegisteredConnected' BY <1>0, <1>1 DEF RegisteredConnected
<1>4. NoticesForBalancers' BY <1>0, <1>1, <1>2 DEF NoticesForBalancers
<1>5. ReplicaConverges'
  <2> SUFFICES ASSUME NEW f \in LoadBalancers', NEW s \in Entity, status'[f] = "CONNECTED"
               PROVE  /\ status'[s] = "CONNECTED" /\ info'[s].type # "LOADBALANCE"
                           => /\ WillKnow(f, s)'
                              /\ ServesRealm(s)' => WillPlace(f, s)' \/ s \in relisted'[f]
                      /\ WillKnow(f, s)' => info'[s] # NoInfo \/ Stale(s)'
    BY DEF ReplicaConverges
  <2>1. f \in LoadBalancers /\ f \in Entity BY <1>0, <1>2, BalancersAreEntities
  <2>2. status'[s] = status[s] /\ status'[f] = status[f] /\ info'[s] = info[s] BY <1>1
  <2>3. Stale(s)' <=> Stale(s) BY <1>1, StaleChange
  <2>4. s \in AllListed <=> info[s] # NoInfo \/ Stale(s) BY <1>0, ListedAre
  <2>5. status[s] = "CONNECTED" => info[s] # NoInfo BY <1>0 DEF RegisteredConnected
  <2>6. \/ WillKnow(f, s)' <=> WillKnow(f, s)
        \/ WillKnow(f, s)' <=> s \in AllListed
    BY <1>1, <2>1
  <2>7. /\ status[s] = "CONNECTED" /\ info[s].type # "LOADBALANCE"
             => /\ WillKnow(f, s)
                /\ ServesRealm(s) => WillPlace(f, s) \/ s \in relisted[f]
        /\ WillKnow(f, s) => info[s] # NoInfo \/ Stale(s)
    BY <1>0, <2>1, <2>2 DEF ReplicaConverges
  <2>8. ServesRealm(s)' <=> ServesRealm(s) BY <2>2, ServesSame
  <2>9. status[s] = "CONNECTED" /\ info[s].type # "LOADBALANCE" /\ ServesRealm(s)
          => WillPlace(f, s)' \/ s \in relisted'[f]
    <3>1. CASE f = e BY <1>1, <2>4, <2>5, <3>1
    <3>2. CASE f # e BY <1>1, <2>1, <2>7, <3>2
    <3> QED BY <3>1, <3>2
  <2> QED BY <2>2, <2>3, <2>4, <2>5, <2>6, <2>7, <2>8, <2>9
<1> QED BY <1>3, <1>4, <1>5 DEF DirectoryInv

(* A drop.                                                                   *)
LEMMA DropKeeps == ASSUME ServiceInv, DirectoryInv, DropOne PROVE DirectoryInv'
<1>0. RegisteredConnected /\ NoticesForBalancers /\ ReplicaConverges /\ TableOK
  BY InvGroups DEF DirectoryInv
<1>1. PICK x : x = Head(dropQueue) OBVIOUS
<1>2. /\ x \in Entity
      /\ \A y \in Entity :
           /\ status'[y] = IF y = x THEN "DESTROYED" ELSE status[y]
           /\ info'[y] = IF y = x THEN NoInfo ELSE info[y]
           /\ y # x => (Stale(y)' <=> Stale(y))
      /\ LoadBalancers' = LoadBalancers \ {x}
      /\ \A f \in Entity \ {x}, s \in Entity :
           /\ f \in LoadBalancers => (WillKnow(f, s)' <=> s # x /\ WillKnow(f, s))
           /\ s # x => (WillPlace(f, s)' <=> WillPlace(f, s))
           /\ relisted'[f] = relisted[f]
           /\ f \notin LoadBalancers /\ NoticesIn(outbox[f], s) = {}
                => NoticesIn(outbox'[f], s) = {}
      /\ \A s : NoticesIn(outbox'[x], s) = {}
  BY <1>1, DropEffect
<1>3. RegisteredConnected' BY <1>0, <1>2 DEF RegisteredConnected
<1>4. NoticesForBalancers' BY <1>0, <1>2 DEF NoticesForBalancers
<1>5. ReplicaConverges'
  <2> SUFFICES ASSUME NEW f \in LoadBalancers', NEW s \in Entity, status'[f] = "CONNECTED"
               PROVE  /\ status'[s] = "CONNECTED" /\ info'[s].type # "LOADBALANCE"
                           => /\ WillKnow(f, s)'
                              /\ ServesRealm(s)' => WillPlace(f, s)' \/ s \in relisted'[f]
                      /\ WillKnow(f, s)' => info'[s] # NoInfo \/ Stale(s)'
    BY DEF ReplicaConverges
  <2>1. f \in LoadBalancers /\ f \in Entity \ {x} BY <1>0, <1>2, BalancersAreEntities
  <2>2. WillKnow(f, s)' <=> s # x /\ WillKnow(f, s) BY <1>2, <2>1
  <2>3. CASE s = x BY <1>2, <2>2, <2>3
  <2>4. CASE s # x
    <3>1. status'[s] = status[s] /\ info'[s] = info[s] /\ (Stale(s)' <=> Stale(s))
      BY <1>2, <2>4
    <3>2. status[f] = "CONNECTED" BY <1>2, <2>1
    <3>3. ServesRealm(s)' <=> ServesRealm(s) BY <3>1, ServesSame
    <3>4. (WillPlace(f, s)' <=> WillPlace(f, s)) /\ relisted'[f] = relisted[f]
      BY <1>2, <2>1, <2>4
    <3> QED BY <1>0, <2>1, <2>2, <2>4, <3>1, <3>2, <3>3, <3>4 DEF ReplicaConverges
  <2> QED BY <2>3, <2>4
<1> QED BY <1>3, <1>4, <1>5 DEF DirectoryInv

(* At first there is nothing to know.                                        *)
LEMMA DirectoryInit == ServiceInit => DirectoryInv
<1> SUFFICES ASSUME ServiceInit PROVE DirectoryInv OBVIOUS
<1>1. RegisteredConnected BY DEF ServiceInit, RegisteredConnected
<1>2. \A e \in Entity : outbox[e] = <<>> BY DEF ServiceInit
<1>3. NoticesForBalancers BY <1>2, BelievesShort DEF NoticesForBalancers
<1>4. LoadBalancers = {}
  <2>1. list["LOADBALANCE"][0] = <<>> BY BalancerVector DEF ServiceInit, LBInit, TableInit
  <2>2. LoadBalancers = ToSet(<<>>) BY <2>1, BalancerVector
  <2> QED BY <2>2 DEF ToSet
<1>5. ReplicaConverges BY <1>4 DEF ReplicaConverges
<1> QED BY <1>1, <1>3, <1>5 DEF DirectoryInv

(* What a step is: calm, or one of the four that are not.                    *)
LEMMA StepKinds ==
  ASSUME ServiceInv, ListsFit', [ServiceNext]_serviceVars
  PROVE  \/ Calm
         \/ \E e \in Entity, t \in AddressType : \E r \in RealmsOf(t) : RegisterServer(e, t, r)
         \/ \E e \in Entity : RegisterLoadBalancer(e) \/ HandleRequestServerInfo(e)
         \/ DropOne
<1>1. CASE HandlerStep
  <2>1. PICK x \in Entity :
          \/ RejectPacket(x) \/ ClientChallenge(x) \/ ClientHandshake(x)
          \/ \E t \in Types : \E r \in RealmsOf(t) : RegisterServer(x, t, r)
          \/ RegisterLoadBalancer(x) \/ RegisterLoadBalancerFails(x)
          \/ HandleRequestServerInfo(x)
          \/ HandleRequestAddress(x) \/ HandleRequestAddressFails(x)
          \/ \E r \in Realm : HandleRequestRealmConnectionInfo(x, r)
    BY <1>1 DEF HandlerStep
  <2>2. CASE \E t \in Types : \E r \in RealmsOf(t) : RegisterServer(x, t, r)
    BY <2>2, TypesAssumption
  <2>3. CASE \/ RejectPacket(x) \/ ClientChallenge(x) \/ ClientHandshake(x)
             \/ HandleRequestAddress(x) \/ HandleRequestAddressFails(x)
                \/ \E r \in Realm : HandleRequestRealmConnectionInfo(x, r)
    BY <2>3, CalmHandlers
  <2> QED BY <2>1, <2>2, <2>3, NoneTurnedAway
<1>2. CASE \/ AcceptStep \/ VisitStep \/ AnswerStep \/ (\E x \in Entity : EndVisit(x))
           \/ UNCHANGED serviceVars
  BY <1>2, CalmSteps
<1>3. CASE DeferredStep BY <1>3, CalmSteps DEF DeferredStep
<1> QED BY <1>1, <1>2, <1>3 DEF ServiceNext, ServiceStep

(* Every step keeps the invariant.                                           *)
LEMMA DirectoryNext ==
  ASSUME ServiceInv, DirectoryInv, ListsFit, ListsFit', [ServiceNext]_serviceVars
  PROVE  DirectoryInv'
<1>1. TableOK BY InvGroups
<1> QED BY <1>1, StepKinds, CalmKeeps, RegisterServerKeeps, RegisterLoadBalancerKeeps,
        FullListKeeps, DropKeeps

(* Whatever mix of full lists and notices is on its way to a load balancer,  *)
(* once it has arrived the load balancer knows every server that is          *)
(* connected - its realm too, unless the server was in a list asked for      *)
(* again - and nothing that is gone, except what the table never forgets.    *)
THEOREM ReplicasConverge == ServiceSpec /\ []ListsFit => []ReplicaConverges
<1>1. ServiceInv /\ DirectoryInv /\ ListsFit /\ ListsFit' /\ [ServiceNext]_serviceVars
        => DirectoryInv'
  BY DirectoryNext
<1>2. DirectoryInv => ReplicaConverges BY DEF DirectoryInv
<1> QED BY <1>1, <1>2, DirectoryInit, ServiceInvariant, PTL DEF ServiceSpec

-----------------------------------------------------------------------------
(* The refinement of Directory.  Its variables, by name.                     *)

LeftBehind == { s \in Entity : Stale(s) }

Copies == [e \in Entity |-> IF e \in LoadBalancing
                            THEN { s \in KnownAfter(e) : Announced(s) } ELSE {}]

Located == [e \in Entity |-> IF e \in LoadBalancing
                             THEN { s \in Members : WillLocate(e, s) } ELSE {}]

(* The listed load balancers are the connected ones in the next state too.   *)
LEMMA BalancersConnectedNext ==
  (TableOK /\ Matches /\ RegisteredConnected => LoadBalancers = LoadBalancing)'
<1>1. TableOK /\ Matches /\ RegisteredConnected => LoadBalancers = LoadBalancing
  BY BalancersConnected
<1> QED BY <1>1, PTL

(* What they contain, now ...                                                *)
LEMMA DirectoryIs ==
  ASSUME TableOK, Matches, RegisteredConnected
  PROVE  /\ Copies = [f \in Entity |-> Copies[f]]
         /\ LoadBalancing = LoadBalancers /\ Members \subseteq Entity
         /\ \A s : s \in LeftBehind <=> s \in Entity /\ Stale(s)
         /\ \A s \in Entity :
              s \in Members <=> status[s] = "CONNECTED" /\ info[s].type # "LOADBALANCE"
         /\ \A f \in Entity :
              /\ f \notin LoadBalancing => Copies[f] = {}
              /\ \A s : s \in Copies[f] <=> /\ s \in Entity /\ f \in LoadBalancing
                                           /\ WillKnow(f, s) /\ info[s].type # "LOADBALANCE"
<1>1. LoadBalancing = LoadBalancers BY BalancersConnected
<1>2. Copies = [f \in Entity |-> Copies[f]] BY DEF Copies
<1>3. \A f \in Entity : Copies[f] = IF f \in LoadBalancing
                                     THEN { s \in KnownAfter(f) : Announced(s) } ELSE {}
  BY DEF Copies
<1>4. \A f, s : s \in KnownAfter(f) <=> s \in Entity /\ WillKnow(f, s) BY DEF KnownAfter
<1>5. \A s : s \in LeftBehind <=> s \in Entity /\ Stale(s) BY DEF LeftBehind
<1>6. /\ Members \subseteq Entity
      /\ \A s \in Entity :
           s \in Members <=> status[s] = "CONNECTED" /\ info[s].type # "LOADBALANCE"
  BY DEF Members, Announced
<1>7. ASSUME NEW f \in Entity
      PROVE  /\ f \notin LoadBalancing => Copies[f] = {}
             /\ \A s : s \in Copies[f] <=> /\ s \in Entity /\ f \in LoadBalancing
                                          /\ WillKnow(f, s) /\ info[s].type # "LOADBALANCE"
  BY <1>3, <1>4 DEF Announced
<1> QED BY <1>1, <1>2, <1>5, <1>6, <1>7

(* ... and in the next state.                                                *)
LEMMA DirectoryIsNext ==
  ASSUME TableOK', Matches', RegisteredConnected'
  PROVE  /\ Copies' = [f \in Entity |-> Copies'[f]]
         /\ LoadBalancing' = LoadBalancers' /\ Members' \subseteq Entity
         /\ \A s : s \in LeftBehind' <=> s \in Entity /\ Stale(s)'
         /\ \A s \in Entity :
              s \in Members' <=> status'[s] = "CONNECTED" /\ info'[s].type # "LOADBALANCE"
         /\ \A f \in Entity :
              /\ f \notin LoadBalancing' => Copies'[f] = {}
              /\ \A s : s \in Copies'[f] <=> /\ s \in Entity /\ f \in LoadBalancing'
                                            /\ WillKnow(f, s)' /\ info'[s].type # "LOADBALANCE"
<1>1. LoadBalancing' = LoadBalancers' BY BalancersConnectedNext
<1>2. Copies' = [f \in Entity |-> Copies'[f]] BY DEF Copies
<1>3. \A f \in Entity : Copies'[f] = IF f \in LoadBalancing'
                                      THEN { s \in KnownAfter(f)' : Announced(s)' } ELSE {}
  BY DEF Copies
<1>4. \A f, s : s \in KnownAfter(f)' <=> s \in Entity /\ WillKnow(f, s)' BY DEF KnownAfter
<1>5. \A s : s \in LeftBehind' <=> s \in Entity /\ Stale(s)' BY DEF LeftBehind
<1>6. /\ Members' \subseteq Entity
      /\ \A s \in Entity :
           s \in Members' <=> status'[s] = "CONNECTED" /\ info'[s].type # "LOADBALANCE"
  BY DEF Members, Announced
<1>7. ASSUME NEW f \in Entity
      PROVE  /\ f \notin LoadBalancing' => Copies'[f] = {}
             /\ \A s : s \in Copies'[f] <=> /\ s \in Entity /\ f \in LoadBalancing'
                                           /\ WillKnow(f, s)' /\ info'[s].type # "LOADBALANCE"
  BY <1>3, <1>4 DEF Announced
<1> QED BY <1>1, <1>2, <1>5, <1>6, <1>7

(* What the copies say everything of, now ...                                *)
LEMMA LocatedIs ==
  /\ Located = [f \in Entity |-> Located[f]]
  /\ \A f \in Entity :
       /\ f \notin LoadBalancing => Located[f] = {}
       /\ \A s : s \in Located[f] <=> /\ f \in LoadBalancing /\ s \in Members
                                      /\ WillKnow(f, s)
                                      /\ ServesRealm(s) => WillPlace(f, s)
<1>1. Located = [f \in Entity |-> Located[f]] BY DEF Located
<1>2. \A f \in Entity : Located[f] = IF f \in LoadBalancing
                                      THEN { s \in Members : WillLocate(f, s) } ELSE {}
  BY DEF Located
<1> QED BY <1>1, <1>2 DEF WillLocate

(* ... and in the next state.                                                *)
LEMMA LocatedIsNext ==
  /\ Located' = [f \in Entity |-> Located'[f]]
  /\ \A f \in Entity :
       /\ f \notin LoadBalancing' => Located'[f] = {}
       /\ \A s : s \in Located'[f] <=> /\ f \in LoadBalancing' /\ s \in Members'
                                       /\ WillKnow(f, s)'
                                       /\ ServesRealm(s)' => WillPlace(f, s)'
<1>1. Located' = [f \in Entity |-> Located'[f]] BY DEF Located
<1>2. \A f \in Entity : Located'[f] = IF f \in LoadBalancing'
                                       THEN { s \in Members' : WillLocate(f, s)' } ELSE {}
  BY DEF Located
<1> QED BY <1>1, <1>2 DEF WillLocate

(* Members are entities; for what is believed of them the copies only have   *)
(* to be compared there.                                                     *)
LEMMA MembersFacts ==
  /\ Members \subseteq Entity /\ Members' \subseteq Entity
  /\ \A s \in Members : status[s] = "CONNECTED" /\ info[s].type # "LOADBALANCE"
  /\ \A s \in Members' : status'[s] = "CONNECTED" /\ info'[s].type # "LOADBALANCE"
BY DEF Members, Announced

(* At first all is empty.                                                    *)
LEMMA DirectoryStarts == ServiceInit => D!Init
<1> SUFFICES ASSUME ServiceInit PROVE D!Init OBVIOUS
<1>1. \A e \in Entity : status[e] = "ABSENT" BY DEF ServiceInit
<1>2. LoadBalancing = {} BY <1>1 DEF LoadBalancing
<1>3. Members = {} BY <1>1 DEF Members
<1>4. LeftBehind = {} BY <1>1 DEF LeftBehind, Stale
<1>5. Copies = [e \in Entity |-> {}] BY <1>2 DEF Copies
<1>6. Located = [e \in Entity |-> {}] BY <1>2 DEF Located
<1>7. Located = Copies BY <1>5, <1>6
<1> QED BY <1>2, <1>3, <1>4, <1>5, <1>7, Zenon DEF D!Init, LeftBehind, Copies, Located

(* A calm step changes nothing of the directory.                             *)
LEMMA CalmStutters ==
  ASSUME ServiceInv, DirectoryInv, ServiceInv', DirectoryInv', Calm
  PROVE  UNCHANGED D!dirVars
<1>0. /\ TableOK /\ Matches /\ RegisteredConnected
      /\ TableOK' /\ Matches' /\ RegisteredConnected'
  BY InvGroups, InvGroupsNext DEF DirectoryInv
<1>1. LoadBalancing' = LoadBalancing
  BY <1>0, DirectoryIs, DirectoryIsNext, BalancerVector DEF Calm
<1>2. /\ info' = info
      /\ \A s \in Entity : /\ status'[s] = "CONNECTED" <=> status[s] = "CONNECTED"
                           /\ Stale(s)' <=> Stale(s)
      /\ \A f \in Entity, s \in Entity : WillKnow(f, s)' <=> WillKnow(f, s)
  BY StaleChange DEF Calm, StatusCalm, PeersCalm
<1>3. Members' = Members
  <2>1. /\ Members \subseteq Entity
        /\ \A s \in Entity :
             s \in Members <=> status[s] = "CONNECTED" /\ info[s].type # "LOADBALANCE"
    BY <1>0, DirectoryIs
  <2>2. /\ Members' \subseteq Entity
        /\ \A s \in Entity :
             s \in Members' <=> status'[s] = "CONNECTED" /\ info'[s].type # "LOADBALANCE"
    BY <1>0, DirectoryIsNext
  <2> QED BY <1>2, <2>1, <2>2
<1>4. LeftBehind' = LeftBehind BY <1>0, <1>2, DirectoryIs, DirectoryIsNext
<1>5. Copies' = Copies
  <2>1. ASSUME NEW f \in Entity PROVE Copies'[f] = Copies[f]
    <3>1. \A s : s \in Copies'[f] <=> s \in Copies[f]
      BY <1>0, <1>1, <1>2, DirectoryIs, DirectoryIsNext
    <3> QED BY <3>1
  <2>2. Copies = [f \in Entity |-> Copies[f]] /\ Copies' = [f \in Entity |-> Copies'[f]]
    BY <1>0, DirectoryIs, DirectoryIsNext
  <2> QED BY <2>1, <2>2
<1>6. Located' = Located
  <2>1. ASSUME NEW f \in Entity PROVE Located'[f] = Located[f]
    <3>1. ASSUME NEW x \in Members
          PROVE  /\ WillKnow(f, x)' <=> WillKnow(f, x)
                 /\ WillPlace(f, x)' <=> WillPlace(f, x)
                 /\ ServesRealm(x)' <=> ServesRealm(x)
      <4>1. x \in Entity BY MembersFacts
      <4> QED BY <4>1, ServesSame DEF Calm, PeersCalm
    <3>2. \A x : x \in Located'[f] <=> x \in Located[f]
      BY <1>1, <1>3, <3>1, LocatedIs, LocatedIsNext
    <3> QED BY <3>2
  <2>2. Located = [f \in Entity |-> Located[f]] /\ Located' = [f \in Entity |-> Located'[f]]
    BY LocatedIs, LocatedIsNext
  <2> QED BY <2>1, <2>2
<1> QED BY <1>1, <1>3, <1>4, <1>5, <1>6, Zenon DEF D!dirVars, LeftBehind, Copies, Located

(* Whoever registers is in nothing yet.                                      *)
LEMMA NewcomerIsNew ==
  ASSUME ServiceInv, DirectoryInv, NEW e \in Entity, NEW t \in AddressType,
         NEW r \in RealmsOf(t), Enlist(e, t, r)
  PROVE  /\ info[e] = NoInfo /\ ~Stale(e)
         /\ e \notin Members \cup LeftBehind \cup LoadBalancing
<1>0. TableOK /\ Matches /\ RegisteredConnected /\ ConnectionTypes
  BY InvGroups DEF DirectoryInv
<1>1. status[e] = "AUTH_SUCCESS" /\ info[e] = NoInfo BY EnlistLists
<1>2. ~Stale(e) BY <1>1 DEF Stale
<1>3. e \notin LoadBalancing BY <1>1 DEF LoadBalancing
<1>4. e \notin Members BY <1>1 DEF Members
<1> QED BY <1>1, <1>2, <1>3, <1>4 DEF LeftBehind

(* A server that registers joins.                                            *)
LEMMA RegisterServerJoins ==
  ASSUME ServiceInv, DirectoryInv, ServiceInv', DirectoryInv', NEW e \in Entity,
         NEW t \in AddressType, NEW r \in RealmsOf(t), RegisterServer(e, t, r)
  PROVE  D!Join(e)
<1>0. /\ TableOK /\ Matches /\ RegisteredConnected
      /\ TableOK' /\ Matches' /\ RegisteredConnected'
  BY InvGroups, InvGroupsNext DEF DirectoryInv
<1>1. Enlist(e, t, r) /\ t # "LOADBALANCE" /\ status' = [status EXCEPT ![e] = "CONNECTED"]
  BY DEF RegisterServer
<1>2. \A x \in Entity :
        /\ status'[x] = IF x = e THEN "CONNECTED" ELSE status[x]
        /\ info'[x] = IF x = e THEN [type |-> t, realm |-> r] ELSE info[x]
        /\ Stale(x)' <=> Stale(x)
  BY <1>1, EnlistEffect
<1>3. info'[e].type # "LOADBALANCE" /\ status'[e] = "CONNECTED" BY <1>1, <1>2
<1>4. \A x \in Entity : x # e => status'[x] = status[x] /\ info'[x] = info[x] BY <1>2
<1>5. /\ LoadBalancers' = LoadBalancers
      /\ \A f \in Entity, s \in Entity :
           /\ WillKnow(f, s)' <=> (f \in LoadBalancers /\ s = e) \/ WillKnow(f, s)
           /\ f \in LoadBalancers =>
                (WillPlace(f, s)' <=> IF s = e THEN ServesRealm(s)' ELSE WillPlace(f, s))
  BY RegisterServerEffect
<1>6. e \notin Members \cup LeftBehind \cup LoadBalancing BY <1>1, NewcomerIsNew
<1>7. LoadBalancing' = LoadBalancing BY <1>0, <1>5, DirectoryIs, DirectoryIsNext
<1>8. Members' = Members \cup {e}
  <2>1. \A x \in Entity : x \in Members' <=> x \in Members \/ x = e
    BY <1>0, <1>3, <1>4, DirectoryIs, DirectoryIsNext
  <2>2. Members' \subseteq Entity /\ Members \subseteq Entity
    BY <1>0, DirectoryIs, DirectoryIsNext
  <2> QED BY <2>1, <2>2
<1>9. LeftBehind' = LeftBehind
  <2>1. \A x \in Entity : Stale(x)' <=> Stale(x) BY <1>2
  <2> QED BY <1>0, <2>1, DirectoryIs, DirectoryIsNext
<1>10. Copies' = [f \in Entity |-> IF f \in LoadBalancing THEN Copies[f] \cup {e} ELSE {}]
  <2>1. ASSUME NEW f \in Entity
        PROVE  Copies'[f] = IF f \in LoadBalancing THEN Copies[f] \cup {e} ELSE {}
    <3>1. CASE f \in LoadBalancing
      <4>1. \A s \in Entity : s \in Copies'[f] <=> s \in Copies[f] \/ s = e
        BY <1>0, <1>3, <1>4, <1>5, <1>7, <3>1, DirectoryIs, DirectoryIsNext
      <4>2. \A s : (s \in Copies'[f] => s \in Entity) /\ (s \in Copies[f] => s \in Entity)
        BY <1>0, DirectoryIs, DirectoryIsNext
      <4> QED BY <3>1, <4>1, <4>2
    <3>2. CASE f \notin LoadBalancing BY <1>0, <1>7, <3>2, DirectoryIsNext
    <3> QED BY <3>1, <3>2
  <2>2. Copies' = [f \in Entity |-> Copies'[f]] BY <1>0, DirectoryIsNext
  <2> QED BY <2>1, <2>2
<1>11. Located' = [f \in Entity |-> IF f \in LoadBalancing THEN Located[f] \cup {e} ELSE {}]
  <2>1. ASSUME NEW f \in Entity
        PROVE  Located'[f] = IF f \in LoadBalancing THEN Located[f] \cup {e} ELSE {}
    <3>1. CASE f \in LoadBalancing
      <4>1. f \in LoadBalancers BY <1>0, <3>1, DirectoryIs
      <4>2. e \in Located'[f]
        BY <1>5, <1>7, <1>8, <3>1, <4>1, LocatedIsNext
      <4>3. ASSUME NEW x \in Members, x # e PROVE x \in Located'[f] <=> x \in Located[f]
        <5>1. x \in Entity BY MembersFacts
        <5>2. /\ WillKnow(f, x)' <=> WillKnow(f, x)
              /\ WillPlace(f, x)' <=> WillPlace(f, x)
          BY <1>5, <4>1, <4>3, <5>1
        <5>3. ServesRealm(x)' <=> ServesRealm(x) BY <1>4, <4>3, <5>1, ServesSame
        <5> QED BY <1>7, <1>8, <3>1, <5>2, <5>3, LocatedIs, LocatedIsNext
      <4>4. \A x : (x \in Located'[f] => x \in Members') /\ (x \in Located[f] => x \in Members)
        BY LocatedIs, LocatedIsNext
      <4>5. \A x : x \in Located'[f] <=> x \in Located[f] \/ x = e
        BY <1>6, <1>8, <4>2, <4>3, <4>4
      <4> QED BY <3>1, <4>5
    <3>2. CASE f \notin LoadBalancing BY <1>7, <3>2, LocatedIsNext
    <3> QED BY <3>1, <3>2
  <2>2. Located' = [f \in Entity |-> Located'[f]] BY LocatedIsNext
  <2> QED BY <2>1, <2>2
<1> QED BY <1>6, <1>7, <1>8, <1>9, <1>10, <1>11, Zenon
    DEF D!Join, LeftBehind, Copies, Located

(* A load balancer that registers subscribes.                                *)
LEMMA RegisterLoadBalancerSubscribes ==
  ASSUME ServiceInv, DirectoryInv, ServiceInv', DirectoryInv', NEW e \in Entity,
         RegisterLoadBalancer(e)
  PROVE  D!Subscribe(e)
<1>0. /\ TableOK /\ Matches /\ RegisteredConnected /\ ConnectionTypes /\ ComponentsOK
      /\ TableOK' /\ Matches' /\ RegisteredConnected' /\ ReplicaConverges
  BY InvGroups, InvGroupsNext DEF DirectoryInv
<1>1. Enlist(e, "LOADBALANCE", 0) /\ status' = [status EXCEPT ![e] = "CONNECTED"]
  BY DEF RegisterLoadBalancer
<1>2. 0 \in RealmsOf("LOADBALANCE") /\ "LOADBALANCE" \in AddressType
  BY BalancerVector DEF RealmsOf
<1>3. \A x \in Entity :
        /\ status'[x] = IF x = e THEN "CONNECTED" ELSE status[x]
        /\ info'[x] = IF x = e THEN [type |-> "LOADBALANCE", realm |-> 0] ELSE info[x]
        /\ Stale(x)' <=> Stale(x)
  BY <1>1, <1>2, EnlistEffect
<1>4. info'[e].type = "LOADBALANCE" BY <1>3
<1>5. \A x \in Entity : x # e => status'[x] = status[x] /\ info'[x] = info[x] BY <1>3
<1>6. /\ LoadBalancers' = LoadBalancers \cup {e}
      /\ \A f \in Entity, s \in Entity :
           /\ WillKnow(f, s)' <=> IF f = e THEN s \in AllListed \cup {e} ELSE WillKnow(f, s)
           /\ WillPlace(f, s)' <=> IF f = e THEN s \in RealmsWritten ELSE WillPlace(f, s)
  BY RegisterLoadBalancerEffect
<1>7. /\ info[e] = NoInfo /\ ~Stale(e)
      /\ e \notin Members \cup LeftBehind \cup LoadBalancing
  BY <1>1, <1>2, NewcomerIsNew
<1>8. LoadBalancing' = LoadBalancing \cup {e} BY <1>0, <1>6, DirectoryIs, DirectoryIsNext
<1>9. Members' = Members
  <2>1. \A x \in Entity : x \in Members' <=> x \in Members
    BY <1>0, <1>4, <1>5, <1>7, DirectoryIs, DirectoryIsNext
  <2>2. Members' \subseteq Entity /\ Members \subseteq Entity
    BY <1>0, DirectoryIs, DirectoryIsNext
  <2> QED BY <2>1, <2>2
<1>10. LeftBehind' = LeftBehind
  <2>1. \A x \in Entity : Stale(x)' <=> Stale(x) BY <1>3
  <2> QED BY <1>0, <2>1, DirectoryIs, DirectoryIsNext
<1>11. Copies' = [Copies EXCEPT ![e] = Members \cup LeftBehind]
  <2>1. Copies'[e] = Members \cup LeftBehind
    <3>1. ASSUME NEW s \in Entity
          PROVE  s \in Copies'[e] <=> s \in Members \/ s \in LeftBehind
      <4>1. CASE s = e BY <1>0, <1>4, <1>7, <4>1, DirectoryIsNext
      <4>2. CASE s # e
        <5>1. WillKnow(e, s)' <=> s \in AllListed BY <1>6, <4>2
        <5>2. s \in AllListed <=> info[s] # NoInfo \/ Stale(s) BY <1>0, ListedAre
        <5>3. info[s] # NoInfo <=> status[s] = "CONNECTED" BY <1>0 DEF RegisteredConnected
        <5>4. Stale(s) => info[s].type # "LOADBALANCE"
          <6>1. Stale(s) => status[s] = "DESTROYED" BY DEF Stale
          <6> QED BY <5>3, <6>1 DEF NoInfo
        <5>5. info'[s] = info[s] BY <1>5, <4>2
        <5>6. s \in Copies'[e] <=> WillKnow(e, s)' /\ info[s].type # "LOADBALANCE"
          BY <1>0, <1>8, <5>5, DirectoryIsNext
        <5>7. /\ s \in Members <=> status[s] = "CONNECTED" /\ info[s].type # "LOADBALANCE"
              /\ s \in LeftBehind <=> Stale(s)
          BY <1>0, DirectoryIs
        <5> QED BY <5>1, <5>2, <5>3, <5>4, <5>6, <5>7
      <4> QED BY <4>1, <4>2
    <3>2. /\ Members \subseteq Entity
          /\ \A s : (s \in Copies'[e] => s \in Entity) /\ (s \in LeftBehind => s \in Entity)
      BY <1>0, DirectoryIs, DirectoryIsNext
    <3> QED BY <3>1, <3>2
  <2>2. ASSUME NEW f \in Entity, f # e PROVE Copies'[f] = Copies[f]
    <3>1. f \in LoadBalancing' <=> f \in LoadBalancing BY <1>8, <2>2
    <3>2. f \in LoadBalancing => ~WillKnow(f, e)
      <4>1. f \in LoadBalancing => f \in LoadBalancers /\ status[f] = "CONNECTED"
        BY <1>0, DirectoryIs DEF LoadBalancing
      <4> QED BY <1>0, <1>7, <4>1 DEF ReplicaConverges
    <3>3. ASSUME NEW s \in Entity PROVE s \in Copies'[f] <=> s \in Copies[f]
      <4>1. WillKnow(f, s)' <=> WillKnow(f, s) BY <1>6, <2>2
      <4>2. CASE s = e
        BY <1>0, <1>4, <3>2, <4>2, DirectoryIs, DirectoryIsNext
      <4>3. CASE s # e
        BY <1>0, <1>5, <3>1, <4>1, <4>3, DirectoryIs, DirectoryIsNext
      <4> QED BY <4>2, <4>3
    <3>4. \A s : (s \in Copies'[f] => s \in Entity) /\ (s \in Copies[f] => s \in Entity)
      BY <1>0, DirectoryIs, DirectoryIsNext
    <3> QED BY <3>3, <3>4
  <2>3. /\ Copies = [f \in Entity |-> Copies[f]] /\ Copies' = [f \in Entity |-> Copies'[f]]
    BY <1>0, DirectoryIs, DirectoryIsNext
  <2> QED BY <2>1, <2>2, <2>3
<1>12. Located' = [Located EXCEPT ![e] = Members]
  <2>1. ASSUME NEW x \in Members
        PROVE  /\ x \in Entity /\ x # e /\ x \in AllListed
               /\ ServesRealm(x)' <=> ServesRealm(x)
    <3>1. x \in Entity /\ status[x] = "CONNECTED" /\ x # e BY <1>7, MembersFacts
    <3>2. info[x] # NoInfo BY <1>0, <3>1 DEF RegisteredConnected
    <3>3. x \in AllListed BY <1>0, <3>1, <3>2, ListedAre
    <3> QED BY <1>5, <3>1, <3>3, ServesSame
  <2>2. Located'[e] = Members
    <3>1. ASSUME NEW x \in Members PROVE x \in Located'[e]
      <4>1. WillKnow(e, x)' BY <1>6, <2>1
      <4>2. ServesRealm(x)' => WillPlace(e, x)' BY <1>6, <2>1 DEF RealmsWritten
      <4> QED BY <1>8, <1>9, <4>1, <4>2, LocatedIsNext
    <3>2. \A x : x \in Located'[e] => x \in Members BY <1>9, LocatedIsNext
    <3> QED BY <3>1, <3>2
  <2>3. ASSUME NEW f \in Entity, f # e PROVE Located'[f] = Located[f]
    <3>1. f \in LoadBalancing' <=> f \in LoadBalancing BY <1>8, <2>3
    <3>2. ASSUME NEW x \in Members
          PROVE  /\ WillKnow(f, x)' <=> WillKnow(f, x)
                 /\ WillPlace(f, x)' <=> WillPlace(f, x)
      BY <1>6, <2>1, <2>3
    <3>3. \A x : x \in Located'[f] <=> x \in Located[f]
      BY <1>9, <2>1, <3>1, <3>2, LocatedIs, LocatedIsNext
    <3> QED BY <3>3
  <2>4. Located = [f \in Entity |-> Located[f]] /\ Located' = [f \in Entity |-> Located'[f]]
    BY LocatedIs, LocatedIsNext
  <2> QED BY <2>2, <2>3, <2>4
<1> QED BY <1>7, <1>8, <1>9, <1>10, <1>11, <1>12, Zenon
    DEF D!Subscribe, LeftBehind, Copies, Located

(* A full list sent again refreshes the copy of the one that asks.           *)
LEMMA FullListRefreshes ==
  ASSUME ServiceInv, DirectoryInv, ServiceInv', DirectoryInv', ListsFit, NEW e \in Entity,
         HandleRequestServerInfo(e)
  PROVE  D!Refresh(e)
<1>0. /\ TableOK /\ Matches /\ RegisteredConnected /\ ReplicaConverges /\ ReplicaConverges'
      /\ TableOK' /\ Matches' /\ RegisteredConnected'
  BY InvGroups, InvGroupsNext DEF DirectoryInv
<1>1. /\ UNCHANGED <<list, status, info, outbox>>
      /\ \A f \in Entity, s \in Entity :
           \/ WillKnow(f, s)' <=> WillKnow(f, s)
           \/ f = e /\ (WillKnow(f, s)' <=> s \in AllListed)
      /\ \A f \in Entity, s \in Entity :
           /\ f # e => (WillPlace(f, s)' <=> WillPlace(f, s))
           /\ WillPlace(f, s)' => WillPlace(f, s)
  BY FullListEffect
<1>2. e \in LoadBalancing
  BY DEF HandleRequestServerInfo, Handles, LoadBalancing
<1>3. LoadBalancing' = LoadBalancing
  BY <1>0, <1>1, DirectoryIs, DirectoryIsNext, BalancerVector
<1>4. Members' = Members
  <2>1. /\ Members \subseteq Entity
        /\ \A s \in Entity :
             s \in Members <=> status[s] = "CONNECTED" /\ info[s].type # "LOADBALANCE"
    BY <1>0, DirectoryIs
  <2>2. /\ Members' \subseteq Entity
        /\ \A s \in Entity :
             s \in Members' <=> status'[s] = "CONNECTED" /\ info'[s].type # "LOADBALANCE"
    BY <1>0, DirectoryIsNext
  <2> QED BY <1>1, <2>1, <2>2
<1>5. LeftBehind' = LeftBehind
  <2>1. \A x \in Entity : Stale(x)' <=> Stale(x) BY <1>1, StaleChange
  <2> QED BY <1>0, <2>1, DirectoryIs, DirectoryIsNext
<1>6. Copies'[e] = Members \cup (Copies'[e] \cap LeftBehind)
  <2>1. e \in LoadBalancers' /\ status'[e] = "CONNECTED"
    BY <1>0, <1>1, <1>2, <1>3, DirectoryIsNext DEF LoadBalancing
  <2>2. ASSUME NEW s \in Members PROVE s \in Copies'[e]
    <3>1. s \in Entity /\ status'[s] = "CONNECTED" /\ info'[s].type # "LOADBALANCE"
      BY <1>0, <1>1, DirectoryIs
    <3>2. WillKnow(e, s)' BY <1>0, <2>1, <3>1 DEF ReplicaConverges
    <3> QED BY <1>0, <1>2, <1>3, <3>1, <3>2, DirectoryIsNext
  <2>3. ASSUME NEW s \in Copies'[e] PROVE s \in Members \/ s \in LeftBehind
    <3>1. s \in Entity /\ WillKnow(e, s)' /\ info'[s].type # "LOADBALANCE"
      BY <1>0, DirectoryIsNext
    <3>2. info'[s] # NoInfo \/ Stale(s)' BY <1>0, <2>1, <3>1 DEF ReplicaConverges
    <3>3. CASE Stale(s)' BY <1>0, <1>5, <3>1, <3>3, DirectoryIsNext
    <3>4. CASE info'[s] # NoInfo
      <4>1. status'[s] = "CONNECTED" BY <1>0, <3>1, <3>4 DEF RegisteredConnected
      <4> QED BY <1>0, <1>4, <3>1, <4>1, DirectoryIsNext
    <3> QED BY <3>2, <3>3, <3>4
  <2> QED BY <2>2, <2>3
<1>7. ASSUME NEW f \in Entity, f # e PROVE Copies'[f] = Copies[f]
  <2>1. \A s \in Entity : WillKnow(f, s)' <=> WillKnow(f, s) BY <1>1, <1>7
  <2>2. \A s : s \in Copies'[f] <=> s \in Copies[f]
    BY <1>0, <1>1, <1>3, <2>1, DirectoryIs, DirectoryIsNext
  <2> QED BY <2>2
<1>8. \E some \in SUBSET LeftBehind : Copies' = [Copies EXCEPT ![e] = Members \cup some]
  <2>1. PICK some \in SUBSET LeftBehind : some = Copies'[e] \cap LeftBehind OBVIOUS
  <2>2. Copies'[e] = Members \cup some BY <1>6, <2>1
  <2>3. /\ Copies = [f \in Entity |-> Copies[f]] /\ Copies' = [f \in Entity |-> Copies'[f]]
    BY <1>0, DirectoryIs, DirectoryIsNext
  <2>4. Copies' = [Copies EXCEPT ![e] = Members \cup some] BY <1>7, <2>2, <2>3
  <2> QED BY <2>4
<1>9. \A x \in Entity : ServesRealm(x)' <=> ServesRealm(x) BY <1>1, ServesSame
<1>10. Located'[e] \subseteq Located[e]
  <2>1. e \in LoadBalancers /\ status[e] = "CONNECTED"
    BY <1>0, <1>2, DirectoryIs DEF LoadBalancing
  <2>2. ASSUME NEW x \in Located'[e] PROVE x \in Located[e]
    <3>1. x \in Members /\ (ServesRealm(x)' => WillPlace(e, x)')
      BY <1>4, LocatedIsNext
    <3>2. x \in Entity /\ status[x] = "CONNECTED" /\ info[x].type # "LOADBALANCE"
      BY <3>1, MembersFacts
    <3>3. WillKnow(e, x) BY <1>0, <2>1, <3>2 DEF ReplicaConverges
    <3>4. ServesRealm(x) => WillPlace(e, x) BY <1>1, <1>9, <3>1, <3>2
    <3> QED BY <1>2, <3>1, <3>3, <3>4, LocatedIs
  <2> QED BY <2>2
<1>11. ASSUME NEW f \in Entity, f # e PROVE Located'[f] = Located[f]
  <2>1. ASSUME NEW x \in Members
        PROVE  /\ WillKnow(f, x)' <=> WillKnow(f, x)
               /\ WillPlace(f, x)' <=> WillPlace(f, x)
               /\ ServesRealm(x)' <=> ServesRealm(x)
    <3>1. x \in Entity BY MembersFacts
    <3> QED BY <1>1, <1>9, <1>11, <3>1
  <2>2. \A x : x \in Located'[f] <=> x \in Located[f]
    BY <1>3, <1>4, <2>1, LocatedIs, LocatedIsNext
  <2> QED BY <2>2
<1>12. \E still \in SUBSET Located[e] : Located' = [Located EXCEPT ![e] = still]
  <2>1. PICK still \in SUBSET Located[e] : still = Located'[e] BY <1>10
  <2>2. Located = [f \in Entity |-> Located[f]] /\ Located' = [f \in Entity |-> Located'[f]]
    BY LocatedIs, LocatedIsNext
  <2>3. Located' = [Located EXCEPT ![e] = still] BY <1>11, <2>1, <2>2
  <2> QED BY <2>3
<1> QED BY <1>2, <1>3, <1>4, <1>5, <1>8, <1>12, Zenon
    DEF D!Refresh, LeftBehind, Copies, Located

(* What a drop does to the directory, whoever is dropped: members and        *)
(* subscribers lose it, every copy loses it, and it may be left behind.      *)
LEMMA DropView ==
  ASSUME ServiceInv, DirectoryInv, ServiceInv', DirectoryInv', DropOne,
         NEW e, e = Head(dropQueue)
  PROVE  /\ e \in Entity
         /\ Members' = Members \ {e} /\ LoadBalancing' = LoadBalancing \ {e}
         /\ LeftBehind' = LeftBehind \/ (LeftBehind' = LeftBehind \cup {e} /\ e \in Members)
         /\ Copies' = [f \in Entity |-> IF f = e THEN {} ELSE Copies[f] \ {e}]
         /\ Located' = [f \in Entity |-> IF f = e THEN {} ELSE Located[f] \ {e}]
<1>0. /\ TableOK /\ Matches /\ RegisteredConnected /\ ReplicaConverges
      /\ TableOK' /\ Matches' /\ RegisteredConnected'
  BY InvGroups, InvGroupsNext DEF DirectoryInv
<1>1. PICK x : x = e OBVIOUS
<1>2. /\ x \in Entity /\ x \in Alive
      /\ \A y \in Entity :
           /\ status'[y] = IF y = x THEN "DESTROYED" ELSE status[y]
           /\ info'[y] = IF y = x THEN NoInfo ELSE info[y]
           /\ y # x => (Stale(y)' <=> Stale(y))
      /\ Stale(x)' => info[x] # NoInfo /\ info[x].type # "LOADBALANCE"
      /\ LoadBalancers' = LoadBalancers \ {x}
      /\ \A f \in Entity \ {x}, s \in Entity :
           /\ f \in LoadBalancers => (WillKnow(f, s)' <=> s # x /\ WillKnow(f, s))
           /\ s # x => (WillPlace(f, s)' <=> WillPlace(f, s))
  BY <1>1, DropEffect
<1>3. \A y \in Entity : y # x => status'[y] = status[y] /\ info'[y] = info[y] BY <1>2
<1>4. status'[x] = "DESTROYED" BY <1>2
<1>5. LoadBalancing' = LoadBalancing \ {x} BY <1>0, <1>2, DirectoryIs, DirectoryIsNext
<1>6. Members' = Members \ {x}
  <2>1. \A y \in Entity : y \in Members' <=> y \in Members /\ y # x
    BY <1>0, <1>3, <1>4, DirectoryIs, DirectoryIsNext
  <2>2. Members' \subseteq Entity /\ Members \subseteq Entity
    BY <1>0, DirectoryIs, DirectoryIsNext
  <2> QED BY <2>1, <2>2
<1>7. LeftBehind' = LeftBehind \/ (LeftBehind' = LeftBehind \cup {x} /\ x \in Members)
  <2>1. x \notin LeftBehind
    <3>1. status[x] # "DESTROYED" BY <1>2 DEF Alive, IsAlive
    <3> QED BY <3>1 DEF LeftBehind, Stale
  <2>2. \A y : y # x => (y \in LeftBehind' <=> y \in LeftBehind)
    BY <1>0, <1>2, DirectoryIs, DirectoryIsNext
  <2>3. x \in LeftBehind' => x \in Members
    <3>1. x \in LeftBehind' => info[x] # NoInfo /\ info[x].type # "LOADBALANCE"
      BY <1>0, <1>2, DirectoryIsNext
    <3>2. info[x] # NoInfo => status[x] = "CONNECTED" BY <1>0, <1>2 DEF RegisteredConnected
    <3> QED BY <1>0, <1>2, <3>1, <3>2, DirectoryIs
  <2> QED BY <2>1, <2>2, <2>3
<1>8. Copies' = [f \in Entity |-> IF f = x THEN {} ELSE Copies[f] \ {x}]
  <2>1. Copies'[x] = {} BY <1>0, <1>2, <1>5, DirectoryIsNext
  <2>2. ASSUME NEW f \in Entity, f # x PROVE Copies'[f] = Copies[f] \ {x}
    <3>1. CASE f \in LoadBalancing
      <4>1. f \in LoadBalancers /\ f \in LoadBalancing' BY <1>0, <1>5, <2>2, <3>1, DirectoryIs
      <4>2. \A s \in Entity : WillKnow(f, s)' <=> s # x /\ WillKnow(f, s)
        BY <1>2, <2>2, <4>1
      <4>3. \A s \in Entity : s \in Copies'[f] <=> s \in Copies[f] /\ s # x
        BY <1>0, <1>3, <3>1, <4>1, <4>2, DirectoryIs, DirectoryIsNext
      <4>4. \A s : (s \in Copies'[f] => s \in Entity) /\ (s \in Copies[f] => s \in Entity)
        BY <1>0, DirectoryIs, DirectoryIsNext
      <4> QED BY <4>3, <4>4
    <3>2. CASE f \notin LoadBalancing
      BY <1>0, <1>5, <3>2, DirectoryIs, DirectoryIsNext
    <3> QED BY <3>1, <3>2
  <2>3. Copies' = [f \in Entity |-> Copies'[f]] BY <1>0, DirectoryIsNext
  <2>4. \A f \in Entity : Copies'[f] = IF f = x THEN {} ELSE Copies[f] \ {x} BY <2>1, <2>2
  <2> QED BY <2>3, <2>4
<1>9. Located' = [f \in Entity |-> IF f = x THEN {} ELSE Located[f] \ {x}]
  <2>1. Located'[x] = {} BY <1>2, <1>5, LocatedIsNext
  <2>2. ASSUME NEW f \in Entity, f # x PROVE Located'[f] = Located[f] \ {x}
    <3>1. CASE f \in LoadBalancing
      <4>1. f \in LoadBalancers /\ f \in LoadBalancing' BY <1>0, <1>5, <2>2, <3>1, DirectoryIs
      <4>2. ASSUME NEW s \in Members, s # x PROVE s \in Located'[f] <=> s \in Located[f]
        <5>1. s \in Entity /\ s \in Members' BY <1>6, <4>2, MembersFacts
        <5>2. /\ WillKnow(f, s)' <=> WillKnow(f, s)
              /\ WillPlace(f, s)' <=> WillPlace(f, s)
          BY <1>2, <2>2, <4>1, <4>2, <5>1
        <5>3. ServesRealm(s)' <=> ServesRealm(s) BY <1>3, <4>2, <5>1, ServesSame
        <5> QED BY <3>1, <4>1, <5>1, <5>2, <5>3, LocatedIs, LocatedIsNext
      <4>3. \A s : (s \in Located'[f] => s \in Members') /\ (s \in Located[f] => s \in Members)
        BY LocatedIs, LocatedIsNext
      <4>4. \A s : s \in Located'[f] <=> s \in Located[f] /\ s # x
        BY <1>6, <4>2, <4>3
      <4> QED BY <4>4
    <3>2. CASE f \notin LoadBalancing BY <1>5, <3>2, LocatedIs, LocatedIsNext
    <3> QED BY <3>1, <3>2
  <2>3. Located' = [f \in Entity |-> Located'[f]] BY LocatedIsNext
  <2>4. \A f \in Entity : Located'[f] = IF f = x THEN {} ELSE Located[f] \ {x} BY <2>1, <2>2
  <2> QED BY <2>3, <2>4
<1> QED BY <1>1, <1>2, <1>5, <1>6, <1>7, <1>8, <1>9

(* The drop of a server is a departure, that of a load balancer the end of a *)
(* subscription, and that of anyone else nothing to the directory.           *)
LEMMA DropLeaves ==
  ASSUME ServiceInv, DirectoryInv, ServiceInv', DirectoryInv', DropOne
  PROVE  [D!Next]_D!dirVars
<1>0. TableOK /\ Matches /\ RegisteredConnected /\ ReplicaConverges
  BY InvGroups DEF DirectoryInv
<1>1. PICK e : e = Head(dropQueue) OBVIOUS
<1>2. /\ e \in Entity
      /\ Members' = Members \ {e} /\ LoadBalancing' = LoadBalancing \ {e}
      /\ LeftBehind' = LeftBehind \/ (LeftBehind' = LeftBehind \cup {e} /\ e \in Members)
      /\ Copies' = [f \in Entity |-> IF f = e THEN {} ELSE Copies[f] \ {e}]
      /\ Located' = [f \in Entity |-> IF f = e THEN {} ELSE Located[f] \ {e}]
  BY <1>1, DropView
<1>3. Copies = [f \in Entity |-> Copies[f]] /\ Located = [f \in Entity |-> Located[f]]
  BY <1>0, DirectoryIs, LocatedIs
<1>4. e \notin Members \/ e \notin LoadBalancing BY DEF Members, LoadBalancing, Announced
<1>5. \A f \in Entity : e \notin Members => e \notin Copies[f]
  <2>1. ASSUME NEW f \in Entity, e \in Copies[f] PROVE e \in Members
    <3>1. f \in LoadBalancing /\ WillKnow(f, e) /\ info[e].type # "LOADBALANCE"
      BY <1>0, <1>2, <2>1, DirectoryIs
    <3>2. f \in LoadBalancers /\ status[f] = "CONNECTED" BY <1>0, <3>1, DirectoryIs DEF LoadBalancing
    <3>3. ~Stale(e)
      <4>1. e \in Alive BY <1>1, DropEffect
      <4> QED BY <4>1 DEF Alive, IsAlive, Stale
    <3>4. info[e] # NoInfo BY <1>0, <1>2, <3>1, <3>2, <3>3 DEF ReplicaConverges
    <3>5. status[e] = "CONNECTED" BY <1>0, <1>2, <3>4 DEF RegisteredConnected
    <3> QED BY <1>0, <1>2, <3>1, <3>5, DirectoryIs
  <2> QED BY <2>1
<1>6. \A f \in Entity : e \notin Members => e \notin Located[f] BY LocatedIs
<1>7. CASE e \in Members
  <2>1. LoadBalancing' = LoadBalancing BY <1>2, <1>4, <1>7
  <2>2. Copies[e] = {} BY <1>0, <1>2, <1>4, <1>7, DirectoryIs
  <2>3. Copies' = [f \in Entity |-> Copies[f] \ {e}] BY <1>2, <2>2
  <2>4. LeftBehind' \in {LeftBehind, LeftBehind \cup {e}} BY <1>2
  <2>5. Members' = Members \ {e} BY <1>2
  <2>6. Located[e] = {} BY <1>2, <1>4, <1>7, LocatedIs
  <2>7. Located' = [f \in Entity |-> Located[f] \ {e}] BY <1>2, <2>6
  <2>8. D!Leave(e)
    BY <1>7, <2>1, <2>3, <2>4, <2>5, <2>7, Zenon DEF D!Leave, LeftBehind, Copies, Located
  <2> QED BY <1>2, <2>8 DEF D!Next
<1>8. CASE e \notin Members
  <2>1. Members' = Members /\ LeftBehind' = LeftBehind BY <1>2, <1>8
  <2>2. \A f \in Entity : Copies[f] \ {e} = Copies[f] BY <1>5, <1>8
  <2>3. Copies' = [f \in Entity |-> IF f = e THEN {} ELSE Copies[f]] BY <1>2, <2>2
  <2>4. \A f \in Entity : Located[f] \ {e} = Located[f] BY <1>8, <1>6
  <2>5. Located' = [f \in Entity |-> IF f = e THEN {} ELSE Located[f]] BY <1>2, <2>4
  <2>6. CASE e \in LoadBalancing
    <3>1. Copies' = [Copies EXCEPT ![e] = {}] BY <1>3, <2>3
    <3>2. LoadBalancing' = LoadBalancing \ {e} BY <1>2
    <3>3. Located' = [Located EXCEPT ![e] = {}] BY <1>3, <2>5
    <3>4. D!Unsubscribe(e)
      BY <2>1, <2>6, <3>1, <3>2, <3>3, Zenon DEF D!Unsubscribe, LeftBehind, Copies, Located
    <3> QED BY <1>2, <3>4 DEF D!Next
  <2>7. CASE e \notin LoadBalancing
    <3>1. LoadBalancing' = LoadBalancing BY <1>2, <2>7
    <3>2. Copies[e] = {} BY <1>0, <1>2, <2>7, DirectoryIs
    <3>3. Copies' = Copies BY <1>3, <2>3, <3>2
    <3>4. Located[e] = {} BY <1>2, <2>7, LocatedIs
    <3>5. Located' = Located BY <1>3, <2>5, <3>4
    <3>6. UNCHANGED D!dirVars
      BY <2>1, <3>1, <3>3, <3>5, Zenon DEF D!dirVars, LeftBehind, Copies, Located
    <3> QED BY <3>6
  <2> QED BY <2>6, <2>7
<1> QED BY <1>7, <1>8

(* Every step of the service is a step of the directory, or changes nothing  *)
(* of it.                                                                    *)
LEMMA DirectoryStep ==
  ASSUME ServiceInv, DirectoryInv, ListsFit, ListsFit', [ServiceNext]_serviceVars
  PROVE  [D!Next]_D!dirVars
<1>0. ServiceInv' /\ DirectoryInv' BY NextInv, DirectoryNext
<1>1. CASE Calm
  <2>1. UNCHANGED D!dirVars BY <1>0, <1>1, CalmStutters
  <2> QED BY <2>1
<1>2. ASSUME NEW e \in Entity, NEW t \in AddressType, NEW r \in RealmsOf(t),
             RegisterServer(e, t, r)
      PROVE  [D!Next]_D!dirVars
  <2>1. D!Join(e) BY <1>0, <1>2, RegisterServerJoins
  <2> QED BY <2>1 DEF D!Next
<1>3. ASSUME NEW e \in Entity, RegisterLoadBalancer(e) PROVE [D!Next]_D!dirVars
  <2>1. D!Subscribe(e) BY <1>0, <1>3, RegisterLoadBalancerSubscribes
  <2> QED BY <2>1 DEF D!Next
<1>4. ASSUME NEW e \in Entity, HandleRequestServerInfo(e) PROVE [D!Next]_D!dirVars
  <2>1. D!Refresh(e) BY <1>0, <1>4, FullListRefreshes
  <2> QED BY <2>1 DEF D!Next
<1>5. CASE DropOne BY <1>0, <1>5, DropLeaves
<1> QED BY StepKinds, <1>1, <1>2, <1>3, <1>4, <1>5

(* The service implements Directory: every copy of the list follows every    *)
(* arrival and departure in the same step as the others, whatever is queued, *)
(* sent early, held back or sent past the buffer; only a list asked for      *)
(* again takes realms out of a copy.                                         *)
THEOREM ServiceKeepsDirectory == ServiceSpec /\ []ListsFit => KeepsDirectory
<1>1. ServiceInv /\ DirectoryInv /\ ListsFit /\ ListsFit' /\ [ServiceNext]_serviceVars
        => DirectoryInv'
  BY DirectoryNext
<1>2. ServiceInv /\ DirectoryInv /\ ListsFit /\ ListsFit' /\ [ServiceNext]_serviceVars
        => [D!Next]_D!dirVars
  BY DirectoryStep
<1> QED BY <1>1, <1>2, DirectoryInit, DirectoryStarts, ServiceInvariant, PTL
    DEF ServiceSpec, KeepsDirectory, D!Spec

-----------------------------------------------------------------------------
(* The condition holds whenever there are not more peers than one full list  *)
(* has room for.                                                             *)
LEMMA FewPeersFit ==
  ASSUME IsFiniteSet(Entity), Cardinality(Entity) <= FullLimit, TableOK PROVE ListsFit
<1>1. AllListed \in SUBSET Entity BY AllListedEntities
<1>2. IsFiniteSet(AllListed) /\ Cardinality(AllListed) <= Cardinality(Entity)
  BY <1>1, FS_Subset
<1>3. Cardinality(AllListed) \in Nat /\ Cardinality(Entity) \in Nat
  BY <1>2, FS_CardinalityType
<1> QED BY <1>2, <1>3, BoundsAssumption DEF ListsFit

(* So with few enough peers the copies converge and follow the directory.    *)
THEOREM FewPeersConverge ==
  ASSUME IsFiniteSet(Entity), Cardinality(Entity) <= FullLimit
  PROVE  ServiceSpec => []ReplicaConverges /\ KeepsDirectory
<1>1. ServiceInv => ListsFit BY FewPeersFit, InvGroups
<1> QED BY <1>1, ServiceInvariant, ReplicasConverge, ServiceKeepsDirectory, PTL
=============================================================================
