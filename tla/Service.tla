------------------------------ MODULE Service ------------------------------
(***************************************************************************)
(* The service: connections, their registration as internal servers, and   *)
(* what the load balancers among them are told.                            *)
(* (ECS/Systems/Network/ConnectionSystems.cpp, Network/Handlers/...)       *)
(*                                                                         *)
(* Two threads act.  The accept thread runs HandleConnection.  The engine  *)
(* thread runs ticks; a tick has three phases:                             *)
(*   "update"  ConnectionUpdateSystem visits every entity once: it notices *)
(*             a disconnect, or handles the packets that arrived and then  *)
(*             looks at the medium-priority buffer;                        *)
(*   "new"     ConnectionDeferredSystem turns queued clients into entities;*)
(*   "drop"    it destroys the entities queued by disconnects.             *)
(*                                                                         *)
(* One entity stands for one connection; a peer that comes back is another *)
(* entity.  A packet is what its handler does.  What peers know (view,     *)
(* placed, asked) is external: the load balancers are programs of their    *)
(* own.                                                                    *)
(***************************************************************************)
EXTENDS LoadBalance

CONSTANTS NoEntity,      \* nobody is being visited
          HalfBuffer,    \* packets in half a medium-priority buffer
          FlushTime,     \* MEDIUM_PRIORITY_TIME, in units of the shortest tick
          FullLimit,     \* servers that fit into one SMSG_SEND_FULL_...
          MaxRequests    \* bound: lookups, and answers nobody asked for

ASSUME NoEntityAssumption == NoEntity \notin Entity
ASSUME BoundsAssumption ==
  HalfBuffer \in Nat /\ FlushTime \in Nat \ {0} /\ FullLimit \in Nat /\ MaxRequests \in Nat

Status == {"ABSENT", "QUEUED", "AUTH_CHALLENGE", "AUTH_HANDSHAKE", "AUTH_SUCCESS",
           "CONNECTED", "DESTROYED"}
Info    == [type : AddressType, realm : Realm]
NoInfo  == [type |-> "none", realm |-> 0]
Message == [kind : {"ADD", "REMOVE", "ASK", "ANSWER"}, who : Entity]
Phase   == {"update", "new", "drop"}
Fault   == {"none", "null entity", "unknown requester", "dead load balancer",
            "registered twice", "destroyed twice"}

VARIABLES
  status,     \* status[e]: ConnectionStatus of the client, and whether it is an entity yet
  closed,     \* closed[e]: the service called Close on the client
  info,       \* info[e]: the HasServerInformation component, or NoInfo
  dropQueue,  \* ConnectionDeferredSingleton::droppedConnectionQueue
  phase,      \* what the engine thread is doing
  todo,       \* "update": entities still to be visited in this tick
  visiting,   \* the entity whose packets are being handled, or NoEntity
  outbox,     \* outbox[e]: the packets in the medium-priority buffer
  held,       \* held[e]: mediumPriorityTimer
  view,       \* external: view[e], the servers load balancer e knows
  placed,     \* external: placed[e], those of them that serve a realm e was told
  relisted,   \* history: relisted[e], those in the last list e asked for again
  asked,      \* external: asked[e], the requesters load balancer e was asked for
  requests,   \* lookups, and answers nobody asked for, so far
  fault       \* the first registry access with no entity or component behind it; what
              \* else the step of that access does means nothing

connectionVars == <<status, closed, info>>
tickVars   == <<dropQueue, phase, todo, visiting>>
copyVars   == <<view, placed, relisted>>
peerVars   == <<outbox, held, copyVars, asked>>
serviceVars == <<LBvars, connectionVars, tickVars, peerVars, requests, fault>>

-----------------------------------------------------------------------------
(* The registry.                                                             *)

IsAlive(e)  == status[e] \notin {"ABSENT", "QUEUED", "DESTROYED"}
Alive       == { e \in Entity : IsAlive(e) }
LoadBalancers == Listed("LOADBALANCE", 0)

(* Global types store the realm id they are sent and never read it. *)
RealmsOf(t) == IF t \in RealmTypes THEN Realm ELSE {0}

ServesRealm(s) == info[s].type \in RealmTypes

-----------------------------------------------------------------------------
(* The medium-priority buffer and the peer behind it.                        *)

Notices(e, s) == { i \in DOMAIN outbox[e] :
                     outbox[e][i].kind \in {"ADD", "REMOVE"} /\ outbox[e][i].who = s }

(* Whether s is in a copy of e once everything in its buffer has reached it, *)
(* of which the copy holds now already.                                      *)
WillHold(e, now, s) ==
  IF Notices(e, s) = {} THEN s \in now
  ELSE \E i \in Notices(e, s) :
         outbox[e][i].kind = "ADD" /\ \A j \in Notices(e, s) : j <= i

(* A notice of an arrival tells the realm too. *)
WillKnow(e, s)  == WillHold(e, view[e], s)
WillPlace(e, s) == ServesRealm(s) /\ WillHold(e, placed[e], s)

KnownAfter(e)  == { s \in Entity : WillKnow(e, s) }
PlacedAfter(e) == { s \in Entity : WillPlace(e, s) }
AskedAfter(e) == asked[e] \cup { s \in Entity : [kind |-> "ASK", who |-> s] \in ToSet(outbox[e]) }

(* AddPacket(m) on every e in targets: a buffer that is more than half full  *)
(* is sent first.  The buffers of the entities in gone are given back.       *)
AddPacketAndRelease(targets, m, gone) ==
  LET early == { e \in targets : Len(outbox[e]) > HalfBuffer }
  IN /\ outbox' = [e \in Entity |->
                     IF e \in gone THEN <<>>
                     ELSE IF e \in early THEN <<m>>
                     ELSE IF e \in targets THEN Append(outbox[e], m) ELSE outbox[e]]
     /\ held'  = [e \in Entity |-> IF e \in early \cup gone THEN 0 ELSE held[e]]
     /\ view'  = [e \in Entity |-> IF e \in gone THEN {}
                                   ELSE IF e \in early THEN KnownAfter(e) ELSE view[e]]
     /\ placed' = [e \in Entity |-> IF e \in gone THEN {}
                                    ELSE IF e \in early THEN PlacedAfter(e) ELSE placed[e]]
     /\ relisted' = [e \in Entity |-> IF e \in gone THEN {} ELSE relisted[e]]
     /\ asked' = [e \in Entity |-> IF e \in gone THEN {}
                                   ELSE IF e \in early THEN AskedAfter(e) ELSE asked[e]]

AddPacket(targets, m) == AddPacketAndRelease(targets, m, {})

-----------------------------------------------------------------------------
ServiceInit ==
  /\ LBInit
  /\ status = [e \in Entity |-> "ABSENT"]
  /\ closed = [e \in Entity |-> FALSE]
  /\ info = [e \in Entity |-> NoInfo]
  /\ dropQueue = <<>>
  /\ phase = "update"
  /\ todo = {}
  /\ visiting = NoEntity
  /\ outbox = [e \in Entity |-> <<>>]
  /\ held = [e \in Entity |-> 0]
  /\ view = [e \in Entity |-> {}]
  /\ placed = [e \in Entity |-> {}]
  /\ relisted = [e \in Entity |-> {}]
  /\ asked = [e \in Entity |-> {}]
  /\ requests = 0
  /\ fault = "none"

-----------------------------------------------------------------------------
(* Accept thread.                                                            *)

HandleConnection(e) ==
  /\ status[e] = "ABSENT"
  /\ status' = [status EXCEPT ![e] = "QUEUED"]
  /\ UNCHANGED <<LBvars, closed, info, tickVars, peerVars, requests, fault>>

-----------------------------------------------------------------------------
(* ConnectionUpdateSystem::Update.                                           *)

(* Mutant: closed clients are visited like the others. *)
BeginVisitClosedToo(e) ==
  /\ phase = "update" /\ visiting = NoEntity /\ e \in todo
  /\ visiting' = e
  /\ todo' = todo \ {e}
  /\ UNCHANGED <<LBvars, connectionVars, dropQueue, phase, peerVars, requests, fault>>

BeginVisit(e) ==
  /\ phase = "update" /\ visiting = NoEntity /\ e \in todo
  /\ ~closed[e]
  /\ visiting' = e
  /\ todo' = todo \ {e}
  /\ UNCHANGED <<LBvars, connectionVars, dropQueue, phase, peerVars, requests, fault>>

(* The peer is gone, or the service closed the connection before: whatever   *)
(* else is in the packet queue and the buffers is never looked at again.     *)
HandleDisconnect(e) ==
  /\ phase = "update" /\ visiting = NoEntity /\ e \in todo
  /\ dropQueue' = Append(dropQueue, e)
  /\ todo' = todo \ {e}
  /\ UNCHANGED <<LBvars, connectionVars, phase, visiting, peerVars, requests, fault>>

(* Mutant: the timer is set to the length of the tick, not advanced by it. *)
ElapsedThisTick(e, d) == d

Elapsed(e, d) == held[e] + d

(* The visit ends with the medium-priority timer: it runs while the buffer   *)
(* holds something, by the length d of the last tick.                        *)
EndVisit(e) ==
  /\ visiting = e
  /\ visiting' = NoEntity
  /\ IF outbox[e] = <<>> THEN UNCHANGED peerVars
     ELSE \E d \in 1 .. FlushTime :
            IF Elapsed(e, d) >= FlushTime
            THEN /\ held' = [held EXCEPT ![e] = 0]
                 /\ outbox' = [outbox EXCEPT ![e] = <<>>]
                 /\ view' = [view EXCEPT ![e] = KnownAfter(e)]
                 /\ placed' = [placed EXCEPT ![e] = PlacedAfter(e)]
                 /\ asked' = [asked EXCEPT ![e] = AskedAfter(e)]
                 /\ UNCHANGED relisted
            ELSE held' = [held EXCEPT ![e] = Elapsed(e, d)] /\ UNCHANGED <<outbox, copyVars, asked>>
  /\ UNCHANGED <<LBvars, connectionVars, dropQueue, phase, todo, requests, fault>>

-----------------------------------------------------------------------------
(* Packet handlers.  CallHandler picks a handler only for a client in the    *)
(* status the handler was registered with; when it fails, the client is      *)
(* closed and the rest of its packets stay where they are.                   *)

Handles(e, s) == visiting = e /\ status[e] = s

(* Mutant: the client is not closed. *)
RejectButKeepOpen(e) ==
  /\ visiting' = NoEntity
  /\ UNCHANGED <<closed, dropQueue, phase, todo>>

Reject(e) ==
  /\ closed' = [closed EXCEPT ![e] = TRUE]
  /\ visiting' = NoEntity
  /\ UNCHANGED <<dropQueue, phase, todo>>

(* A malformed packet, a wrong password, an unknown account, an opcode or a  *)
(* size the handler table refuses.                                           *)
RejectPacket(e) ==
  /\ visiting = e
  /\ Reject(e)
  /\ UNCHANGED <<LBvars, status, info, peerVars, requests, fault>>

ClientChallenge(e) ==
  /\ Handles(e, "AUTH_CHALLENGE")
  /\ status' = [status EXCEPT ![e] = "AUTH_HANDSHAKE"]
  /\ UNCHANGED <<LBvars, closed, info, tickVars, peerVars, requests, fault>>

ClientHandshake(e) ==
  /\ Handles(e, "AUTH_HANDSHAKE")
  /\ status' = [status EXCEPT ![e] = "AUTH_SUCCESS"]
  /\ UNCHANGED <<LBvars, closed, info, tickVars, peerVars, requests, fault>>

(* HandleConnected up to the Add. *)
Enlist(e, t, r) ==
  /\ Handles(e, "AUTH_SUCCESS")
  /\ info' = [info EXCEPT ![e] = [type |-> t, realm |-> r]]
  /\ AddServer(e, t, r)
  /\ UNCHANGED <<outOfRange, requests>>

(* The emplace in it must not find a component. *)
Emplace(e, otherwise) == fault' = IF info[e] = NoInfo THEN otherwise ELSE "registered twice"

(* HandleConnected for every type but LOADBALANCE: every load balancer gets  *)
(* a notice.                                                                 *)
RegisterServer(e, t, r) ==
  /\ t # "LOADBALANCE"
  /\ Enlist(e, t, r)
  /\ Emplace(e, IF LoadBalancers \subseteq Alive THEN fault ELSE "dead load balancer")
  /\ AddPacket(LoadBalancers, [kind |-> "ADD", who |-> e])
  /\ status' = [status EXCEPT ![e] = "CONNECTED"]
  /\ UNCHANGED <<closed, tickVars>>

(* Mutant: the list of a registration is written like the one asked for. *)
RealmsLeftOut == {}

RealmsWritten == { s \in AllListed : ServesRealm(s) }

(* HandleConnected for a load balancer: the whole table, itself included and *)
(* with realms, is sent to it past its buffer.                               *)
RegisterLoadBalancer(e) ==
  /\ Enlist(e, "LOADBALANCE", 0)
  /\ Cardinality(AllListed \cup {e}) <= FullLimit
  /\ view' = [view EXCEPT ![e] = AllListed \cup {e}]
  /\ placed' = [placed EXCEPT ![e] = RealmsWritten]
  /\ status' = [status EXCEPT ![e] = "CONNECTED"]
  /\ Emplace(e, fault)
  /\ UNCHANGED <<closed, tickVars, outbox, held, asked, relisted>>

(* The table does not fit into the packet: the client is closed, but it is   *)
(* in the table and has its component by now.                                *)
RegisterLoadBalancerFails(e) ==
  /\ Enlist(e, "LOADBALANCE", 0)
  /\ Cardinality(AllListed \cup {e}) > FullLimit
  /\ Reject(e)
  /\ Emplace(e, fault)
  /\ UNCHANGED <<status, peerVars>>

(* The whole table again, past the buffer; only load balancers keep it.  The *)
(* same opcode, but written entry by entry and without realms.  A list that  *)
(* could be sent at the registration fits here too (an entry is smaller); in *)
(* a longer one the Puts that fail are skipped, and what is read there is    *)
(* anybody's guess.                                                          *)
HandleRequestServerInfo(e) ==
  /\ Handles(e, "CONNECTED")
  /\ info[e].type = "LOADBALANCE"
  /\ \E read \in SUBSET Entity :
       /\ Cardinality(AllListed) <= FullLimit => read = AllListed
       /\ view' = [view EXCEPT ![e] = read]
  /\ placed' = [placed EXCEPT ![e] = {}]
  /\ relisted' = [relisted EXCEPT ![e] = { s \in AllListed : ServesRealm(s) }]
  /\ UNCHANGED <<LBvars, connectionVars, tickVars, outbox, held, asked, requests, fault>>

CountRequest == requests < MaxRequests /\ requests' = requests + 1

(* Mutant: the question names the load balancer, not the client that asks. *)
AsksForPicked(e) ==
  /\ Handles(e, "CONNECTED")
  /\ CountRequest
  /\ GetServer("LOADBALANCE", 0)
  /\ LET balancer == Picked("LOADBALANCE", 0)
     IN AddPacket({balancer}, [kind |-> "ASK", who |-> balancer])
  /\ UNCHANGED <<connectionVars, tickVars, outOfRange, fault>>

(* HandleRequestAddress asks the next load balancer.  Without one, the null  *)
(* entity of the untouched result is looked up in the registry.              *)
HandleRequestAddress(e) ==
  /\ Handles(e, "CONNECTED")
  /\ CountRequest
  /\ \/ /\ GetServer("LOADBALANCE", 0)
        /\ AddPacket({Picked("LOADBALANCE", 0)}, [kind |-> "ASK", who |-> e])
        /\ fault' = IF Picked("LOADBALANCE", 0) \in Alive THEN fault ELSE "dead load balancer"
        /\ UNCHANGED outOfRange
     \/ /\ GetNone("LOADBALANCE", 0)
        /\ fault' = "null entity"
        /\ UNCHANGED <<peerVars, outOfRange>>
     \/ /\ GetOutOfRange("LOADBALANCE", 0)
        /\ outOfRange' = TRUE
        /\ UNCHANGED <<tableVars, peerVars, fault>>
  /\ UNCHANGED <<connectionVars, tickVars>>

(* The forwarded packet does not fit into 128 bytes: the client is closed,   *)
(* but a load balancer has had its turn.                                     *)
HandleRequestAddressFails(e) ==
  /\ Handles(e, "CONNECTED")
  /\ CountRequest
  /\ (GetServer("LOADBALANCE", 0) \/ GetNone("LOADBALANCE", 0))
  /\ Reject(e)
  /\ UNCHANGED <<outOfRange, status, info, peerVars, fault>>

(* The entity in the packet gets the answer, whoever sent the packet and     *)
(* whether or not it was asked for.  The entity may be gone, or the null     *)
(* entity (NoEntity): the registry is not asked whether it exists.           *)
HandleSendAddress(e, who) ==
  /\ Handles(e, "CONNECTED")
  /\ IF who \in asked[e] THEN UNCHANGED requests ELSE CountRequest
  /\ IF who \in Alive
     THEN AddPacket({who}, [kind |-> "ANSWER", who |-> who]) /\ UNCHANGED fault
     ELSE fault' = "unknown requester" /\ UNCHANGED peerVars
  /\ UNCHANGED <<LBvars, connectionVars, tickVars>>

HandleRequestRealmConnectionInfo(e, r) ==
  /\ Handles(e, "CONNECTED")
  /\ CountRequest
  /\ \/ /\ (GetServer("WORLD", r) \/ GetNone("WORLD", r))
        /\ AddPacket({e}, [kind |-> "ANSWER", who |-> e])
        /\ UNCHANGED outOfRange
     \/ /\ GetOutOfRange("WORLD", r)
        /\ outOfRange' = TRUE
        /\ UNCHANGED <<tableVars, peerVars>>
  /\ UNCHANGED <<connectionVars, tickVars, fault>>

-----------------------------------------------------------------------------
(* ConnectionDeferredSystem::Update.                                         *)

BeginDeferred ==
  /\ phase = "update" /\ visiting = NoEntity /\ todo = {}
  /\ phase' = "new"
  /\ UNCHANGED <<LBvars, connectionVars, dropQueue, todo, visiting, peerVars, requests, fault>>

AcceptNew(e) ==
  /\ phase = "new"
  /\ status[e] = "QUEUED"
  /\ status' = [status EXCEPT ![e] = "AUTH_CHALLENGE"]
  /\ UNCHANGED <<LBvars, closed, info, tickVars, peerVars, requests, fault>>

BeginDrops ==
  /\ phase = "new"
  /\ \A e \in Entity : status[e] # "QUEUED"
  /\ phase' = "drop"
  /\ UNCHANGED <<LBvars, connectionVars, dropQueue, todo, visiting, peerVars, requests, fault>>

(* Mutant: only servers with a realm are announced as gone. *)
ToldOfRealmServers(e) ==
  IF info[e] # NoInfo /\ info[e].type \in RealmTypes THEN LoadBalancers \ {e} ELSE {}

(* Who gets a notice when e is dropped. *)
Told(e) == IF info[e] = NoInfo THEN {} ELSE LoadBalancers \ {e}

(* One turn of the drop loop: a registered server leaves the table - its     *)
(* realm is not passed to Remove - the other load balancers get a notice,    *)
(* and the entity is destroyed with its components.                          *)
DropOne ==
  /\ phase = "drop" /\ dropQueue # <<>>
  /\ LET e == Head(dropQueue)
     IN /\ fault' = IF e \notin Alive THEN "destroyed twice"
                    ELSE IF Told(e) \subseteq Alive THEN fault ELSE "dead load balancer"
        /\ IF info[e] = NoInfo THEN UNCHANGED tableVars ELSE RemoveServer(info[e].type, e, 0)
        /\ AddPacketAndRelease(Told(e), [kind |-> "REMOVE", who |-> e], {e})
        /\ status' = [status EXCEPT ![e] = "DESTROYED"]
        /\ info' = [info EXCEPT ![e] = NoInfo]
  /\ dropQueue' = Tail(dropQueue)
  /\ UNCHANGED <<outOfRange, closed, phase, todo, visiting, requests>>

(* Mutant: the drop loop is left with entities still queued. *)
EndTickEarly ==
  /\ phase = "drop"
  /\ phase' = "update"
  /\ todo' = Alive
  /\ UNCHANGED <<LBvars, connectionVars, dropQueue, visiting, peerVars, requests, fault>>

(* Mutant: closed clients are left out of the next tick. *)
EndTickSkipsClosed ==
  /\ phase = "drop" /\ dropQueue = <<>>
  /\ phase' = "update"
  /\ todo' = { e \in Alive : ~closed[e] }
  /\ UNCHANGED <<LBvars, connectionVars, dropQueue, visiting, peerVars, requests, fault>>

(* The next tick visits every entity there is. *)
EndTick ==
  /\ phase = "drop" /\ dropQueue = <<>>
  /\ phase' = "update"
  /\ todo' = Alive
  /\ UNCHANGED <<LBvars, connectionVars, dropQueue, visiting, peerVars, requests, fault>>

-----------------------------------------------------------------------------
AcceptStep == \E e \in Entity : HandleConnection(e)

VisitStep == \E e \in Entity : BeginVisit(e) \/ HandleDisconnect(e)

HandlerStep ==
  \E e \in Entity :
    \/ RejectPacket(e) \/ ClientChallenge(e) \/ ClientHandshake(e)
    \/ \E t \in Types : \E r \in RealmsOf(t) : RegisterServer(e, t, r)
    \/ RegisterLoadBalancer(e) \/ RegisterLoadBalancerFails(e)
    \/ HandleRequestServerInfo(e)
    \/ HandleRequestAddress(e) \/ HandleRequestAddressFails(e)
    \/ \E r \in Realm : HandleRequestRealmConnectionInfo(e, r)

AnswerStep == \E e \in Entity, who \in Entity \cup {NoEntity} : HandleSendAddress(e, who)

DeferredStep ==
  \/ BeginDeferred \/ BeginDrops \/ DropOne \/ EndTick
  \/ \E e \in Entity : AcceptNew(e)

(* Undefined behaviour ends the model: nothing is claimed of what follows. *)
Undefined == fault # "none" \/ outOfRange

ServiceStep ==
  \/ AcceptStep \/ VisitStep \/ HandlerStep \/ DeferredStep
  \/ \E e \in Entity : EndVisit(e)

ServiceNext == ~Undefined /\ (ServiceStep \/ AnswerStep)

ServiceSpec == ServiceInit /\ [][ServiceNext]_serviceVars

(* The engine thread keeps running: a tick reaches every entity, the packets *)
(* of one visit come to an end (they fit into one read of the socket), and   *)
(* the deferred system empties its queues.  Nothing is assumed of the peers  *)
(* or of the accept thread.                                                  *)
EngineRuns ==
  /\ WF_serviceVars(~Undefined /\ VisitStep)
  /\ WF_serviceVars(~Undefined /\ \E e \in Entity : EndVisit(e))
  /\ WF_serviceVars(~Undefined /\ DeferredStep)

FairServiceSpec == ServiceSpec /\ EngineRuns

-----------------------------------------------------------------------------
ServiceTypeOK ==
  /\ LBTypeOK
  /\ status \in [Entity -> Status]
  /\ closed \in [Entity -> BOOLEAN]
  /\ info \in [Entity -> Info \cup {NoInfo}]
  /\ dropQueue \in Seq(Entity)
  /\ phase \in Phase
  /\ todo \subseteq Entity
  /\ visiting \in Entity \cup {NoEntity}
  /\ outbox \in [Entity -> Seq(Message)]
  /\ held \in [Entity -> 0 .. FlushTime - 1]
  /\ view \in [Entity -> SUBSET Entity]
  /\ placed \in [Entity -> SUBSET Entity]
  /\ relisted \in [Entity -> SUBSET Entity]
  /\ asked \in [Entity -> SUBSET Entity]
  /\ requests \in 0 .. MaxRequests
  /\ fault \in Fault

(* Three registry accesses are never wrong: the load balancers a notice or a *)
(* question is queued for still exist (HandleConnected, the drop loop,       *)
(* HandleRequestAddress), a client registers at most once although it stays  *)
(* connected after a failed registration, and no entity is destroyed twice.  *)
RegistryAccessSafe ==
  fault \notin {"dead load balancer", "registered twice", "destroyed twice"}

(* The table and the components tell the same story.  Every entity with a    *)
(* HasServerInformation is listed, once, where its component says; what is   *)
(* listed is alive and has that component - except under a realm other than  *)
(* the default one, where the dead stay listed.                              *)
TableMatchesRegistry ==
  /\ \A e \in Entity : info[e] # NoInfo => e \in Listed(info[e].type, info[e].realm)
  /\ \A t \in AddressType, r \in Realm :
       /\ IsInjective(list[t][r])
       /\ \A e \in ToSet(list[t][r]) :
            \/ info[e] = [type |-> t, realm |-> r]
            \/ r # 0 /\ t \in RealmTypes /\ status[e] = "DESTROYED"

(* Why the three hold.  Whoever is being visited is alive, was not closed    *)
(* and waits neither for another visit nor to be dropped; whoever waits for  *)
(* a visit or to be dropped is alive, and waits once.                        *)
TickOK ==
  /\ visiting # NoEntity =>
       /\ phase = "update" /\ visiting \in Alive /\ ~closed[visiting]
       /\ visiting \notin todo /\ visiting \notin ToSet(dropQueue)
  /\ todo \subseteq Alive
  /\ todo # {} => phase = "update"
  /\ todo \cap ToSet(dropQueue) = {}
  /\ ToSet(dropQueue) \subseteq Alive
  /\ IsInjective(dropQueue)

(* A component outlives neither its entity nor the handler that made it: its *)
(* client is connected, or the handler failed and the client is closed.      *)
ComponentsOK ==
  \A e \in Entity :
    /\ info[e] # NoInfo => e \in Alive /\ (status[e] = "CONNECTED" \/ closed[e])
    /\ closed[e] => e \in Alive \/ status[e] = "DESTROYED"

ServiceInv ==
  ServiceTypeOK /\ RegistryAccessSafe /\ TableMatchesRegistry /\ TickOK /\ ComponentsOK

(* Whatever mix of full lists, additions and removals is still buffered, a   *)
(* load balancer ends up with the truth once it has drained: it knows every  *)
(* server of another type that is connected, with the realm it serves unless *)
(* the server was in a list it asked for again, and it knows nothing that is *)
(* gone except what the table itself never forgets.  (Of a load balancer     *)
(* that reads each of the two lists in the layout it was written in.)        *)
Stale(s) ==
  status[s] = "DESTROYED" /\ \E t \in RealmTypes, r \in Realm : s \in Listed(t, r)

ReplicaConverges ==
  \A e \in LoadBalancers, s \in Entity :
    status[e] = "CONNECTED" =>
      /\ status[s] = "CONNECTED" /\ info[s].type # "LOADBALANCE" =>
           /\ WillKnow(e, s)
           /\ ServesRealm(s) => WillPlace(e, s) \/ s \in relisted[e]
      /\ WillKnow(e, s) => info[s] # NoInfo \/ Stale(s)

(* A client that was closed, or whose disconnect was noticed, is never       *)
(* served again: none of its packets changes its status or its registration, *)
(* until the drop loop takes it away.                                        *)
NeverServedAgain ==
  [][\A e \in Entity :
       closed[e] \/ e \in ToSet(dropQueue) =>
         \/ UNCHANGED <<status[e], info[e]>>
         \/ status'[e] = "DESTROYED"]_serviceVars

(* A server that is gone is eventually unknown to every load balancer there  *)
(* is, unless the table itself keeps it.                                     *)
DeadServersForgotten ==
  \A s \in Entity :
    status[s] = "DESTROYED" /\ ~Stale(s) ~> \A e \in LoadBalancers : s \notin view[e]

(* A server that stays connected becomes known to every load balancer. *)
ServersBecomeKnown ==
  \A s \in Entity :
    status[s] = "CONNECTED" /\ info[s].type # "LOADBALANCE" ~>
      \/ ~IsAlive(s)
      \/ \A e \in LoadBalancers : status[e] = "CONNECTED" => s \in view[e]

(* A question queued for a load balancer reaches it, or the load balancer is *)
(* gone; an early send that resets the timer does not hold it back.          *)
QuestionsArrive ==
  \A e, who \in Entity :
    [kind |-> "ASK", who |-> who] \in ToSet(outbox[e]) ~>
      who \in asked[e] \/ ~IsAlive(e) \/ Undefined

(* Every client the service closed is destroyed. *)
ClosedAreDestroyed == \A e \in Entity : closed[e] ~> status[e] = "DESTROYED"
=============================================================================
