---------------------------- MODULE ServiceLookup ----------------------------
(***************************************************************************)
(* An address lookup from end to end: a client asks the service, the       *)
(* service a load balancer, the load balancer answers the service, and the *)
(* service the client.  Service with history variables that record who     *)
(* asked, whom an answer has reached, and for whom a peer answered although *)
(* it had not been asked: HandleSendAddress does not check.                *)
(***************************************************************************)
EXTENDS Service

VARIABLES requested,  \* clients that asked for an address or for a realm
          answered,   \* clients an answer was sent to
          unasked     \* whom a peer named in an answer without having been asked

lookupVars == <<serviceVars, requested, answered, unasked>>

LookupInit == ServiceInit /\ requested = {} /\ answered = {} /\ unasked = {}

AnswerIn(w) == \E i \in DOMAIN outbox[w] : outbox[w][i].kind = "ANSWER"

(* A buffer that does not just grow was sent, or went with its entity.  (An  *)
(* answer that an equal one replaces is not noticed, if HalfBuffer is 0.)    *)
SentNow(w) == ~IsPrefix(outbox[w], outbox'[w]) /\ status'[w] # "DESTROYED"

RecordAsker ==
  requested' = IF requests' = requests THEN requested ELSE requested \cup {visiting}

RecordSent ==
  answered' = answered \cup { w \in Entity : AnswerIn(w) /\ SentNow(w) }

Answer(e, who) ==
  /\ ~Undefined /\ HandleSendAddress(e, who)
  /\ unasked' = IF who \in asked[e] THEN unasked ELSE unasked \cup {who}
  /\ UNCHANGED requested
  /\ RecordSent

Stopped == Undefined /\ UNCHANGED lookupVars

LookupNext ==
  \/ ~Undefined /\ ServiceStep /\ RecordAsker /\ RecordSent /\ UNCHANGED unasked
  \/ \E e \in Entity, who \in Entity \cup {NoEntity} : Answer(e, who)
  \/ Stopped

LookupSpec == LookupInit /\ [][LookupNext]_lookupVars

(* A load balancer that is asked answers at one of its next visits. *)
BalancersAnswer ==
  \A e, who \in Entity : SF_lookupVars(who \in asked[e] /\ Answer(e, who))

FairLookupSpec == LookupSpec /\ EngineRuns /\ BalancersAnswer

-----------------------------------------------------------------------------
(* Two accesses of the registry can fail in a lookup: an address request's, *)
(* only while no load balancer is connected, and an answer's, only for a     *)
(* client that asked and was destroyed while its question was on the way, or *)
(* when a peer named somebody it had not been asked for.                     *)
LookupFaultsExplained ==
  /\ fault = "null entity" =>
       \A e \in Entity : status[e] = "CONNECTED" => info[e].type # "LOADBALANCE"
  /\ fault = "unknown requester" =>
       \/ /\ visiting # NoEntity
          /\ \E who \in asked[visiting] \cap requested : status[who] = "DESTROYED"
       \/ unasked \ Alive # {}

(* Questions and answers never get mixed up on their way through two         *)
(* connections' buffers and a program in between: a question waits only for  *)
(* a load balancer and is for a client that asked, and whatever waits for a  *)
(* client as an answer is its own, and it asked for one - unless a peer      *)
(* answered for it without having been asked.                                *)
AnswersFindTheAsker ==
  \A e \in Entity :
    /\ \A i \in DOMAIN outbox[e] :
         LET m == outbox[e][i]
         IN /\ m.kind = "ASK" => m.who \in requested /\ info[e].type = "LOADBALANCE"
            /\ m.kind = "ANSWER" => m.who = e /\ e \in requested \cup unasked
    /\ asked[e] # {} => info[e].type = "LOADBALANCE"
    /\ asked[e] \subseteq requested
    /\ answered \subseteq requested \cup unasked

(* A client whose question was passed on gets an answer, if the load         *)
(* balancer that was asked stays and answers, and the client stays.          *)
AskersAreAnswered ==
  \A e, who \in Entity :
    [kind |-> "ASK", who |-> who] \in ToSet(outbox[e]) ~>
      who \in answered \/ ~IsAlive(e) \/ ~IsAlive(who) \/ Undefined
=============================================================================
