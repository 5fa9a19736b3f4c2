------------------------------ MODULE Directory ------------------------------
(***************************************************************************)
(* What the service promises the programs that keep a copy of its server   *)
(* list: a copy starts as the whole list and from then on follows every    *)
(* arrival and every departure, in the same step for all copies.  Nothing  *)
(* a member ever does removes it from a copy before it has left.           *)
(*                                                                         *)
(* The promise has one gap: some of those who leave stay behind in the     *)
(* list itself.  A copy loses them like the others, but gets them back     *)
(* with the next full list.  And a copy says where its members serve, in   *)
(* what realm, until it asks for the list again: that list does not.       *)
(* (Service keeps this promise for its load balancers; ServiceDirectory    *)
(* shows it.)                                                              *)
(***************************************************************************)
CONSTANTS Peer   \* those who join as members, or subscribe to a copy

VARIABLES members,      \* the servers in the list
          leftBehind,   \* those that have left and are listed all the same
          subscribers,  \* who keeps a copy
          copies,       \* copies[e]: the copy of e, empty unless e subscribes
          located       \* located[e]: the members it says everything of

dirVars == <<members, leftBehind, subscribers, copies, located>>

Init ==
  /\ members = {} /\ leftBehind = {}
  /\ subscribers = {} /\ copies = [e \in Peer |-> {}] /\ located = copies

Join(s) ==
  /\ s \notin members \cup leftBehind \cup subscribers
  /\ members' = members \cup {s}
  /\ copies' = [e \in Peer |-> IF e \in subscribers THEN copies[e] \cup {s} ELSE {}]
  /\ located' = [e \in Peer |-> IF e \in subscribers THEN located[e] \cup {s} ELSE {}]
  /\ UNCHANGED <<leftBehind, subscribers>>

Leave(s) ==
  /\ s \in members
  /\ members' = members \ {s}
  /\ leftBehind' \in {leftBehind, leftBehind \cup {s}}
  /\ copies' = [e \in Peer |-> copies[e] \ {s}]
  /\ located' = [e \in Peer |-> located[e] \ {s}]
  /\ UNCHANGED subscribers

Subscribe(e) ==
  /\ e \notin members \cup leftBehind \cup subscribers
  /\ subscribers' = subscribers \cup {e}
  /\ copies' = [copies EXCEPT ![e] = members \cup leftBehind]
  /\ located' = [located EXCEPT ![e] = members]
  /\ UNCHANGED <<members, leftBehind>>

(* A full list again, in which realms are missing.  Departures that are      *)
(* still on their way to the copy take some of those left behind out of it   *)
(* once more; arrivals that are still on their way bring realms back.        *)
Refresh(e) ==
  /\ e \in subscribers
  /\ \E some \in SUBSET leftBehind : copies' = [copies EXCEPT ![e] = members \cup some]
  /\ \E still \in SUBSET located[e] : located' = [located EXCEPT ![e] = still]
  /\ UNCHANGED <<members, leftBehind, subscribers>>

Unsubscribe(e) ==
  /\ e \in subscribers
  /\ subscribers' = subscribers \ {e}
  /\ copies' = [copies EXCEPT ![e] = {}]
  /\ located' = [located EXCEPT ![e] = {}]
  /\ UNCHANGED <<members, leftBehind>>

Next ==
  \E e \in Peer : Join(e) \/ Leave(e) \/ Subscribe(e) \/ Refresh(e) \/ Unsubscribe(e)

Spec == Init /\ [][Next]_dirVars
=============================================================================
