------------------------------ MODULE Rotation ------------------------------
(***************************************************************************)
(* What a round-robin list promises to those who look servers up in it:    *)
(* in every round each member is handed out exactly once, newcomers are    *)
(* served in the round they join, and a round ends when every member had   *)
(* its turn.  A list that loses a member promises less: from then on it    *)
(* only hands out members.  (LoadBalanceSingleton keeps this promise for   *)
(* its global lists; LoadBalanceHistory shows it.)                         *)
(***************************************************************************)
CONSTANTS Server, NoServer

VARIABLES members,   \* the servers in the list
          waiting,   \* those that have not had their turn in this round
          intact,    \* no member has ever left
          answer     \* the server handed out last

rotVars == <<members, waiting, intact, answer>>

Init ==
  /\ members = {}
  /\ waiting = {}
  /\ intact = TRUE
  /\ answer = NoServer

Join(s) ==
  /\ s \in Server \ members
  /\ members' = members \cup {s}
  /\ waiting' = IF intact THEN waiting \cup {s} ELSE {}
  /\ UNCHANGED <<intact, answer>>

Leave(s) ==
  /\ s \in members
  /\ members' = members \ {s}
  /\ waiting' = {}
  /\ intact' = FALSE
  /\ UNCHANGED answer

Serve(s) ==
  /\ s \in members
  /\ intact => s \in waiting
  /\ answer' = s
  /\ waiting' = IF ~intact THEN {}
                ELSE IF waiting = {s} THEN members ELSE waiting \ {s}
  /\ UNCHANGED <<members, intact>>

ServeNobody ==
  /\ members = {}
  /\ answer' = NoServer
  /\ UNCHANGED <<members, waiting, intact>>

Next ==
  \/ \E s \in Server : Join(s) \/ Leave(s) \/ Serve(s)
  \/ ServeNobody

Spec == Init /\ [][Next]_rotVars
=============================================================================
