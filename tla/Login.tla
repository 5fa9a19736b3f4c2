-------------------------------- MODULE Login --------------------------------
(***************************************************************************)
(* How a client logs in, and where the accounts come from.                 *)
(* (Network/Handlers/Auth/AuthHandlers.cpp, ConsoleCommands/AccountCommand)*)
(*                                                                         *)
(* Accounts are typed on the console: the main thread lowers the case of   *)
(* the whole line and inserts a row, with nothing that keeps names unique. *)
(* Clients log in on the engine thread: the challenge names an account and *)
(* brings the client's public key, the answer brings the server's, and the *)
(* handshake proves the password.                                          *)
(*                                                                         *)
(* External: SRP6a, the database and the peers.  A row's salt and verifier *)
(* stand for the name and the password they were made from; a proof for    *)
(* what it was computed from.  Names become part of the text of a query    *)
(* and of an insertion as they are.  Plain names are those the database    *)
(* reads there as the names they are; of any other nothing is assumed but  *)
(* that a query changes no row and an insertion removes none.              *)
(***************************************************************************)
EXTENDS Naturals, Sequences, FiniteSets

CONSTANTS Client,
          Name,        \* user names, as typed
          Plain,       \* those without a character that means something in SQL
          Password,
          Lower,       \* ::tolower of names and passwords
          Collated,    \* external: names with the same image are equal to the database
          ZeroKey,     \* a public key that SRP-6a refuses
          NoRow,
          MaxPackets,  \* bound: packets a client sends
          MaxAccounts  \* bound: account commands typed

ASSUME ClientAssumption == ZeroKey \notin Client
ASSUME LowerAssumption ==
  /\ Lower \in [Name \cup Password -> Name \cup Password]
  /\ \A n \in Name : Lower[n] \in Name
  /\ \A p \in Password : Lower[p] \in Password
ASSUME PlainAssumption == Plain \subseteq Name
ASSUME CollationAssumption == Collated \in [Name -> Name]
ASSUME LoginBoundAssumption == MaxPackets \in Nat /\ MaxAccounts \in Nat

Account   == [name : Name, password : Password]
Proof     == [account : Account, name : Name]
PublicKey == Client \cup {ZeroKey}
NoSession == [name |-> "", row |-> NoRow, a |-> ZeroKey, b |-> 0]

VARIABLES
  rows,    \* the accounts table
  entered, \* history: the accounts typed on the console, in the case they were typed
  status,  \* status[c]: ConnectionStatus
  closed,  \* closed[c]: the service called Close
  session, \* session[c]: the Authentication component; b numbers the server's keys
  inbox,   \* inbox[c]: packets that arrived
  told,    \* external: told[c], the b of the last challenge the client was answered
  sent,    \* packets the client has sent
  creds,   \* external: what client c logs in with if it follows the protocol, or NoRow
  guesses  \* history: guesses[c], the proofs that were verified

accountVars == <<rows, entered>>
peerVars    == <<told, sent, creds>>
loginVars   == <<accountVars, status, closed, session, inbox, peerVars, guesses>>

Init ==
  /\ rows = {} /\ entered = {}
  /\ status = [c \in Client |-> "AUTH_CHALLENGE"]
  /\ closed = [c \in Client |-> FALSE]
  /\ session = [c \in Client |-> NoSession]
  /\ inbox = [c \in Client |-> <<>>]
  /\ told = [c \in Client |-> 0] /\ sent = [c \in Client |-> 0]
  /\ creds \in [Client -> Account \cup {NoRow}]
  /\ guesses = [c \in Client |-> <<>>]

-----------------------------------------------------------------------------
(* Main thread.                                                              *)

LowerCase(account) == [name |-> Lower[account.name], password |-> Lower[account.password]]

AccountCommand(account) ==
  /\ account \notin entered /\ Cardinality(entered) < MaxAccounts
  /\ entered' = entered \cup {account}
  /\ IF Lower[account.name] \in Plain
     THEN rows' = rows \cup {LowerCase(account)}
     ELSE \E inserted \in SUBSET Account : rows' = rows \cup inserted
  /\ UNCHANGED <<status, closed, session, inbox, peerVars, guesses>>

-----------------------------------------------------------------------------
(* External: the peers.                                                      *)

Challenge(name, a) == [kind |-> "CHALLENGE", name |-> name, a |-> a]
Handshake(proof, a, b) == [kind |-> "HANDSHAKE", proof |-> proof, a |-> a, b |-> b]

(* What arrives after Close is never looked at. *)
Send(c, packet) ==
  /\ ~closed[c]
  /\ sent[c] < MaxPackets
  /\ sent' = [sent EXCEPT ![c] = @ + 1]
  /\ inbox' = [inbox EXCEPT ![c] = Append(@, packet)]
  /\ UNCHANGED <<accountVars, status, closed, session, told, creds, guesses>>

(* A proof is made from an account - the name and the password its verifier  *)
(* was made from - and from the name the client logs in with.                *)
ProofOf(account, name) == [account |-> account, name |-> name]

Honest(c) == creds[c] # NoRow

(* An honest client proves what it was told; the others send what they like. *)
(* The key in a challenge is the set of those the handler may find there:    *)
(* when it is cut short, GetBytes leaves the buffer as it was, uninitialised.*)
HonestSends(c) ==
  \/ sent[c] = 0 /\ Send(c, Challenge(creds[c].name, {c}))
  \/ sent[c] = 1 /\ told[c] # 0 /\
       Send(c, Handshake(ProofOf(creds[c], creds[c].name), c, told[c]))

OtherSends(c) ==
  \/ \E name \in Name : Send(c, Challenge(name, PublicKey))
  \/ \E proof \in Proof : Send(c, Handshake(proof, c, told[c]))

-----------------------------------------------------------------------------
(* Engine thread.  CallHandler picks a handler only for a client in the      *)
(* status the handler was registered with.                                   *)

Takes(c, s, kind) ==
  /\ ~closed[c] /\ inbox[c] # <<>>
  /\ status[c] = s /\ Head(inbox[c]).kind = kind
  /\ inbox' = [inbox EXCEPT ![c] = Tail(@)]
  /\ UNCHANGED <<accountVars, sent, creds>>

(* Mutant: the client is not closed when a handler fails. *)
RejectButKeepOpen(c) == UNCHANGED <<status, closed, told>>

Reject(c) ==
  /\ closed' = [closed EXCEPT ![c] = TRUE]
  /\ UNCHANGED <<status, told>>

(* No handler, or the wrong one, for the status of the client. *)
RefusePacket(c) ==
  /\ \/ Takes(c, "AUTH_CHALLENGE", "HANDSHAKE")
     \/ Takes(c, "AUTH_HANDSHAKE", "CHALLENGE")
     \/ \E kind \in {"CHALLENGE", "HANDSHAKE"} : Takes(c, "AUTH_SUCCESS", kind)
  /\ Reject(c)
  /\ UNCHANGED <<session, guesses>>

(* SELECT ... WHERE username = name: the first row of the answer is taken.   *)
(* When the name is not plain, the answer may be any row, in the table or    *)
(* not, or none.                                                             *)
Found(name) == { r \in rows : Collated[r.name] = Collated[name] }

Answers(name) == IF name \in Plain THEN Found(name) ELSE Account

MayFindNone(name) == name \in Plain => Found(name) = {}

ChallengeUnknown(c) ==
  /\ Takes(c, "AUTH_CHALLENGE", "CHALLENGE")
  /\ LET name == Head(inbox[c]).name
     IN /\ MayFindNone(name)
        /\ session' = [session EXCEPT ![c].name = name]
  /\ Reject(c)
  /\ UNCHANGED guesses

(* Mutant: the client stays in the status of the challenge. *)
ChallengeKeepsStatus(c) ==
  /\ Takes(c, "AUTH_CHALLENGE", "CHALLENGE")
  /\ LET packet == Head(inbox[c])
     IN \E r \in Answers(packet.name), a \in packet.a \ {ZeroKey} :
          /\ session' = [session EXCEPT ![c] = [name |-> packet.name, row |-> r, a |-> a,
                                                b |-> @.b + 1]]
          /\ told' = [told EXCEPT ![c] = session'[c].b]
  /\ UNCHANGED <<status, closed, guesses>>

(* Name, row and key go into the component before StartVerification may      *)
(* refuse the key.                                                           *)
ChallengeKnown(c) ==
  /\ Takes(c, "AUTH_CHALLENGE", "CHALLENGE")
  /\ LET packet == Head(inbox[c])
     IN \E r \in Answers(packet.name), a \in packet.a :
          /\ session' = [session EXCEPT ![c] = [name |-> packet.name, row |-> r, a |-> a,
                                                b |-> IF a = ZeroKey THEN @.b ELSE @.b + 1]]
          /\ IF a = ZeroKey THEN Reject(c)
             ELSE /\ told' = [told EXCEPT ![c] = session'[c].b]
                  /\ status' = [status EXCEPT ![c] = "AUTH_HANDSHAKE"]
                  /\ UNCHANGED closed
  /\ UNCHANGED guesses

(* VerifySession. *)
Proves(packet, s) ==
  /\ packet.proof = ProofOf(s.row, s.name)
  /\ packet.a = s.a /\ packet.b = s.b

(* Mutant: the result of VerifySession is only logged. *)
HandshakeLogged(c) ==
  /\ Takes(c, "AUTH_HANDSHAKE", "HANDSHAKE")
  /\ guesses' = [guesses EXCEPT ![c] = Append(@, Head(inbox[c]).proof)]
  /\ status' = [status EXCEPT ![c] = "AUTH_SUCCESS"]
  /\ UNCHANGED <<session, closed, told>>

ClientHandshake(c) ==
  /\ Takes(c, "AUTH_HANDSHAKE", "HANDSHAKE")
  /\ LET packet == Head(inbox[c])
     IN /\ guesses' = [guesses EXCEPT ![c] = Append(@, packet.proof)]
        /\ IF Proves(packet, session[c])
           THEN status' = [status EXCEPT ![c] = "AUTH_SUCCESS"] /\ UNCHANGED <<closed, told>>
           ELSE Reject(c)
  /\ UNCHANGED session

-----------------------------------------------------------------------------
HandlePacket(c) ==
  RefusePacket(c) \/ ChallengeUnknown(c) \/ ChallengeKnown(c) \/ ClientHandshake(c)

Quiet ==
  /\ Cardinality(entered) = MaxAccounts
  /\ \A c \in Client : closed[c] \/ inbox[c] = <<>>

Next ==
  \/ \E account \in Account : AccountCommand(account)
  \/ \E c \in Client : IF Honest(c) THEN HonestSends(c) ELSE OtherSends(c)
  \/ \E c \in Client : HandlePacket(c)
  \/ Quiet /\ UNCHANGED loginVars

Spec == Init /\ [][Next]_loginVars

(* Ticks reach every client that is not closed, and honest clients go on. *)
FairSpec ==
  /\ Spec
  /\ \A c \in Client : WF_loginVars(HandlePacket(c))
  /\ \A c \in Client : WF_loginVars(Honest(c) /\ HonestSends(c))

-----------------------------------------------------------------------------
TypeOK ==
  /\ rows \subseteq Account /\ entered \subseteq Account
  /\ status \in [Client -> {"AUTH_CHALLENGE", "AUTH_HANDSHAKE", "AUTH_SUCCESS"}]
  /\ closed \in [Client -> BOOLEAN]
  /\ \A c \in Client :
       /\ session[c].row \in Account \cup {NoRow}
       /\ session[c].a \in PublicKey /\ session[c].b \in Nat
       /\ (session[c].b > 0) <=> (status[c] # "AUTH_CHALLENGE")
  /\ told \in [Client -> Nat] /\ sent \in [Client -> 0 .. MaxPackets]
  /\ creds \in [Client -> Account \cup {NoRow}]
  /\ guesses \in [Client -> Seq(Proof)]

(* Who is logged in has proved, for the name it gave, with its only guess, a *)
(* password: that of a row of the table which answers to the name, if the    *)
(* name is plain; and of an account typed on the console, in lower case, if  *)
(* the names typed there are plain too.  (A client may spell the name in its *)
(* own way in the proof, but must know how the row spells it.)               *)
TypedPlain == \A account \in entered : Lower[account.name] \in Plain

LoginProven ==
  \A c \in Client :
    status[c] = "AUTH_SUCCESS" =>
      /\ Len(guesses[c]) = 1
      /\ guesses[c][1].name = session[c].name
      /\ session[c].name \in Plain =>
           /\ guesses[c][1].account \in Found(session[c].name)
           /\ TypedPlain => \E account \in entered : guesses[c][1].account = LowerCase(account)

(* One connection is one guess: whatever a client sends, in whatever order,  *)
(* the service never verifies a second proof for it, nor any proof once a    *)
(* packet of it was refused.                                                 *)
OneGuess ==
  [][\A c \in Client : guesses'[c] # guesses[c] => guesses[c] = <<>> /\ ~closed[c]]_loginVars

(* An honest client whose account is in the table when it connects, under a  *)
(* plain name, logs in, unless another row answers to the same name: names   *)
(* are not unique, and the query takes the first row.                        *)
HonestLogsIn ==
  \A c \in Client :
    creds[c] \in { r \in rows : r.name \in Plain } /\ sent[c] = 0 ~>
      \/ status[c] = "AUTH_SUCCESS"
      \/ \E own \in rows \cap {creds[c]} : Found(own.name) # {own}
=============================================================================
