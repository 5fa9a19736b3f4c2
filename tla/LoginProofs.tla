---------------------------- MODULE LoginProofs ----------------------------
(***************************************************************************)
(* What a login proves, for any clients, honest or not, any names - plain  *)
(* or not - passwords and spellings, any collation of the database and any *)
(* number of packets and accounts.                                         *)
(***************************************************************************)
EXTENDS Login, SequenceTheorems, TLAPS

-----------------------------------------------------------------------------
(* The inductive invariant.                                                  *)

Packet ==
  [kind : {"CHALLENGE"}, name : Name, a : SUBSET PublicKey]
    \cup [kind : {"HANDSHAKE"}, proof : Proof, a : PublicKey, b : Nat]

Session == [name : Name \cup {""}, row : Account \cup {NoRow}, a : PublicKey, b : Nat]

(* The types TypeOK leaves to the parts. *)
PartsOK ==
  /\ session \in [Client -> Session]
  /\ inbox \in [Client -> Seq(Packet)]

(* While the names typed are plain, the table holds what was typed, in lower *)
(* case, and nothing else.                                                   *)
RowsTyped == TypedPlain => rows \subseteq {LowerCase(account) : account \in entered}

(* A connection has guessed nothing until its handshake, the handshake is    *)
(* about a row the query may have answered, and a login is the one guess     *)
(* that matched.                                                             *)
SessionOK(c) ==
  /\ status[c] = "AUTH_CHALLENGE" => guesses[c] = <<>>
  /\ status[c] # "AUTH_CHALLENGE" => session[c].row \in Answers(session[c].name)
  /\ status[c] = "AUTH_HANDSHAKE" /\ ~closed[c] => guesses[c] = <<>>
  /\ status[c] = "AUTH_SUCCESS" =>
       guesses[c] = <<ProofOf(session[c].row, session[c].name)>>

LoginInv == TypeOK /\ PartsOK /\ RowsTyped /\ \A c \in Client : SessionOK(c)

-----------------------------------------------------------------------------
(* Lower case of an account is an account. *)
LEMMA LowerCaseAccount == ASSUME NEW account \in Account PROVE LowerCase(account) \in Account
BY LowerAssumption DEF LowerCase, Account

(* What a query may answer is an account, in the table or not. *)
LEMMA AnswersAreAccounts ==
  ASSUME rows \subseteq Account, NEW name PROVE Answers(name) \subseteq Account
BY DEF Answers, Found

LEMMA LoginInit == Init => LoginInv
<1> SUFFICES ASSUME Init PROVE LoginInv OBVIOUS
<1>1. NoSession \in Session BY DEF NoSession, Session, PublicKey
<1>2. PartsOK
  <2>1. session \in [Client -> Session] BY <1>1 DEF Init
  <2>2. inbox \in [Client -> Seq(Packet)] BY DEF Init
  <2> QED BY <2>1, <2>2 DEF PartsOK
<1>3. TypeOK
  <2>1. /\ rows \subseteq Account /\ entered \subseteq Account
        /\ status \in [Client -> {"AUTH_CHALLENGE", "AUTH_HANDSHAKE", "AUTH_SUCCESS"}]
        /\ told \in [Client -> Nat] /\ sent \in [Client -> 0 .. MaxPackets]
        /\ creds \in [Client -> Account \cup {NoRow}]
        /\ guesses \in [Client -> Seq(Proof)]
    BY LoginBoundAssumption DEF Init
  <2>2. closed \in [Client -> BOOLEAN] BY Zenon DEF Init
  <2>3. ASSUME NEW c \in Client
        PROVE  /\ session[c].row \in Account \cup {NoRow}
               /\ session[c].a \in PublicKey /\ session[c].b \in Nat
               /\ (session[c].b > 0) <=> (status[c] # "AUTH_CHALLENGE")
    <3>1. session[c] = NoSession /\ status[c] = "AUTH_CHALLENGE" BY DEF Init
    <3>2. NoSession.row = NoRow /\ NoSession.a = ZeroKey /\ NoSession.b = 0 BY DEF NoSession
    <3> QED BY <3>1, <3>2 DEF PublicKey
  <2> QED BY <2>1, <2>2, <2>3 DEF TypeOK
<1>4. RowsTyped BY DEF Init, RowsTyped
<1>5. ASSUME NEW c \in Client PROVE SessionOK(c) BY DEF Init, SessionOK
<1> QED BY <1>2, <1>3, <1>4, <1>5 DEF LoginInv

-----------------------------------------------------------------------------
(* An account command adds a row; the sessions do not notice. *)
LEMMA AccountStep ==
  ASSUME LoginInv, NEW account \in Account, AccountCommand(account) PROVE LoginInv'
<1>1. /\ entered' = entered \cup {account}
      /\ UNCHANGED <<status, closed, session, inbox, told, sent, creds, guesses>>
  BY DEF AccountCommand, peerVars
<1>2. LowerCase(account) \in Account BY LowerCaseAccount
<1>3. PICK added \in SUBSET Account :
        /\ rows' = rows \cup added
        /\ Lower[account.name] \in Plain => added = {LowerCase(account)}
  BY <1>2 DEF AccountCommand
<1>4. TypeOK' BY <1>1, <1>3 DEF LoginInv, TypeOK
<1>5. PartsOK' BY <1>1 DEF LoginInv, PartsOK
<1>6. RowsTyped'
  <2> SUFFICES ASSUME TypedPlain' PROVE rows' \subseteq {LowerCase(other) : other \in entered'}
    BY DEF RowsTyped, LowerCase
  <2>1. TypedPlain /\ Lower[account.name] \in Plain BY <1>1 DEF TypedPlain
  <2>2. rows \subseteq {LowerCase(other) : other \in entered} BY <2>1 DEF LoginInv, RowsTyped
  <2> QED BY <1>1, <1>3, <2>1, <2>2
<1>7. ASSUME NEW c \in Client PROVE SessionOK(c)'
  <2>1. session'[c] = session[c] /\ rows \subseteq rows' BY <1>1, <1>3
  <2>2. session[c].row \in Answers(session[c].name) =>
          (session[c].row \in Answers(session[c].name))'
    BY <2>1 DEF Answers, Found
  <2> QED BY <1>1, <2>2 DEF LoginInv, SessionOK
<1> QED BY <1>4, <1>5, <1>6, <1>7 DEF LoginInv

(* A packet of a client is queued, and nothing else happens. *)
LEMMA SendStep ==
  ASSUME LoginInv, NEW c \in Client, NEW packet \in Packet, Send(c, packet) PROVE LoginInv'
<1>1. /\ sent[c] < MaxPackets /\ sent' = [sent EXCEPT ![c] = sent[c] + 1]
      /\ inbox' = [inbox EXCEPT ![c] = Append(inbox[c], packet)]
      /\ UNCHANGED <<rows, entered, status, closed, session, told, creds, guesses>>
  BY DEF Send, accountVars
<1>2. inbox' \in [Client -> Seq(Packet)]
  <2>1. inbox \in [Client -> Seq(Packet)] BY DEF LoginInv, PartsOK
  <2>2. Append(inbox[c], packet) \in Seq(Packet) BY <2>1, AppendProperties
  <2> QED BY <1>1, <2>1, <2>2
<1>3. sent' \in [Client -> 0 .. MaxPackets]
  BY <1>1, LoginBoundAssumption DEF LoginInv, TypeOK
<1>4. TypeOK' BY <1>1, <1>3 DEF LoginInv, TypeOK
<1>5. PartsOK' BY <1>1, <1>2 DEF LoginInv, PartsOK
<1>6. RowsTyped' /\ \A d \in Client : SessionOK(d)'
  BY <1>1 DEF LoginInv, RowsTyped, TypedPlain, LowerCase, SessionOK, Answers, Found
<1> QED BY <1>4, <1>5, <1>6 DEF LoginInv

(* Whatever a peer sends is one of the two packets. *)
LEMMA PeerStep ==
  ASSUME LoginInv, NEW c \in Client,
         IF Honest(c) THEN HonestSends(c) ELSE OtherSends(c)
  PROVE  LoginInv'
<1>1. ASSUME NEW name \in Name, NEW a \in SUBSET PublicKey PROVE Challenge(name, a) \in Packet
  BY DEF Challenge, Packet
<1>2. ASSUME NEW proof \in Proof PROVE Handshake(proof, c, told[c]) \in Packet
  BY DEF Handshake, Packet, PublicKey, LoginInv, TypeOK
<1>3. {c} \in SUBSET PublicKey /\ PublicKey \in SUBSET PublicKey BY DEF PublicKey
<1>4. CASE Honest(c) /\ HonestSends(c)
  <2>1. creds[c] \in Account /\ creds[c].name \in Name
    BY <1>4 DEF LoginInv, TypeOK, Account, Honest
  <2>2. ProofOf(creds[c], creds[c].name) \in Proof BY <2>1 DEF ProofOf, Proof
  <2> QED BY <1>1, <1>2, <1>3, <1>4, <2>1, <2>2, SendStep DEF HonestSends
<1>5. CASE ~Honest(c) /\ OtherSends(c)
  <2>1. CASE \E name \in Name : Send(c, Challenge(name, PublicKey))
    BY <1>1, <1>3, <2>1, SendStep
  <2>2. CASE \E proof \in Proof : Send(c, Handshake(proof, c, told[c]))
    BY <1>2, <2>2, SendStep
  <2> QED BY <1>5, <2>1, <2>2 DEF OtherSends
<1> QED BY <1>4, <1>5

-----------------------------------------------------------------------------
(* A handler takes the first packet of a client that is not closed; the      *)
(* queue that remains has the same packets.                                  *)
LEMMA TakesFirst ==
  ASSUME LoginInv, NEW c \in Client, NEW s, NEW kind, Takes(c, s, kind)
  PROVE  /\ ~closed[c] /\ status[c] = s
         /\ Head(inbox[c]) \in Packet /\ Head(inbox[c]).kind = kind
         /\ inbox' \in [Client -> Seq(Packet)]
         /\ UNCHANGED <<rows, entered, sent, creds>>
<1>1. /\ ~closed[c] /\ inbox[c] # <<>> /\ status[c] = s /\ Head(inbox[c]).kind = kind
      /\ inbox' = [inbox EXCEPT ![c] = Tail(inbox[c])]
      /\ UNCHANGED <<rows, entered, sent, creds>>
  BY DEF Takes, accountVars
<1>2. inbox \in [Client -> Seq(Packet)] BY DEF LoginInv, PartsOK
<1>3. Head(inbox[c]) \in Packet /\ Tail(inbox[c]) \in Seq(Packet)
  BY <1>1, <1>2, HeadTailProperties
<1>4. inbox' \in [Client -> Seq(Packet)] BY <1>1, <1>2, <1>3
<1> QED BY <1>1, <1>3, <1>4

(* What a handler may do to the session of the one client it serves: the     *)
(* invariant holds after it if it holds for that client.                     *)
LEMMA OneClient ==
  ASSUME LoginInv, NEW c \in Client, UNCHANGED <<rows, entered, sent, creds>>,
         inbox' \in [Client -> Seq(Packet)],
         NEW s \in {"AUTH_CHALLENGE", "AUTH_HANDSHAKE", "AUTH_SUCCESS"},
         NEW shut \in BOOLEAN, NEW auth \in Session, NEW b \in Nat, NEW g \in Seq(Proof),
         status' = [status EXCEPT ![c] = s], closed' = [closed EXCEPT ![c] = shut],
         session' = [session EXCEPT ![c] = auth], told' = [told EXCEPT ![c] = b],
         guesses' = [guesses EXCEPT ![c] = g],
         auth.row \in Account \cup {NoRow}, (auth.b > 0) <=> (s # "AUTH_CHALLENGE"),
         SessionOK(c)'
  PROVE  LoginInv'
<1>1. ASSUME NEW d \in Client
      PROVE  /\ session'[d].row \in Account \cup {NoRow}
             /\ session'[d].a \in PublicKey /\ session'[d].b \in Nat
             /\ (session'[d].b > 0) <=> (status'[d] # "AUTH_CHALLENGE")
  <2>1. CASE d = c
    <3>1. session'[c] = auth /\ status'[c] = s BY DEF LoginInv, TypeOK, PartsOK
    <3> QED BY <2>1, <3>1 DEF Session
  <2>2. CASE d # c
    <3>1. session'[d] = session[d] /\ status'[d] = status[d]
      BY <2>2 DEF LoginInv, TypeOK, PartsOK
    <3> QED BY <3>1 DEF LoginInv, TypeOK
  <2> QED BY <2>1, <2>2
<1>2. closed' \in [Client -> BOOLEAN] BY DEF LoginInv, TypeOK
<1>3. TypeOK' BY <1>1, <1>2 DEF LoginInv, TypeOK
<1>4. PartsOK' BY DEF LoginInv, PartsOK
<1>5. RowsTyped' BY DEF LoginInv, RowsTyped, TypedPlain, LowerCase
<1>6. ASSUME NEW d \in Client, d # c PROVE SessionOK(d)'
  <2>1. /\ status'[d] = status[d] /\ closed'[d] = closed[d] /\ session'[d] = session[d]
        /\ guesses'[d] = guesses[d]
    BY <1>6 DEF LoginInv, TypeOK, PartsOK
  <2>2. SessionOK(d) BY DEF LoginInv
  <2> QED BY <2>1, <2>2 DEF SessionOK, Answers, Found
<1> QED BY <1>3, <1>4, <1>5, <1>6 DEF LoginInv

(* A rejected packet closes the connection; nothing is guessed.  The session *)
(* may be another one only before the challenge was answered.                *)
LEMMA RejectStep ==
  ASSUME LoginInv, NEW c \in Client, UNCHANGED <<rows, entered, sent, creds, guesses>>,
         inbox' \in [Client -> Seq(Packet)], status[c] = "AUTH_CHALLENGE" \/ session' = session,
         NEW auth \in Session, session' = [session EXCEPT ![c] = auth],
         auth.row \in Account \cup {NoRow}, auth.b = session[c].b, Reject(c)
  PROVE  LoginInv'
<1>1. /\ status[c] \in {"AUTH_CHALLENGE", "AUTH_HANDSHAKE", "AUTH_SUCCESS"}
      /\ status' = [status EXCEPT ![c] = status[c]]
      /\ closed' = [closed EXCEPT ![c] = TRUE]
      /\ told' = [told EXCEPT ![c] = told[c]] /\ told[c] \in Nat
      /\ guesses' = [guesses EXCEPT ![c] = guesses[c]] /\ guesses[c] \in Seq(Proof)
  BY DEF LoginInv, TypeOK, Reject
<1>2. (auth.b > 0) <=> (status[c] # "AUTH_CHALLENGE") BY DEF LoginInv, TypeOK
<1>3. SessionOK(c)'
  <2>1. status'[c] = status[c] /\ closed'[c] = TRUE /\ guesses'[c] = guesses[c] /\ rows' = rows
    BY <1>1 DEF LoginInv, TypeOK
  <2>2. SessionOK(c) BY DEF LoginInv
  <2>3. CASE status[c] = "AUTH_CHALLENGE" BY <2>1, <2>2, <2>3 DEF SessionOK
  <2>4. CASE session' = session BY <2>1, <2>2, <2>4 DEF SessionOK, Answers, Found
  <2> QED BY <2>3, <2>4
<1> QED BY <1>1, <1>2, <1>3, OneClient

(* A packet the status of the client has no handler for. *)
LEMMA RefuseStep == ASSUME LoginInv, NEW c \in Client, RefusePacket(c) PROVE LoginInv'
<1>1. /\ UNCHANGED <<rows, entered, sent, creds, guesses, session>> /\ Reject(c)
      /\ inbox' \in [Client -> Seq(Packet)]
  <2>1. \E s, kind : Takes(c, s, kind) BY DEF RefusePacket
  <2> QED BY <2>1, TakesFirst DEF RefusePacket
<1>2. /\ session[c] \in Session /\ session' = [session EXCEPT ![c] = session[c]]
      /\ session[c].row \in Account \cup {NoRow}
  BY <1>1 DEF LoginInv, TypeOK, PartsOK
<1> QED BY <1>1, <1>2, RejectStep

(* A challenge for a name nobody has leaves its name behind. *)
LEMMA UnknownStep == ASSUME LoginInv, NEW c \in Client, ChallengeUnknown(c) PROVE LoginInv'
<1> DEFINE name == Head(inbox[c]).name
           auth == [session[c] EXCEPT !.name = name]
<1>1. Takes(c, "AUTH_CHALLENGE", "CHALLENGE") /\ Reject(c) /\ guesses' = guesses
      /\ session' = [session EXCEPT ![c] = auth]
  BY DEF ChallengeUnknown
<1>2. /\ status[c] = "AUTH_CHALLENGE" /\ name \in Name
      /\ inbox' \in [Client -> Seq(Packet)]
      /\ UNCHANGED <<rows, entered, sent, creds, guesses>>
  BY <1>1, TakesFirst DEF Packet
<1>3. /\ session[c] \in Session /\ session[c].row \in Account \cup {NoRow}
  BY DEF LoginInv, TypeOK, PartsOK
<1>4. auth \in Session /\ auth.row = session[c].row /\ auth.b = session[c].b
  BY <1>2, <1>3 DEF Session
<1> QED BY <1>1, <1>2, <1>3, <1>4, RejectStep

(* A challenge for a name in the table brings a row of the table. *)
LEMMA KnownStep == ASSUME LoginInv, NEW c \in Client, ChallengeKnown(c) PROVE LoginInv'
<1> DEFINE packet == Head(inbox[c])
<1>1. Takes(c, "AUTH_CHALLENGE", "CHALLENGE") /\ guesses' = guesses BY DEF ChallengeKnown
<1>2. /\ ~closed[c] /\ status[c] = "AUTH_CHALLENGE"
      /\ packet.name \in Name /\ packet.a \subseteq PublicKey
      /\ inbox' \in [Client -> Seq(Packet)]
      /\ UNCHANGED <<rows, entered, sent, creds>>
  BY <1>1, TakesFirst DEF Packet
<1>3. PICK r \in Answers(packet.name), a \in packet.a :
        /\ session' = [session EXCEPT ![c] = [name |-> packet.name, row |-> r, a |-> a,
                                              b |-> IF a = ZeroKey THEN session[c].b
                                                    ELSE session[c].b + 1]]
        /\ IF a = ZeroKey THEN Reject(c)
           ELSE /\ told' = [told EXCEPT ![c] = session'[c].b]
                /\ status' = [status EXCEPT ![c] = "AUTH_HANDSHAKE"]
                /\ UNCHANGED closed
  BY DEF ChallengeKnown
<1>4. /\ r \in Account /\ a \in PublicKey /\ session[c] \in Session
      /\ session[c].b \in Nat /\ session \in [Client -> Session]
  BY <1>2, AnswersAreAccounts DEF LoginInv, TypeOK, PartsOK, Session
<1> DEFINE auth == [name |-> packet.name, row |-> r, a |-> a,
                    b |-> IF a = ZeroKey THEN session[c].b ELSE session[c].b + 1]
<1>5. auth \in Session /\ auth.row = r /\ auth.row \in Answers(auth.name)
  <2>1. packet.name \in Name /\ r \in Answers(packet.name) BY <1>2
  <2> HIDE DEF packet
  <2>2. auth.b \in Nat BY <1>4
  <2> QED BY <1>4, <2>1, <2>2 DEF Session
<1>6. CASE a = ZeroKey
  <2>1. auth.b = session[c].b /\ session' = [session EXCEPT ![c] = auth] /\ Reject(c)
    BY <1>3, <1>6
  <2> HIDE DEF auth
  <2> QED BY <1>1, <1>2, <1>4, <1>5, <2>1, RejectStep
<1>7. CASE a # ZeroKey
  <2>1. /\ auth.b = session[c].b + 1 /\ session' = [session EXCEPT ![c] = auth]
        /\ told' = [told EXCEPT ![c] = session'[c].b]
        /\ status' = [status EXCEPT ![c] = "AUTH_HANDSHAKE"]
    BY <1>3, <1>7
  <2> HIDE DEF auth
  <2>2. session'[c] = auth BY <1>4, <2>1
  <2>3. /\ told' = [told EXCEPT ![c] = auth.b] /\ auth.b \in Nat /\ auth.b > 0
    <3>1. auth.b \in Nat /\ auth.b > 0 BY <1>4, <2>1
    <3>2. told' = [told EXCEPT ![c] = auth.b] BY <2>1, <2>2, Zenon
    <3> QED BY <3>1, <3>2
  <2>4. /\ closed' = [closed EXCEPT ![c] = FALSE]
        /\ guesses' = [guesses EXCEPT ![c] = <<>>]
        /\ guesses[c] = <<>> /\ <<>> \in Seq(Proof)
    BY <1>1, <1>2, <1>3, <1>7 DEF LoginInv, SessionOK, TypeOK
  <2>5. SessionOK(c)'
    <3>1. status'[c] = "AUTH_HANDSHAKE" /\ guesses'[c] = <<>> /\ rows' = rows
      BY <1>1, <1>2, <2>1, <2>4 DEF LoginInv, TypeOK
    <3>2. (session[c].row \in Answers(session[c].name))' BY <1>5, <2>2, <3>1 DEF Answers, Found
    <3> QED BY <3>1, <3>2 DEF SessionOK
  <2> QED BY <1>2, <1>4, <1>5, <2>1, <2>3, <2>4, <2>5, OneClient
<1> QED BY <1>6, <1>7

(* A handshake is the one guess; it is about the row when it matches. *)
LEMMA HandshakeStep == ASSUME LoginInv, NEW c \in Client, ClientHandshake(c) PROVE LoginInv'
<1> DEFINE packet == Head(inbox[c])
           guess == Append(guesses[c], packet.proof)
<1>1. /\ Takes(c, "AUTH_HANDSHAKE", "HANDSHAKE") /\ session' = session
      /\ guesses' = [guesses EXCEPT ![c] = guess]
      /\ IF Proves(packet, session[c])
         THEN status' = [status EXCEPT ![c] = "AUTH_SUCCESS"] /\ UNCHANGED <<closed, told>>
         ELSE Reject(c)
  BY DEF ClientHandshake
<1>2. /\ ~closed[c] /\ status[c] = "AUTH_HANDSHAKE" /\ packet.proof \in Proof
      /\ inbox' \in [Client -> Seq(Packet)]
      /\ UNCHANGED <<rows, entered, sent, creds>>
  BY <1>1, TakesFirst DEF Packet
<1>3. /\ session[c] \in Session /\ session[c].row \in Account /\ session[c].b > 0
      /\ session[c].row \in Answers(session[c].name)
      /\ guesses[c] = <<>> /\ guesses \in [Client -> Seq(Proof)] /\ told[c] \in Nat
  BY <1>2, AnswersAreAccounts DEF LoginInv, TypeOK, PartsOK, SessionOK
<1>4. guess \in Seq(Proof) /\ guess = <<packet.proof>>
  BY <1>2, <1>3
<1> HIDE DEF guess
<1>5. /\ session' = [session EXCEPT ![c] = session[c]] /\ told' = [told EXCEPT ![c] = told[c]]
      /\ guesses'[c] = guess /\ rows' = rows /\ session'[c] = session[c]
  BY <1>1, <1>2, <1>3 DEF Reject, LoginInv, TypeOK, PartsOK
<1>6. (session[c].row \in Answers(session[c].name))' BY <1>3, <1>5 DEF Answers, Found
<1>7. CASE Proves(packet, session[c])
  <2>1. /\ status' = [status EXCEPT ![c] = "AUTH_SUCCESS"]
        /\ closed' = [closed EXCEPT ![c] = FALSE]
    BY <1>1, <1>2, <1>7 DEF LoginInv, TypeOK
  <2>2. status'[c] = "AUTH_SUCCESS" BY <2>1 DEF LoginInv, TypeOK
  <2>3. guess = <<ProofOf(session[c].row, session[c].name)>> BY <1>4, <1>7 DEF Proves
  <2>4. SessionOK(c)' BY <1>5, <1>6, <2>2, <2>3 DEF SessionOK
  <2> QED BY <1>1, <1>2, <1>3, <1>4, <1>5, <2>1, <2>4, OneClient
<1>8. CASE ~Proves(packet, session[c])
  <2>1. /\ status' = [status EXCEPT ![c] = "AUTH_HANDSHAKE"]
        /\ closed' = [closed EXCEPT ![c] = TRUE]
    BY <1>1, <1>2, <1>8 DEF LoginInv, TypeOK, Reject
  <2>2. status'[c] = "AUTH_HANDSHAKE" /\ closed'[c] BY <2>1 DEF LoginInv, TypeOK
  <2>3. SessionOK(c)' BY <1>6, <2>2 DEF SessionOK
  <2> QED BY <1>1, <1>2, <1>3, <1>4, <1>5, <2>1, <2>3, OneClient
<1> QED BY <1>7, <1>8

LEMMA LoginStep == ASSUME LoginInv, [Next]_loginVars PROVE LoginInv'
<1>1. CASE \E account \in Account : AccountCommand(account) BY <1>1, AccountStep
<1>2. CASE \E c \in Client : IF Honest(c) THEN HonestSends(c) ELSE OtherSends(c)
  BY <1>2, PeerStep
<1>3. CASE \E c \in Client : HandlePacket(c)
  BY <1>3, RefuseStep, UnknownStep, KnownStep, HandshakeStep DEF HandlePacket
<1>4. CASE UNCHANGED loginVars
  <2>1. UNCHANGED <<rows, entered, status, closed, session, inbox, told, sent, creds, guesses>>
    BY <1>4 DEF loginVars, accountVars, peerVars
  <2>2. TypeOK' BY <2>1 DEF LoginInv, TypeOK
  <2>3. PartsOK' /\ RowsTyped'
    BY <2>1 DEF LoginInv, PartsOK, RowsTyped, TypedPlain, LowerCase
  <2>4. \A c \in Client : SessionOK(c)' BY <2>1 DEF LoginInv, SessionOK, Answers, Found
  <2> QED BY <2>2, <2>3, <2>4 DEF LoginInv
<1> QED BY <1>1, <1>2, <1>3, <1>4 DEF Next

LEMMA LoginInvariant == Spec => []LoginInv
BY LoginInit, LoginStep, PTL DEF Spec

-----------------------------------------------------------------------------
(* The type invariant of the login, with the counter of the server's keys    *)
(* at zero exactly for who was not answered a challenge.                     *)
THEOREM LoginTypeCorrect == Spec => []TypeOK
<1>1. LoginInv => TypeOK BY DEF LoginInv
<1> QED BY <1>1, LoginInvariant, PTL

(* Nobody is logged in who has not proved, with the only guess of the        *)
(* connection, the password of a row; if the name it gave is plain, one of   *)
(* the table that answers to the name, and if all names typed were plain, an *)
(* account of the console, in lower case.  Packets may come in any order,    *)
(* with any content and from any client.                                     *)
THEOREM LoginsAreProven == Spec => []LoginProven
<1>1. ASSUME LoginInv PROVE LoginProven
  <2> SUFFICES ASSUME NEW c \in Client, status[c] = "AUTH_SUCCESS"
               PROVE  /\ Len(guesses[c]) = 1
                      /\ guesses[c][1].name = session[c].name
                      /\ session[c].name \in Plain =>
                           /\ guesses[c][1].account \in Found(session[c].name)
                           /\ TypedPlain => \E account \in entered :
                                              guesses[c][1].account = LowerCase(account)
    BY DEF LoginProven
  <2>1. /\ guesses[c] = <<ProofOf(session[c].row, session[c].name)>>
        /\ session[c].row \in Answers(session[c].name)
    BY <1>1 DEF LoginInv, SessionOK
  <2>2. /\ guesses[c][1].name = session[c].name /\ guesses[c][1].account = session[c].row
        /\ Len(guesses[c]) = 1
    BY <2>1 DEF ProofOf
  <2>3. ASSUME session[c].name \in Plain
        PROVE  session[c].row \in Found(session[c].name) /\ session[c].row \in rows
    BY <2>1, <2>3 DEF Answers, Found
  <2>4. TypedPlain => rows \subseteq {LowerCase(account) : account \in entered}
    BY <1>1 DEF LoginInv, RowsTyped
  <2> QED BY <2>2, <2>3, <2>4
<1> QED BY <1>1, LoginInvariant, PTL

(* A connection is good for one guess: a proof is verified only for a client *)
(* that has never been verified or rejected before.                          *)
THEOREM OneGuessPerConnection == Spec => OneGuess
<1>1. ASSUME LoginInv, [Next]_loginVars
      PROVE  [\A c \in Client :
                guesses'[c] # guesses[c] => guesses[c] = <<>> /\ ~closed[c]]_loginVars
  <2> SUFFICES ASSUME NEW c \in Client, guesses'[c] # guesses[c]
               PROVE  guesses[c] = <<>> /\ ~closed[c]
    OBVIOUS
  <2>1. PICK d \in Client : ClientHandshake(d)
    BY <1>1 DEF Next, AccountCommand, HonestSends, OtherSends, Send, HandlePacket,
                RefusePacket, ChallengeUnknown, ChallengeKnown, loginVars, ClientAssumption
  <2>2. c = d BY <1>1, <2>1 DEF ClientHandshake, LoginInv, TypeOK
  <2>3. ~closed[c] /\ status[c] = "AUTH_HANDSHAKE" BY <2>1, <2>2 DEF ClientHandshake, Takes
  <2> QED BY <1>1, <2>3 DEF LoginInv, SessionOK
<1> QED BY <1>1, LoginInvariant, PTL DEF Spec, OneGuess
=============================================================================
