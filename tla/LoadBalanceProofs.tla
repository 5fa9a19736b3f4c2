------------------------- MODULE LoadBalanceProofs -------------------------
(***************************************************************************)
(* What the operations of the server table do to it, for every set of      *)
(* entities and realms: lemmas for the proofs about the service.           *)
(***************************************************************************)
EXTENDS LoadBalance, SequenceTheorems, TLAPS

-----------------------------------------------------------------------------
(* Vectors without repetitions.                                              *)

(* Appending a newcomer to a sequence without repetitions.                   *)
LEMMA AppendFresh ==
  ASSUME NEW S, NEW s \in Seq(S), NEW e \in S, IsInjective(s), e \notin ToSet(s)
  PROVE  /\ Append(s, e) \in Seq(S)
         /\ IsInjective(Append(s, e))
         /\ ToSet(Append(s, e)) = ToSet(s) \cup {e}
<1>1. /\ Append(s, e) \in Seq(S)
      /\ Len(Append(s, e)) = Len(s) + 1
      /\ \A i \in 1 .. Len(s) : Append(s, e)[i] = s[i]
      /\ Append(s, e)[Len(s) + 1] = e
      /\ DOMAIN Append(s, e) = 1 .. Len(s) + 1
      /\ DOMAIN s = 1 .. Len(s)
      /\ Len(s) \in Nat
  OBVIOUS
<1>2. IsInjective(Append(s, e))
  BY <1>1 DEF IsInjective, ToSet
<1>3. ToSet(Append(s, e)) = ToSet(s) \cup {e}
  <2>1. ASSUME NEW x \in ToSet(Append(s, e)) PROVE x \in ToSet(s) \cup {e}
    BY <1>1 DEF ToSet
  <2>2. ASSUME NEW x \in ToSet(s) PROVE x \in ToSet(Append(s, e))
    <3>1. PICK i \in 1 .. Len(s) : x = s[i] BY <1>1 DEF ToSet
    <3>2. i \in 1 .. Len(s) + 1 /\ Append(s, e)[i] = x BY <1>1, <3>1
    <3> QED BY <1>1, <3>2 DEF ToSet
  <2>3. e \in ToSet(Append(s, e))
    <3>1. Len(s) + 1 \in 1 .. Len(s) + 1 BY <1>1
    <3> QED BY <1>1, <3>1 DEF ToSet
  <2> QED BY <2>1, <2>2, <2>3
<1> QED BY <1>1, <1>2, <1>3

(* RemoveFirst takes out the one occurrence there is, or changes nothing.    *)
LEMMA RemoveFirstAt ==
  ASSUME NEW S, NEW s \in Seq(S), NEW k \in 1 .. Len(s), IsInjective(s)
  PROVE  RemoveFirst(s, s[k]) = SubSeq(s, 1, k - 1) \o SubSeq(s, k + 1, Len(s))
<1> DEFINE I == { i \in 1 .. Len(s) : s[i] = s[k] }
<1>1. I = {k} BY DEF IsInjective
<1>2. Min(I) = k BY <1>1 DEF Min
<1> QED BY <1>1, <1>2 DEF RemoveFirst, SelectInSeq, RemoveAt

(* What erasing the first match does to a sequence without repetitions.      *)
LEMMA RemoveFirstFacts ==
  ASSUME NEW S, NEW s \in Seq(S), NEW e, IsInjective(s)
  PROVE  /\ RemoveFirst(s, e) \in Seq(S)
         /\ IsInjective(RemoveFirst(s, e))
         /\ ToSet(RemoveFirst(s, e)) = ToSet(s) \ {e}
<1>0. DOMAIN s = 1 .. Len(s) /\ Len(s) \in Nat
  OBVIOUS
<1>1. CASE e \notin ToSet(s)
  <2>1. ~ \E i \in 1 .. Len(s) : s[i] = e BY <1>0, <1>1 DEF ToSet
  <2>2. RemoveFirst(s, e) = s BY <2>1 DEF RemoveFirst
  <2> QED BY <1>1, <2>2
<1>2. CASE e \in ToSet(s)
  <2>1. PICK k \in 1 .. Len(s) : e = s[k] BY <1>0, <1>2 DEF ToSet
  <2> DEFINE u == RemoveFirst(s, e)
             f(i) == IF i < k THEN i ELSE i + 1
  <2>2. u = SubSeq(s, 1, k - 1) \o SubSeq(s, k + 1, Len(s))
    BY <2>1, RemoveFirstAt
  <2>3. /\ u \in Seq(S)
        /\ Len(u) = Len(s) - 1
        /\ \A i \in 1 .. Len(s) - 1 : u[i] = s[f(i)]
    <3> DEFINE a == SubSeq(s, 1, k - 1)
               b == SubSeq(s, k + 1, Len(s))
    <3>1. /\ a \in Seq(S) /\ Len(a) = k - 1
          /\ \A i \in 1 .. k - 1 : a[i] = s[i]
      BY <1>0
    <3>2. /\ b \in Seq(S) /\ Len(b) = Len(s) - k
          /\ \A i \in 1 .. Len(s) - k : b[i] = s[k + i]
      <4>1. /\ k + 1 \in Int /\ Len(s) \in Int
            /\ \A i \in k + 1 .. Len(s) : s[i] \in S
        BY <1>0
      <4>2. /\ b \in Seq(S)
            /\ Len(b) = IF k + 1 <= Len(s) THEN Len(s) - (k + 1) + 1 ELSE 0
            /\ \A i \in 1 .. Len(s) - (k + 1) + 1 : b[i] = s[(k + 1) + i - 1]
        BY <4>1, SubSeqProperties
      <4> HIDE DEF b
      <4>3. Len(b) = Len(s) - k BY <1>0, <4>2
      <4>4. ASSUME NEW i \in 1 .. Len(s) - k PROVE b[i] = s[k + i]
        <5>1. i \in 1 .. Len(s) - (k + 1) + 1 BY <1>0
        <5>2. b[i] = s[(k + 1) + i - 1] BY <4>2, <5>1
        <5>3. (k + 1) + i - 1 = k + i BY <1>0
        <5> QED BY <5>2, <5>3
      <4> QED BY <4>2, <4>3, <4>4
    <3>3. u = a \o b BY <2>2
    <3> HIDE DEF a, b, u
    <3>4. /\ u \in Seq(S)
          /\ Len(u) = Len(a) + Len(b)
          /\ \A i \in 1 .. Len(a) + Len(b) : u[i] = IF i <= Len(a) THEN a[i] ELSE b[i - Len(a)]
      BY <3>1, <3>2, <3>3, ConcatProperties
    <3>5. Len(u) = Len(s) - 1 BY <1>0, <3>1, <3>2, <3>4
    <3>6. ASSUME NEW i \in 1 .. Len(s) - 1 PROVE u[i] = s[f(i)]
      <4>0. i \in 1 .. Len(a) + Len(b) BY <1>0, <3>1, <3>2
      <4>1. CASE i < k
        <5>1. i <= Len(a) /\ i \in 1 .. k - 1 BY <1>0, <3>1, <4>1
        <5>2. u[i] = a[i] BY <3>4, <4>0, <5>1
        <5>3. a[i] = s[i] BY <3>1, <5>1
        <5> QED BY <4>1, <5>2, <5>3
      <4>2. CASE ~(i < k)
        <5>1. i - Len(a) \in 1 .. Len(s) - k /\ ~(i <= Len(a)) BY <1>0, <3>1, <4>2
        <5>2. u[i] = b[i - Len(a)] BY <3>4, <4>0, <5>1
        <5>3. b[i - Len(a)] = s[k + (i - Len(a))] BY <3>2, <5>1
        <5>4. k + (i - Len(a)) = i + 1 BY <1>0, <3>1
        <5> QED BY <4>2, <5>2, <5>3, <5>4
      <4> QED BY <4>1, <4>2
    <3> QED BY <3>4, <3>5, <3>6
  <2>4. DOMAIN u = 1 .. Len(s) - 1 BY <2>3
  <2>5. IsInjective(u)
    <3>1. \A i, j \in 1 .. Len(s) - 1 : f(i) = f(j) => i = j BY <1>0
    <3>2. \A i \in 1 .. Len(s) - 1 : f(i) \in 1 .. Len(s) BY <1>0
    <3> QED BY <1>0, <2>3, <2>4, <3>1, <3>2 DEF IsInjective
  <2>6. ASSUME NEW x \in ToSet(u) PROVE x \in ToSet(s) \ {e}
    <3>1. PICK i \in 1 .. Len(s) - 1 : x = u[i] BY <2>4 DEF ToSet
    <3>2. f(i) \in 1 .. Len(s) /\ f(i) # k /\ x = s[f(i)] BY <1>0, <2>3, <3>1
    <3>3. x # e BY <1>0, <2>1, <3>2 DEF IsInjective
    <3> QED BY <1>0, <3>2, <3>3 DEF ToSet
  <2>7. ASSUME NEW x \in ToSet(s) \ {e} PROVE x \in ToSet(u)
    <3>1. PICK j \in 1 .. Len(s) : x = s[j] BY <1>0 DEF ToSet
    <3>2. j # k BY <2>1, <3>1
    <3> DEFINE i == IF j < k THEN j ELSE j - 1
    <3>3. i \in 1 .. Len(s) - 1 /\ f(i) = j BY <1>0, <3>2
    <3>4. u[i] = x BY <2>3, <3>1, <3>3
    <3> HIDE DEF i, u
    <3> QED BY <2>4, <3>3, <3>4 DEF ToSet
  <2> QED BY <2>3, <2>5, <2>6, <2>7
<1> QED BY <1>1, <1>2

-----------------------------------------------------------------------------
(* The table: its types, and no server twice in one vector.                  *)

TableTypeOK ==
  /\ list \in [AddressType -> [Realm -> Seq(Entity)]]
  /\ known \in [RealmTypes -> SUBSET Realm]
  /\ cursor \in [GlobalTypes -> Nat]
  /\ realmCursor \in [RealmTypes -> Seq(Nat)]

NoRepetition == \A t \in AddressType, r \in Realm : IsInjective(list[t][r])

TableOK == TableTypeOK /\ NoRepetition

(* Every key of the table is a realm.                                        *)
LEMMA KeyInRealm == ASSUME NEW t, NEW r \in Realm PROVE Key(t, r) \in Realm
BY RealmAssumption DEF Key

(* Global and per-realm types divide the address types between them.         *)
LEMMA TypeKinds == /\ GlobalTypes \cap RealmTypes = {}
                   /\ AddressType \ RealmTypes = GlobalTypes
                   /\ GlobalTypes \subseteq AddressType /\ RealmTypes \subseteq AddressType
BY DEF GlobalTypes, RealmTypes, AddressType

(* The empty table is well formed.                                           *)
LEMMA TableInitOK == ASSUME TableInit PROVE TableOK
<1>1. TableTypeOK BY DEF TableInit, TableTypeOK
<1>2. ASSUME NEW t \in AddressType, NEW r \in Realm PROVE IsInjective(list[t][r])
  <2>1. list[t][r] = <<>> BY DEF TableInit
  <2> QED BY <2>1 DEF IsInjective
<1> QED BY <1>1, <1>2 DEF TableOK, NoRepetition

(* A key that a lookup, an Add or a Remove creates is a realm.               *)
LEMMA MentionOK ==
  ASSUME TableTypeOK, NEW t \in AddressType, NEW r \in Realm, Mention(t, r)
  PROVE  known' \in [RealmTypes -> SUBSET Realm]
BY DEF TableTypeOK, Mention

(* Adding a server lists it in one vector, at most once, and nowhere else.   *)
LEMMA AddServerFacts ==
  ASSUME TableOK, NEW s \in Entity, NEW t \in AddressType, NEW r \in Realm,
         s \notin Listed(t, r), AddServer(s, t, r)
  PROVE  /\ TableOK'
         /\ \A u \in AddressType, q \in Realm :
              ToSet(list'[u][q]) = IF u = t /\ q = Key(t, r)
                                   THEN ToSet(list[u][q]) \cup {s} ELSE ToSet(list[u][q])
<1> DEFINE k == Key(t, r)
<1>0. k \in Realm BY KeyInRealm
<1>1. /\ list[t][k] \in Seq(Entity) /\ IsInjective(list[t][k])
      /\ s \notin ToSet(list[t][k])
  BY <1>0 DEF TableOK, TableTypeOK, NoRepetition, Listed, Servers
<1>2. list' = [list EXCEPT ![t][k] = Append(list[t][k], s)]
  BY DEF AddServer
<1> HIDE DEF k
<1>3. /\ Append(list[t][k], s) \in Seq(Entity)
      /\ IsInjective(Append(list[t][k], s))
      /\ ToSet(Append(list[t][k], s)) = ToSet(list[t][k]) \cup {s}
  BY <1>1, AppendFresh
<1>4. list \in [AddressType -> [Realm -> Seq(Entity)]] BY DEF TableOK, TableTypeOK
<1>5. \A u \in AddressType, q \in Realm :
        list'[u][q] = IF u = t /\ q = k THEN Append(list[t][k], s) ELSE list[u][q]
  BY <1>0, <1>2, <1>4
<1>6. TableTypeOK'
  <2>1. list' \in [AddressType -> [Realm -> Seq(Entity)]] BY <1>0, <1>2, <1>3, <1>4
  <2>2. realmCursor' \in [RealmTypes -> Seq(Nat)]
    <3>1. realmCursor \in [RealmTypes -> Seq(Nat)] BY DEF TableOK, TableTypeOK
    <3>2. CASE realmCursor' = realmCursor BY <3>1, <3>2
    <3>3. CASE /\ t \in RealmTypes
               /\ realmCursor' = [realmCursor EXCEPT ![t] = Append(realmCursor[t], 0)]
      <4>1. Append(realmCursor[t], 0) \in Seq(Nat) BY <3>1, <3>3
      <4> QED BY <3>1, <3>3, <4>1
    <3> QED BY <3>2, <3>3 DEF AddServer, NeedsSlot
  <2>3. known' \in [RealmTypes -> SUBSET Realm]
    BY MentionOK DEF TableOK, AddServer
  <2> QED BY <2>1, <2>2, <2>3 DEF TableOK, TableTypeOK, AddServer
<1>7. NoRepetition' BY <1>3, <1>5 DEF TableOK, NoRepetition
<1> QED BY <1>3, <1>5, <1>6, <1>7 DEF TableOK, k

(* Removing a server touches one vector: the one of the realm it is given.   *)
LEMMA RemoveServerFacts ==
  ASSUME TableOK, NEW s \in Entity, NEW t \in AddressType, NEW r \in Realm,
         RemoveServer(t, s, r)
  PROVE  /\ TableOK'
         /\ \A u \in AddressType, q \in Realm :
              ToSet(list'[u][q]) = IF u = t /\ q = Key(t, r)
                                   THEN ToSet(list[u][q]) \ {s} ELSE ToSet(list[u][q])
<1> DEFINE k == Key(t, r)
           v == RemoveFirst(list[t][k], s)
<1>0. k \in Realm BY KeyInRealm
<1>1. list[t][k] \in Seq(Entity) /\ IsInjective(list[t][k])
  BY <1>0 DEF TableOK, TableTypeOK, NoRepetition
<1>2. list' = [list EXCEPT ![t][k] = v] BY DEF RemoveServer
<1> HIDE DEF k
<1>3. v \in Seq(Entity) /\ IsInjective(v) /\ ToSet(v) = ToSet(list[t][k]) \ {s}
  BY <1>1, RemoveFirstFacts
<1> HIDE DEF v
<1>4. list \in [AddressType -> [Realm -> Seq(Entity)]] BY DEF TableOK, TableTypeOK
<1>5. \A u \in AddressType, q \in Realm :
        list'[u][q] = IF u = t /\ q = k THEN v ELSE list[u][q]
  BY <1>0, <1>2, <1>4
<1>6. TableTypeOK'
  <2>1. list' \in [AddressType -> [Realm -> Seq(Entity)]] BY <1>0, <1>2, <1>3, <1>4
  <2>2. known' \in [RealmTypes -> SUBSET Realm]
    BY MentionOK DEF TableOK, RemoveServer
  <2> QED BY <2>1, <2>2 DEF TableOK, TableTypeOK, RemoveServer
<1>7. NoRepetition' BY <1>3, <1>5 DEF TableOK, NoRepetition
<1> QED BY <1>3, <1>5, <1>6, <1>7 DEF TableOK, k

(* Looking a server up changes no vector.                                    *)
LEMMA LookupFacts ==
  ASSUME TableOK, NEW t \in AddressType, NEW r \in Realm, GetNone(t, r) \/ GetServer(t, r)
  PROVE  TableOK' /\ list' = list
<1>0. AddressType \ RealmTypes = GlobalTypes BY TypeKinds
<1>1. list' = list /\ known' \in [RealmTypes -> SUBSET Realm]
  BY MentionOK DEF GetNone, GetServer, TableOK
<1>2. cursor' \in [GlobalTypes -> Nat] /\ realmCursor' \in [RealmTypes -> Seq(Nat)]
  <2>0. cursor \in [GlobalTypes -> Nat] /\ realmCursor \in [RealmTypes -> Seq(Nat)]
    BY DEF TableOK, TableTypeOK
  <2>1. CASE GetNone(t, r) BY <2>0, <2>1 DEF GetNone
  <2>2. CASE GetServer(t, r) /\ t \in RealmTypes
    <3> DEFINE w == Wrap(CursorOf(t, r) + 1, Len(Servers(t, r)))
    <3>1. /\ realmCursor' = [realmCursor EXCEPT ![t][r + 1] = w]
          /\ cursor' = cursor
          /\ r < Len(realmCursor[t])
      BY <2>2 DEF GetServer, CursorValid
    <3>2. realmCursor[t] \in Seq(Nat) /\ r + 1 \in 1 .. Len(realmCursor[t])
      BY <2>0, <2>2, <3>1, RealmAssumption
    <3>3. w \in Nat BY <2>0, <2>2, <3>2 DEF CursorOf, Wrap
    <3> HIDE DEF w
    <3>4. [realmCursor[t] EXCEPT ![r + 1] = w] \in Seq(Nat) BY <3>2, <3>3, ExceptSeq
    <3> QED BY <2>0, <2>2, <3>1, <3>4
  <2>3. CASE GetServer(t, r) /\ t \notin RealmTypes
    <3> DEFINE w == Wrap(CursorOf(t, r) + 1, Len(Servers(t, r)))
    <3>1. cursor' = [cursor EXCEPT ![t] = w] /\ realmCursor' = realmCursor
      BY <2>3 DEF GetServer
    <3>2. w \in Nat BY <1>0, <2>0, <2>3 DEF CursorOf, Wrap
    <3> HIDE DEF w
    <3> QED BY <2>0, <3>1, <3>2
  <2> QED BY <2>1, <2>2, <2>3
<1> QED BY <1>1, <1>2 DEF TableOK, TableTypeOK, NoRepetition
=============================================================================
