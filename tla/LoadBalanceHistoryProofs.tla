---------------------- MODULE LoadBalanceHistoryProofs ----------------------
(***************************************************************************)
(* For every set of servers and realms: a lookup leaves its vectors only   *)
(* for the reasons LookupSafe names, and a global list is a fair rotation  *)
(* of its members.                                                         *)
(***************************************************************************)
EXTENDS LoadBalanceHistory, LoadBalanceProofs, FiniteSetTheorems

-----------------------------------------------------------------------------
(* The inductive invariant.  LookupSafe says nothing about the states from   *)
(* which it is reached: that an index is inside its vector now follows from  *)
(* where Wrap left it the last time, and that the slot of a realm exists     *)
(* from a count of all realms that were ever mentioned.                      *)

(* Where Wrap leaves an index, and where a new slot starts.                  *)
IndexOK(i, v) == i = 0 \/ i < Len(v)

HistoryTyped ==
  /\ outOfRange \in BOOLEAN
  /\ early \in [RealmTypes -> SUBSET Realm]

(* The index of a vector that never lost an element, if it has one.          *)
GlobalIndicesOK ==
  \A t \in GlobalTypes : <<t, 0>> \notin shrunk => IndexOK(cursor[t], list[t][0])

RealmIndicesOK ==
  \A t \in RealmTypes, r \in Realm :
    <<t, r>> \notin shrunk /\ r < Len(realmCursor[t])
      => IndexOK(realmCursor[t][r + 1], list[t][r])

(* A vector of indices has one slot for each key that a registration made.   *)
SlotsCounted ==
  \A t \in RealmTypes :
    /\ IsFiniteSet(known[t])
    /\ early[t] \subseteq known[t]
    /\ t # "INSTANCE" => Len(realmCursor[t]) = Cardinality(known[t] \ early[t])

(* Nobody is listed under a realm without a key.                             *)
KeysKnown == \A t \in RealmTypes, r \in Realm : list[t][r] # <<>> => r \in known[t]

HInv == /\ TableOK
        /\ HistoryTyped
        /\ GlobalIndicesOK
        /\ RealmIndicesOK
        /\ SlotsCounted
        /\ KeysKnown

-----------------------------------------------------------------------------
(* Lemmas about the operations.                                              *)

(* Adding appends to one vector.                                             *)
LEMMA AddServerVectors ==
  ASSUME TableTypeOK, NEW s \in Entity, NEW t \in AddressType, NEW r \in Realm,
         AddServer(s, t, r)
  PROVE  \A u \in AddressType, q \in Realm :
           list'[u][q] = IF u = t /\ q = Key(t, r) THEN Append(list[u][q], s) ELSE list[u][q]
<1> DEFINE k == Key(t, r)
<1>1. k \in Realm BY KeyInRealm
<1>2. list' = [list EXCEPT ![t][k] = Append(list[t][k], s)] BY DEF AddServer
<1> HIDE DEF k
<1>3. list \in [AddressType -> [Realm -> Seq(Entity)]] BY DEF TableTypeOK
<1>4. \A u \in AddressType, q \in Realm :
        list'[u][q] = IF u = t /\ q = k THEN Append(list[t][k], s) ELSE list[u][q]
  BY <1>1, <1>2, <1>3
<1> QED BY <1>4 DEF k

(* Removing changes no vector but that of the default realm, and not even    *)
(* that one if the server is not in it.                                      *)
LEMMA RemoveServerVectors ==
  ASSUME TableTypeOK, NEW s \in Entity, NEW t \in AddressType, RemoveServer(t, s, 0)
  PROVE  \A u \in AddressType, q \in Realm :
           u # t \/ q # 0 \/ s \notin ToSet(list[t][0]) => list'[u][q] = list[u][q]
<1>1. Key(t, 0) = 0 /\ 0 \in Realm BY RealmAssumption DEF Key
<1> DEFINE v == RemoveFirst(list[t][0], s)
<1>2. list' = [list EXCEPT ![t][0] = v] BY <1>1 DEF RemoveServer
<1>3. list \in [AddressType -> [Realm -> Seq(Entity)]] BY DEF TableTypeOK
<1>4. s \notin ToSet(list[t][0]) => v = list[t][0]
  <2>1. list[t][0] \in Seq(Entity) BY <1>1, <1>3
  <2> DEFINE w == list[t][0]
  <2>2. DOMAIN w = 1 .. Len(w) BY <2>1
  <2> HIDE DEF w
  <2>3. s \notin ToSet(w) => ~ \E i \in 1 .. Len(w) : w[i] = s BY <2>2 DEF ToSet
  <2>4. s \notin ToSet(w) => RemoveFirst(w, s) = w BY <2>3 DEF RemoveFirst
  <2> QED BY <2>4 DEF w
<1> HIDE DEF v
<1> QED BY <1>1, <1>2, <1>3, <1>4

(* A key that a lookup or a removal creates does not count as registered.    *)
LEMMA EarlyKeys ==
  ASSUME HInv, NEW t \in AddressType, NEW r \in Realm, Mention(t, r), NoteNewKeys
  PROVE  /\ early' \in [RealmTypes -> SUBSET Realm]
         /\ \A u \in RealmTypes : /\ IsFiniteSet(known'[u])
                                  /\ known[u] \subseteq known'[u]
                                  /\ early'[u] \subseteq known'[u]
                                  /\ known'[u] \ early'[u] = known[u] \ early[u]
<1>1. /\ known \in [RealmTypes -> SUBSET Realm]
      /\ early \in [RealmTypes -> SUBSET Realm]
  BY DEF HInv, TableOK, TableTypeOK, HistoryTyped
<1>2. known' \in [RealmTypes -> SUBSET Realm]
  BY MentionOK DEF HInv, TableOK
<1>3. early' = [u \in RealmTypes |-> early[u] \cup (known'[u] \ known[u])]
  BY DEF NoteNewKeys
<1>4. early' \in [RealmTypes -> SUBSET Realm] BY <1>1, <1>2, <1>3
<1>5. ASSUME NEW u \in RealmTypes
      PROVE  /\ IsFiniteSet(known'[u])
             /\ known[u] \subseteq known'[u]
             /\ early'[u] \subseteq known'[u]
             /\ known'[u] \ early'[u] = known[u] \ early[u]
  <2>1. early[u] \subseteq known[u] /\ IsFiniteSet(known[u]) BY DEF HInv, SlotsCounted
  <2>2. known'[u] = known[u] \/ known'[u] = known[u] \cup {r} BY <1>1 DEF Mention
  <2>3. IsFiniteSet(known'[u]) BY <2>1, <2>2, FS_AddElement
  <2>4. early'[u] = early[u] \cup (known'[u] \ known[u]) BY <1>3
  <2> QED BY <2>1, <2>2, <2>3, <2>4
<1> QED BY <1>4, <1>5

-----------------------------------------------------------------------------
(* The invariant holds at first and under every operation.                   *)

(* An empty table.                                                           *)
LEMMA HistoryStarts == ASSUME HInit PROVE HInv
<1>1. TableInit /\ TableOK BY TableInitOK DEF HInit, LBInit
<1>2. HistoryTyped BY DEF HInit, LBInit, HistoryTyped
<1>3. GlobalIndicesOK BY <1>1 DEF TableInit, GlobalIndicesOK, IndexOK
<1>4. RealmIndicesOK
  BY <1>1, RealmAssumption DEF TableInit, RealmIndicesOK
<1>5. SlotsCounted
  <2>1. \A t \in RealmTypes : known[t] = {} /\ early[t] = {} /\ realmCursor[t] = <<>>
    BY <1>1 DEF TableInit, HInit
  <2>2. {} \ {} = {} /\ IsFiniteSet({}) /\ Cardinality({}) = 0 /\ Len(<<>>) = 0
    BY FS_EmptySet
  <2> QED BY <2>1, <2>2 DEF SlotsCounted
<1>6. KeysKnown BY <1>1, TypeKinds DEF TableInit, KeysKnown
<1> QED BY <1>1, <1>2, <1>3, <1>4, <1>5, <1>6 DEF HInv

(* A registration appends to a vector and may append an index.               *)
LEMMA RegisterKeeps ==
  ASSUME HInv, NEW s \in Entity, NEW t \in AddressType, NEW r \in Realm,
         HRegister(s, t, r)
  PROVE  HInv'
<1> DEFINE k == Key(t, r)
<1>0. /\ AddServer(s, t, r)
      /\ outOfRange' = outOfRange /\ shrunk' = shrunk /\ early' = early
      /\ TableOK /\ TableTypeOK
  BY DEF HRegister, Register, HInv, TableOK
<1>1. TableOK'
  <2>1. s \notin Listed(t, r) BY DEF HRegister, Register, AllListed
  <2> QED BY <1>0, <2>1, AddServerFacts
<1>2. \A u \in AddressType, q \in Realm :
        list'[u][q] = IF u = t /\ q = k THEN Append(list[u][q], s) ELSE list[u][q]
  BY <1>0, AddServerVectors
<1>3. \A u \in AddressType, q \in Realm :
        /\ list[u][q] \in Seq(Entity)
        /\ Len(list'[u][q]) >= Len(list[u][q])
  <2> SUFFICES ASSUME NEW u \in AddressType, NEW q \in Realm
               PROVE  list[u][q] \in Seq(Entity) /\ Len(list'[u][q]) >= Len(list[u][q])
    OBVIOUS
  <2> DEFINE v == list[u][q]
  <2>1. v \in Seq(Entity) BY <1>0 DEF TableTypeOK
  <2>2. list'[u][q] = v \/ list'[u][q] = Append(v, s) BY <1>2
  <2> HIDE DEF v
  <2>3. Len(list'[u][q]) >= Len(v) BY <2>1, <2>2
  <2> QED BY <2>1, <2>3 DEF v
<1>4. \A u \in AddressType, q \in Realm, i \in Nat :
        IndexOK(i, list[u][q]) => IndexOK(i, list'[u][q])
  <2>1. \A u \in AddressType, q \in Realm : Len(list[u][q]) \in Nat /\ Len(list'[u][q]) \in Nat
    BY <1>1, <1>3 DEF TableOK, TableTypeOK
  <2> QED BY <1>3, <2>1 DEF IndexOK
<1>5. HistoryTyped' BY <1>0 DEF HInv, HistoryTyped
<1>6. GlobalIndicesOK'
  <2>1. cursor' = cursor /\ cursor \in [GlobalTypes -> Nat]
    BY <1>0 DEF AddServer, TableTypeOK
  <2> QED BY <1>0, <1>4, <2>1, TypeKinds, RealmAssumption DEF HInv, GlobalIndicesOK
<1>7. realmCursor \in [RealmTypes -> Seq(Nat)] BY <1>0 DEF TableTypeOK
<1>8. \A u \in RealmTypes :
        realmCursor'[u] = IF u = t /\ NeedsSlot(t, r) THEN Append(realmCursor[u], 0)
                          ELSE realmCursor[u]
  BY <1>0, <1>7 DEF AddServer
<1>9. RealmIndicesOK'
  <2> SUFFICES ASSUME NEW u \in RealmTypes, NEW q \in Realm,
                      <<u, q>> \notin shrunk, q < Len(realmCursor'[u])
               PROVE  IndexOK(realmCursor'[u][q + 1], list'[u][q])
    BY <1>0 DEF RealmIndicesOK
  <2>1. q \in Nat /\ u \in AddressType BY RealmAssumption, TypeKinds
  <2>2. CASE q < Len(realmCursor[u])
    <3>1. IndexOK(realmCursor[u][q + 1], list[u][q])
      BY <2>2 DEF HInv, RealmIndicesOK
    <3>2. realmCursor'[u][q + 1] = realmCursor[u][q + 1] /\ realmCursor[u][q + 1] \in Nat
      <4>1. realmCursor[u] \in Seq(Nat) /\ q + 1 \in 1 .. Len(realmCursor[u])
        BY <1>7, <2>1, <2>2
      <4> DEFINE v == realmCursor[u]
      <4>2. realmCursor'[u] = v \/ realmCursor'[u] = Append(v, 0) BY <1>8
      <4> HIDE DEF v
      <4>3. v \in Seq(Nat) /\ q + 1 \in 1 .. Len(v) BY <4>1 DEF v
      <4>4. realmCursor'[u][q + 1] = v[q + 1] /\ v[q + 1] \in Nat BY <4>2, <4>3
      <4> QED BY <4>4 DEF v
    <3> QED BY <1>4, <2>1, <3>1, <3>2
  <2>3. CASE ~(q < Len(realmCursor[u]))
    <3>1. realmCursor[u] \in Seq(Nat) BY <1>7
    <3>2. realmCursor'[u] = Append(realmCursor[u], 0) BY <1>8, <2>3
    <3>3. realmCursor'[u][q + 1] = 0
      <4>1. q = Len(realmCursor[u]) BY <2>1, <2>3, <3>1, <3>2
      <4> QED BY <3>1, <3>2, <4>1
    <3> QED BY <3>3 DEF IndexOK
  <2> QED BY <2>2, <2>3
<1>10. SlotsCounted'
  <2> SUFFICES ASSUME NEW u \in RealmTypes
               PROVE  /\ IsFiniteSet(known'[u])
                      /\ early[u] \subseteq known'[u]
                      /\ u # "INSTANCE"
                           => Len(realmCursor'[u]) = Cardinality(known'[u] \ early[u])
    BY <1>0 DEF SlotsCounted
  <2>1. /\ IsFiniteSet(known[u])
        /\ early[u] \subseteq known[u]
        /\ u # "INSTANCE" => Len(realmCursor[u]) = Cardinality(known[u] \ early[u])
    BY DEF HInv, SlotsCounted
  <2>2. known'[u] = IF u = t THEN known[u] \cup {r} ELSE known[u]
    BY <1>0 DEF AddServer, Mention, TableTypeOK
  <2>3. IsFiniteSet(known'[u]) BY <2>1, <2>2, FS_AddElement
  <2>4. CASE u = t /\ r \notin known[u]
    <3>1. known'[u] \ early[u] = (known[u] \ early[u]) \cup {r} BY <2>1, <2>2, <2>4
    <3>2. IsFiniteSet(known[u] \ early[u]) BY <2>1, FS_Subset
    <3>3. Cardinality(known'[u] \ early[u]) = Cardinality(known[u] \ early[u]) + 1
      BY <2>4, <3>1, <3>2, FS_AddElement, SMTT(30)
    <3>4. u # "INSTANCE" => Len(realmCursor'[u]) = Len(realmCursor[u]) + 1
      <4> SUFFICES ASSUME u # "INSTANCE"
                   PROVE  Len(realmCursor'[u]) = Len(realmCursor[u]) + 1
        OBVIOUS
      <4>1. realmCursor[u] \in Seq(Nat) BY <1>7
      <4>2. realmCursor'[u] = Append(realmCursor[u], 0) BY <1>8, <2>4 DEF NeedsSlot
      <4> QED BY <4>1, <4>2
    <3> QED BY <2>1, <2>2, <2>3, <3>3, <3>4
  <2>5. CASE ~(u = t /\ r \notin known[u])
    <3>1. known'[u] = known[u] BY <2>2, <2>5
    <3>2. realmCursor'[u] = realmCursor[u] BY <1>8, <2>5 DEF NeedsSlot
    <3> QED BY <2>1, <3>1, <3>2
  <2> QED BY <2>4, <2>5
<1>11. KeysKnown'
  <2> SUFFICES ASSUME NEW u \in RealmTypes, NEW q \in Realm, list'[u][q] # <<>>
               PROVE  q \in known'[u]
    BY DEF KeysKnown
  <2>1. known'[u] = IF u = t THEN known[u] \cup {r} ELSE known[u]
    BY <1>0 DEF AddServer, Mention, TableTypeOK
  <2>2. CASE u = t /\ q = k BY <2>1, <2>2 DEF Key
  <2>3. CASE ~(u = t /\ q = k)
    <3>1. list[u][q] # <<>> BY <1>2, <2>3, TypeKinds
    <3> QED BY <2>1, <3>1 DEF HInv, KeysKnown
  <2> QED BY <2>2, <2>3
<1> QED BY <1>1, <1>5, <1>6, <1>9, <1>10, <1>11 DEF HInv

(* A removal leaves every index alone, and notes the vector it shrinks.      *)
LEMMA UnregisterKeeps ==
  ASSUME HInv, NEW s \in Entity, NEW t \in AddressType, HUnregister(s, t)
  PROVE  HInv'
<1>0. /\ RemoveServer(t, s, 0) /\ Mention(t, 0) /\ NoteNewKeys
      /\ outOfRange' = outOfRange /\ cursor' = cursor /\ realmCursor' = realmCursor
      /\ shrunk' = IF s \in Listed(t, 0) THEN shrunk \cup {<<t, 0>>} ELSE shrunk
      /\ TableOK /\ TableTypeOK /\ 0 \in Realm /\ Key(t, 0) = 0
  BY RealmAssumption DEF HUnregister, Unregister, RemoveServer, HInv, TableOK, Key
<1>1. TableOK' BY <1>0, RemoveServerFacts
<1>2. \A u \in AddressType, q \in Realm :
        <<u, q>> \notin shrunk' => list'[u][q] = list[u][q] /\ <<u, q>> \notin shrunk
  <2> SUFFICES ASSUME NEW u \in AddressType, NEW q \in Realm, <<u, q>> \notin shrunk'
               PROVE  list'[u][q] = list[u][q] /\ <<u, q>> \notin shrunk
    OBVIOUS
  <2>1. <<u, q>> \notin shrunk BY <1>0
  <2>2. u # t \/ q # 0 \/ s \notin ToSet(list[t][0]) BY <1>0 DEF Listed, Servers
  <2> QED BY <1>0, <2>1, <2>2, RemoveServerVectors
<1>3. /\ early' \in [RealmTypes -> SUBSET Realm]
      /\ \A u \in RealmTypes : /\ IsFiniteSet(known'[u])
                               /\ known[u] \subseteq known'[u]
                               /\ early'[u] \subseteq known'[u]
                               /\ known'[u] \ early'[u] = known[u] \ early[u]
  BY <1>0, EarlyKeys
<1>4. HistoryTyped' BY <1>0, <1>3 DEF HInv, HistoryTyped
<1>5. GlobalIndicesOK' BY <1>0, <1>2, TypeKinds DEF HInv, GlobalIndicesOK
<1>6. RealmIndicesOK' BY <1>0, <1>2, TypeKinds DEF HInv, RealmIndicesOK
<1>7. SlotsCounted' BY <1>0, <1>3 DEF HInv, SlotsCounted
<1>8. KeysKnown'
  <2> SUFFICES ASSUME NEW u \in RealmTypes, NEW q \in Realm, list'[u][q] # <<>>
               PROVE  q \in known'[u]
    BY DEF KeysKnown
  <2>1. CASE u = t /\ q = 0 BY <1>0, <2>1 DEF Mention, TableTypeOK
  <2>2. CASE u # t \/ q # 0
    <3>1. list'[u][q] = list[u][q] BY <1>0, <2>2, RemoveServerVectors, TypeKinds
    <3> QED BY <1>3, <3>1 DEF HInv, KeysKnown
  <2> QED BY <2>1, <2>2
<1> QED BY <1>1, <1>4, <1>5, <1>6, <1>7, <1>8 DEF HInv

(* A lookup moves one index, which Wrap leaves at 0 or inside the vector.    *)
LEMMA LookupKeeps ==
  ASSUME HInv, NEW t \in AddressType, NEW r \in Realm, HLookup(t, r)
  PROVE  HInv'
<1>0. /\ Lookup(t, r) /\ NoteNewKeys /\ shrunk' = shrunk
      /\ TableOK /\ TableTypeOK
  BY DEF HLookup, HInv, TableOK
<1>1. CASE GetOutOfRange(t, r) /\ outOfRange' = TRUE /\ UNCHANGED tableVars
  <2>1. /\ list' = list /\ known' = known /\ cursor' = cursor
        /\ realmCursor' = realmCursor
    BY <1>1 DEF tableVars
  <2>2. early \in [RealmTypes -> SUBSET Realm] BY DEF HInv, HistoryTyped
  <2>3. early' = early
    <3>1. early' = [u \in RealmTypes |-> early[u] \cup {}] BY <1>0, <2>1 DEF NoteNewKeys
    <3> QED BY <2>2, <3>1
  <2>4. HistoryTyped' BY <1>1, <2>2, <2>3 DEF HistoryTyped
  <2> QED
    BY <1>0, <2>1, <2>3, <2>4
    DEF HInv, TableOK, TableTypeOK, NoRepetition, GlobalIndicesOK, RealmIndicesOK,
        SlotsCounted, KeysKnown
<1>2. CASE (GetNone(t, r) \/ GetServer(t, r)) /\ UNCHANGED outOfRange
  <2>1. TableOK' /\ list' = list BY <1>0, <1>2, LookupFacts
  <2>2. Mention(t, r) BY <1>2 DEF GetNone, GetServer
  <2>3. /\ early' \in [RealmTypes -> SUBSET Realm]
        /\ \A u \in RealmTypes : /\ IsFiniteSet(known'[u])
                                 /\ known[u] \subseteq known'[u]
                                 /\ early'[u] \subseteq known'[u]
                                 /\ known'[u] \ early'[u] = known[u] \ early[u]
    BY <1>0, <2>2, EarlyKeys
  <2>4. HistoryTyped' BY <1>2, <2>3 DEF HInv, HistoryTyped
  <2>5. KeysKnown' BY <2>1, <2>3 DEF HInv, KeysKnown
  <2> DEFINE i == CursorOf(t, r)
             v == Servers(t, r)
             w == Wrap(i + 1, Len(v))
  <2>6. GetServer(t, r) => IndexOK(w, v)
    <3> SUFFICES ASSUME GetServer(t, r) PROVE IndexOK(w, v) OBVIOUS
    <3>1. v \in Seq(Entity) BY <1>0, KeyInRealm DEF Servers, TableTypeOK
    <3>2. i < Len(v) BY DEF GetServer, CursorValid
    <3>3. i \in Nat
      <4>1. CASE t \in RealmTypes
        <5>1. realmCursor[t] \in Seq(Nat) /\ r + 1 \in 1 .. Len(realmCursor[t])
          BY <1>0, <4>1, RealmAssumption DEF TableTypeOK, GetServer, CursorValid
        <5> QED BY <4>1, <5>1 DEF CursorOf
      <4>2. CASE t \notin RealmTypes BY <1>0, <4>2, TypeKinds DEF CursorOf, TableTypeOK
      <4> QED BY <4>1, <4>2
    <3> HIDE DEF i, v
    <3> QED BY <3>1, <3>2, <3>3 DEF IndexOK, Wrap
  <2>7. GlobalIndicesOK'
    <3>1. CASE cursor' = cursor BY <1>0, <2>1, <3>1 DEF HInv, GlobalIndicesOK
    <3>2. CASE GetServer(t, r) /\ t \in GlobalTypes /\ cursor' = [cursor EXCEPT ![t] = w]
      <4> SUFFICES ASSUME NEW u \in GlobalTypes, <<u, 0>> \notin shrunk
                   PROVE  IndexOK(cursor'[u], list[u][0])
        BY <1>0, <2>1 DEF GlobalIndicesOK
      <4>1. CASE u = t
        <5>1. v = list[u][0] BY <3>2, <4>1, TypeKinds DEF Servers, Key
        <5> HIDE DEF v, w
        <5>2. cursor'[u] = w BY <1>0, <3>2, <4>1 DEF TableTypeOK
        <5> QED BY <2>6, <3>2, <5>1, <5>2
      <4>2. CASE u # t
        <5> HIDE DEF w
        <5>1. cursor'[u] = cursor[u] BY <1>0, <3>2, <4>2 DEF TableTypeOK
        <5> QED BY <5>1 DEF HInv, GlobalIndicesOK
      <4> QED BY <4>1, <4>2
    <3> QED BY <1>2, <3>1, <3>2, TypeKinds DEF GetNone, GetServer
  <2>8. /\ RealmIndicesOK'
        /\ \A u \in RealmTypes : Len(realmCursor'[u]) = Len(realmCursor[u])
    <3>1. CASE realmCursor' = realmCursor
      BY <1>0, <2>1, <3>1 DEF HInv, RealmIndicesOK
    <3>2. CASE /\ GetServer(t, r) /\ t \in RealmTypes
               /\ realmCursor' = [realmCursor EXCEPT ![t][r + 1] = w]
      <4>0. v = list[t][r] BY <3>2 DEF Servers, Key
      <4> HIDE DEF v, w
      <4>1. realmCursor \in [RealmTypes -> Seq(Nat)] BY <1>0 DEF TableTypeOK
      <4>2. \A u \in RealmTypes :
              realmCursor'[u] = IF u = t THEN [realmCursor[u] EXCEPT ![r + 1] = w]
                                ELSE realmCursor[u]
        BY <3>2, <4>1
      <4>3. \A u \in RealmTypes : /\ realmCursor[u] \in Seq(Nat)
                                  /\ DOMAIN realmCursor'[u] = DOMAIN realmCursor[u]
        BY <4>1, <4>2
      <4>4. \A u \in RealmTypes : Len(realmCursor'[u]) = Len(realmCursor[u])
        <5>1. \A u \in RealmTypes : realmCursor'[u] \in Seq(Nat)
          BY <2>1 DEF TableOK, TableTypeOK
        <5> QED BY <4>3, <5>1
      <4>5. ASSUME NEW u \in RealmTypes, NEW q \in Realm,
                   <<u, q>> \notin shrunk, q < Len(realmCursor[u])
            PROVE  IndexOK(realmCursor'[u][q + 1], list[u][q])
        <5>1. q \in Nat /\ r \in Nat BY RealmAssumption
        <5>2. realmCursor[u] \in Seq(Nat) /\ q + 1 \in 1 .. Len(realmCursor[u])
          BY <4>3, <4>5, <5>1
        <5> DEFINE c == realmCursor[u]
        <5>5. c \in Seq(Nat) /\ q + 1 \in 1 .. Len(c) BY <5>2
        <5>6. realmCursor'[u] = IF u = t THEN [c EXCEPT ![r + 1] = w] ELSE c BY <4>2
        <5> HIDE DEF c
        <5>3. CASE u = t /\ q = r
          <6>1. realmCursor'[u][q + 1] = w BY <5>3, <5>5, <5>6
          <6> QED BY <2>6, <3>2, <4>0, <5>3, <6>1
        <5>4. CASE ~(u = t /\ q = r)
          <6>1. realmCursor'[u][q + 1] = c[q + 1] BY <5>1, <5>4, <5>5, <5>6
          <6>2. c[q + 1] = realmCursor[u][q + 1] BY DEF c
          <6> QED BY <6>2, <4>5, <6>1 DEF HInv, RealmIndicesOK
        <5> QED BY <5>3, <5>4
      <4> QED BY <1>0, <2>1, <4>4, <4>5 DEF RealmIndicesOK
    <3> QED BY <1>2, <3>1, <3>2 DEF GetNone, GetServer
  <2>9. SlotsCounted' BY <2>3, <2>8 DEF HInv, SlotsCounted
  <2> QED BY <2>1, <2>4, <2>5, <2>7, <2>8, <2>9 DEF HInv
<1> QED BY <1>0, <1>1, <1>2 DEF Lookup

(* The invariant under every step.                                           *)
LEMMA HistoryStep == ASSUME HInv, [HNext]_historyVars PROVE HInv'
<1>1. CASE UNCHANGED historyVars
  BY <1>1
  DEF historyVars, HInv, TableOK, TableTypeOK, NoRepetition, HistoryTyped, GlobalIndicesOK,
      RealmIndicesOK, SlotsCounted, KeysKnown
<1>2. ASSUME NEW t \in Types, NEW s \in Entity, NEW r \in Realm, HRegister(s, t, r)
      PROVE  HInv'
  BY <1>2, RegisterKeeps, TypesAssumption
<1>3. ASSUME NEW t \in Types, NEW s \in Entity, HUnregister(s, t) PROVE HInv'
  BY <1>3, UnregisterKeeps, TypesAssumption
<1>4. ASSUME NEW t \in Types, NEW r \in Realm, HLookup(t, r) PROVE HInv'
  BY <1>4, LookupKeeps, TypesAssumption
<1> QED BY <1>1, <1>2, <1>3, <1>4 DEF HNext

(* The invariant holds in every state of every run of the table.             *)
THEOREM HistoryInvariant == HSpec => []HInv
<1>1. HInit => HInv BY HistoryStarts
<1>2. HInv /\ [HNext]_historyVars => HInv' BY HistoryStep
<1> QED BY <1>1, <1>2, PTL DEF HSpec

-----------------------------------------------------------------------------
(* What follows for lookups.                                                 *)

(* The table's variables keep their types in every run.                      *)
THEOREM TableTypeCorrect == HSpec => []LBTypeOK
<1>1. HInv => LBTypeOK BY DEF HInv, TableOK, TableTypeOK, HistoryTyped, LBTypeOK
<1> QED BY <1>1, HistoryInvariant, PTL

(* A per-realm type whose realms came in order has a slot for every realm    *)
(* that lists a server: the keys up to that realm are all there, each made   *)
(* by a registration, and each registration of a new key added a slot.       *)
LEMMA SlotExists ==
  ASSUME HInv, NEW t \in RealmTypes, NEW r \in Realm, list[t][r] # <<>>, RealmsInOrder(t)
  PROVE  r < Len(realmCursor[t])
<1>1. /\ t # "INSTANCE" /\ early[t] = {}
      /\ \A q \in known[t] : 0 .. q \subseteq known[t]
  BY DEF RealmsInOrder
<1>2. r \in known[t] /\ r \in Nat BY RealmAssumption DEF HInv, KeysKnown
<1>3. IsFiniteSet(known[t]) /\ Len(realmCursor[t]) = Cardinality(known[t] \ {})
  BY <1>1 DEF HInv, SlotsCounted
<1>4. Cardinality(0 .. r) = r + 1 BY <1>2, FS_Interval
<1>5. Cardinality(0 .. r) <= Cardinality(known[t]) BY <1>1, <1>2, <1>3, FS_Subset
<1>6. Cardinality(known[t]) \in Nat BY <1>3, FS_CardinalityType
<1>7. known[t] \ {} = known[t] OBVIOUS
<1> QED BY <1>2, <1>3, <1>4, <1>5, <1>6, <1>7

(* The invariant contains the promise about lookups.                         *)
LEMMA InvariantImpliesSafe == ASSUME HInv PROVE LookupSafe
<1> SUFFICES ASSUME NEW t \in AddressType, NEW r \in Realm,
                    Servers(t, r) # <<>>, <<t, Key(t, r)>> \notin shrunk, RealmsInOrder(t)
             PROVE  CursorValid(t, r)
  BY DEF LookupSafe
<1>1. TableTypeOK BY DEF HInv, TableOK
<1>2. Key(t, r) \in Realm BY KeyInRealm
<1>3. list[t][Key(t, r)] \in Seq(Entity) /\ list[t][Key(t, r)] # <<>>
  BY <1>1, <1>2 DEF TableTypeOK, Servers
<1>4. \A i : IndexOK(i, list[t][Key(t, r)]) => i < Len(list[t][Key(t, r)])
  <2> DEFINE v == list[t][Key(t, r)]
  <2> HIDE DEF v
  <2>1. v \in Seq(Entity) /\ v # <<>> BY <1>3 DEF v
  <2>2. Len(v) > 0 BY <2>1
  <2>3. \A i : IndexOK(i, v) => i < Len(v) BY <2>2 DEF IndexOK
  <2> QED BY <2>3 DEF v
<1>5. CASE t \in RealmTypes
  <2>1. Key(t, r) = r BY <1>5 DEF Key
  <2>2. r < Len(realmCursor[t]) BY <1>3, <1>5, <2>1, SlotExists
  <2>3. IndexOK(realmCursor[t][r + 1], list[t][r])
    BY <1>5, <2>1, <2>2 DEF HInv, RealmIndicesOK
  <2> QED BY <1>4, <1>5, <2>1, <2>2, <2>3 DEF CursorValid, CursorOf, Servers
<1>6. CASE t \notin RealmTypes
  <2>1. Key(t, r) = 0 /\ t \in GlobalTypes BY <1>6, TypeKinds DEF Key
  <2>2. IndexOK(cursor[t], list[t][0]) BY <2>1 DEF HInv, GlobalIndicesOK
  <2> QED BY <1>4, <1>6, <2>1, <2>2 DEF CursorValid, CursorOf, Servers
<1> QED BY <1>5, <1>6

(* A lookup leaves its vectors only after a removal from the vector it       *)
(* reads, for a type whose realms came out of order, or for INSTANCE.        *)
THEOREM LookupsAreSafe == HSpec => []LookupSafe
<1>1. HInv => LookupSafe BY InvariantImpliesSafe
<1> QED BY <1>1, HistoryInvariant, PTL

-----------------------------------------------------------------------------
(* The watched list refines Rotation.                                        *)

(* The watched vector, and those at or behind an index.                      *)
Watch == list[Watched][0]

Behind(i, v) == { v[j] : j \in i + 1 .. Len(v) }

(* What the mapping says in terms of the watched vector, before a step.      *)
LEMMA WatchedMapping ==
  /\ \A r : Servers(Watched, r) = Watch /\ Listed(Watched, r) = ToSet(Watch)
  /\ WaitingNow = IF <<Watched, 0>> \in shrunk THEN {} ELSE Behind(cursor[Watched], Watch)
<1>1. \A r : Key(Watched, r) = 0 BY WatchedAssumption, TypeKinds DEF Key
<1>2. \A r : Servers(Watched, r) = Watch BY <1>1 DEF Servers, Watch
<1>3. \A r : Listed(Watched, r) = ToSet(Watch) BY <1>2 DEF Listed
<1> DEFINE v == Servers(Watched, 0)
<1>4. WaitingNow = IF <<Watched, 0>> \in shrunk THEN {} ELSE Behind(cursor[Watched], v)
  BY DEF WaitingNow, Behind
<1>5. v = Watch BY <1>2
<1> HIDE DEF v
<1> QED BY <1>2, <1>3, <1>4, <1>5

(* The same after a step.                                                    *)
LEMMA WatchedMappingNext ==
  /\ Watch' = list'[Watched][0]
  /\ Listed(Watched, 0)' = ToSet(Watch')
  /\ WaitingNow' = IF <<Watched, 0>> \in shrunk' THEN {} ELSE Behind(cursor'[Watched], Watch')
<1>1. \A r : Key(Watched, r) = 0 BY WatchedAssumption, TypeKinds DEF Key
<1>2. Servers(Watched, 0)' = Watch' BY <1>1 DEF Servers, Watch
<1>3. Listed(Watched, 0)' = ToSet(Watch') BY <1>2 DEF Listed
<1> DEFINE v == Servers(Watched, 0)'
<1>4. WaitingNow' = IF <<Watched, 0>> \in shrunk' THEN {} ELSE Behind(cursor'[Watched], v)
  BY DEF WaitingNow, Behind
<1>5. v = Watch' BY <1>2
<1> HIDE DEF v
<1> QED BY <1>3, <1>4, <1>5 DEF Watch

(* What the invariant says of the watched vector.                            *)
LEMMA WatchedFacts ==
  ASSUME HInv
  PROVE  /\ Watched \in AddressType /\ Watched \notin RealmTypes /\ 0 \in Realm
         /\ Watch \in Seq(Entity) /\ IsInjective(Watch)
         /\ cursor[Watched] \in Nat
         /\ <<Watched, 0>> \notin shrunk => IndexOK(cursor[Watched], Watch)
<1>1. Watched \in AddressType /\ Watched \notin RealmTypes /\ 0 \in Realm
  BY WatchedAssumption, RealmAssumption, TypeKinds
<1>3. Watch \in Seq(Entity) /\ IsInjective(Watch)
  BY <1>1 DEF HInv, TableOK, TableTypeOK, NoRepetition, Watch
<1>4. cursor[Watched] \in Nat BY WatchedAssumption DEF HInv, TableOK, TableTypeOK
<1>5. <<Watched, 0>> \notin shrunk => IndexOK(cursor[Watched], Watch)
  BY WatchedAssumption DEF HInv, GlobalIndicesOK, Watch
<1> QED BY <1>1, <1>3, <1>4, <1>5

(* A newcomer waits behind those who wait.                                   *)
LEMMA BehindAppend ==
  ASSUME NEW S, NEW v \in Seq(S), NEW s \in S, NEW i \in Nat, IndexOK(i, v)
  PROVE  Behind(i, Append(v, s)) = Behind(i, v) \cup {s}
<1> DEFINE w == Append(v, s)
           n == Len(v)
<1>1. /\ n \in Nat /\ Len(w) = n + 1 /\ w[n + 1] = s
      /\ \A j \in 1 .. n : w[j] = v[j]
      /\ i <= n
  BY DEF IndexOK
<1> HIDE DEF w, n
<1>2. \A j \in i + 1 .. n + 1 : j = n + 1 \/ (j \in i + 1 .. n /\ w[j] = v[j])
  BY <1>1
<1>3. \A j \in i + 1 .. n : j \in i + 1 .. n + 1 /\ w[j] = v[j] BY <1>1
<1>4. n + 1 \in i + 1 .. n + 1 BY <1>1
<1>5. { w[j] : j \in i + 1 .. n + 1 } = { v[j] : j \in i + 1 .. n } \cup {s}
  BY <1>1, <1>2, <1>3, <1>4
<1> QED BY <1>1, <1>5 DEF Behind, w, n

(* The one at the index is served, and does not wait afterwards.             *)
LEMMA BehindNext ==
  ASSUME NEW S, NEW v \in Seq(S), IsInjective(v), NEW i \in 0 .. Len(v) - 1
  PROVE  /\ v[i + 1] \in Behind(i, v)
         /\ Behind(i + 1, v) = Behind(i, v) \ {v[i + 1]}
         /\ Behind(i, v) = {v[i + 1]} <=> i + 1 = Len(v)
         /\ Behind(0, v) = ToSet(v)
<1>1. Len(v) \in Nat /\ DOMAIN v = 1 .. Len(v) /\ i + 1 \in i + 1 .. Len(v)
  OBVIOUS
<1>2. \A j, k \in 1 .. Len(v) : v[j] = v[k] => j = k BY <1>1 DEF IsInjective
<1>3. v[i + 1] \in Behind(i, v) BY <1>1 DEF Behind
<1>4. Behind(i + 1, v) = Behind(i, v) \ {v[i + 1]}
  <2>1. \A j \in i + 1 .. Len(v) : j = i + 1 \/ j \in (i + 1) + 1 .. Len(v) BY <1>1
  <2>2. \A j \in (i + 1) + 1 .. Len(v) : j \in i + 1 .. Len(v) /\ v[j] # v[i + 1]
    BY <1>1, <1>2
  <2> QED BY <2>1, <2>2 DEF Behind
<1>5. Behind(i, v) = {v[i + 1]} <=> i + 1 = Len(v)
  <2>1. CASE i + 1 = Len(v)
    <3>1. \A j \in i + 1 .. Len(v) : j = i + 1 BY <1>1, <2>1
    <3> QED BY <1>1, <2>1, <3>1 DEF Behind
  <2>2. CASE i + 1 # Len(v)
    <3>1. i + 2 \in i + 1 .. Len(v) /\ i + 2 \in 1 .. Len(v) /\ i + 1 \in 1 .. Len(v)
      <4> DEFINE n == Len(v)
      <4>1. n \in Nat /\ i \in 0 .. n - 1 /\ i + 1 # n BY <1>1, <2>2
      <4> HIDE DEF n
      <4>2. i + 2 \in i + 1 .. n /\ i + 2 \in 1 .. n /\ i + 1 \in 1 .. n BY <4>1
      <4> QED BY <4>2 DEF n
    <3>2. v[i + 2] # v[i + 1]
      <4>1. i + 2 # i + 1 OBVIOUS
      <4> QED BY <1>2, <3>1, <4>1
    <3> QED BY <2>2, <3>1, <3>2 DEF Behind
  <2> QED BY <2>1, <2>2
<1>6. Behind(0, v) = ToSet(v) BY <1>1 DEF Behind, ToSet
<1> QED BY <1>3, <1>4, <1>5, <1>6

(* The empty table is an empty rotation.                                     *)
LEMMA RotationStarts == ASSUME HInit PROVE R!Init
<1>1. HInv BY HistoryStarts
<1>2. Watch = <<>> /\ cursor[Watched] = 0 /\ shrunk = {} /\ answer = NoServer
  BY <1>1, WatchedFacts, WatchedAssumption DEF HInit, LBInit, TableInit, Watch
<1>3. ToSet(Watch) = {} /\ Behind(0, Watch) = {} BY <1>2 DEF ToSet, Behind
<1> QED BY <1>1, <1>2, <1>3, WatchedMapping DEF R!Init

(* What leaves the watched list and its index alone is a stutter, unless the *)
(* answer changes.                                                           *)
LEMMA RotationStutters ==
  ASSUME list'[Watched][0] = list[Watched][0],
         cursor'[Watched] = cursor[Watched],
         <<Watched, 0>> \in shrunk' <=> <<Watched, 0>> \in shrunk,
         answer' = answer
  PROVE  UNCHANGED R!rotVars
<1>1. Watch' = Watch BY DEF Watch
<1>2. Listed(Watched, 0)' = Listed(Watched, 0)
  BY <1>1, WatchedMapping, WatchedMappingNext
<1>3. WaitingNow' = WaitingNow BY <1>1, WatchedMapping, WatchedMappingNext
<1> QED BY <1>2, <1>3 DEF R!rotVars

(* A registration of the watched type is a Join.                             *)
LEMMA RegisterJoins ==
  ASSUME HInv, NEW s \in Entity, NEW t \in AddressType, NEW r \in Realm,
         HRegister(s, t, r)
  PROVE  [R!Next]_R!rotVars
<1>0. /\ AddServer(s, t, r) /\ cursor' = cursor /\ shrunk' = shrunk /\ answer' = answer
      /\ TableTypeOK /\ Watched \in AddressType /\ 0 \in Realm
  BY WatchedFacts DEF HRegister, Register, AddServer, HInv, TableOK
<1>1. CASE t # Watched
  <2>1. list'[Watched][0] = list[Watched][0] BY <1>0, <1>1, AddServerVectors
  <2> QED BY <1>0, <2>1, RotationStutters
<1>2. CASE t = Watched
  <2>1. Key(t, r) = 0 BY <1>2, WatchedFacts DEF Key
  <2>2. Watch' = Append(Watch, s)
    <3>1. \A u \in AddressType, q \in Realm :
            list'[u][q] = IF u = t /\ q = Key(t, r) THEN Append(list[u][q], s) ELSE list[u][q]
      BY <1>0, AddServerVectors
    <3>2. list'[Watched][0] = Append(list[Watched][0], s) BY <1>0, <1>2, <2>1, <3>1
    <3> QED BY <3>2 DEF Watch
  <2>3. s \notin Listed(t, r) BY <1>2, WatchedFacts DEF HRegister, Register, AllListed
  <2>4. s \notin ToSet(Watch) BY <1>2, <2>3, WatchedMapping
  <2>5. ToSet(Watch') = ToSet(Watch) \cup {s} BY <2>2, <2>4, AppendFresh, WatchedFacts
  <2>6. <<Watched, 0>> \notin shrunk =>
          Behind(cursor[Watched], Watch') = Behind(cursor[Watched], Watch) \cup {s}
    BY <2>2, BehindAppend, WatchedFacts
  <2>7. R!Join(s)
    <3>1. s \in Entity \ Listed(Watched, 0) BY <2>4, WatchedMapping
    <3>2. Listed(Watched, 0)' = Listed(Watched, 0) \cup {s}
      BY <2>5, WatchedMapping, WatchedMappingNext
    <3>3. WaitingNow' = IF <<Watched, 0>> \notin shrunk THEN WaitingNow \cup {s} ELSE {}
      BY <1>0, <2>6, WatchedMapping, WatchedMappingNext
    <3> QED BY <1>0, <3>1, <3>2, <3>3 DEF R!Join
  <2> QED BY <2>7 DEF R!Next
<1> QED BY <1>1, <1>2

(* A removal from the watched list is a Leave.                               *)
LEMMA UnregisterLeaves ==
  ASSUME HInv, NEW s \in Entity, NEW t \in AddressType, HUnregister(s, t)
  PROVE  [R!Next]_R!rotVars
<1>0. /\ RemoveServer(t, s, 0) /\ cursor' = cursor /\ answer' = answer
      /\ shrunk' = IF s \in Listed(t, 0) THEN shrunk \cup {<<t, 0>>} ELSE shrunk
      /\ TableOK /\ TableTypeOK /\ Watched \in AddressType /\ 0 \in Realm
  BY WatchedFacts DEF HUnregister, Unregister, RemoveServer, HInv, TableOK
<1>1. CASE t # Watched
  <2>1. list'[Watched][0] = list[Watched][0] BY <1>0, <1>1, RemoveServerVectors
  <2>2. <<Watched, 0>> \in shrunk' <=> <<Watched, 0>> \in shrunk BY <1>0, <1>1
  <2> QED BY <1>0, <2>1, <2>2, RotationStutters
<1>2. CASE t = Watched
  <2>1. s \in Listed(Watched, 0)
    BY <1>2, WatchedMapping DEF HUnregister, Unregister
  <2>2. Key(t, 0) = 0 BY <1>2, WatchedFacts DEF Key
  <2>3. ToSet(list'[Watched][0]) = ToSet(list[Watched][0]) \ {s}
    <3>1. \A u \in AddressType, q \in Realm :
            ToSet(list'[u][q]) = IF u = t /\ q = Key(t, 0)
                                 THEN ToSet(list[u][q]) \ {s} ELSE ToSet(list[u][q])
      BY <1>0, RemoveServerFacts
    <3> QED BY <1>0, <1>2, <2>2, <3>1
  <2>4. <<Watched, 0>> \in shrunk' BY <1>0, <1>2, <2>1
  <2>5. R!Leave(s)
    <3>1. Listed(Watched, 0)' = Listed(Watched, 0) \ {s}
      BY <2>3, WatchedMapping, WatchedMappingNext DEF Watch
    <3>2. WaitingNow' = {} BY <2>4, WatchedMappingNext
    <3>3. (<<Watched, 0>> \notin shrunk)' = FALSE BY <2>4
    <3> QED BY <1>0, <2>1, <3>1, <3>2, <3>3 DEF R!Leave
  <2> QED BY <2>5 DEF R!Next
<1> QED BY <1>1, <1>2

(* A lookup in the watched list serves the one at the index, or nobody.      *)
LEMMA LookupServes ==
  ASSUME HInv, NEW t \in AddressType, NEW r \in Realm, ~outOfRange, HLookup(t, r)
  PROVE  [R!Next]_R!rotVars
<1>0. /\ Lookup(t, r) /\ shrunk' = shrunk
      /\ answer' = IF t # Watched \/ outOfRange' THEN answer
                   ELSE IF Servers(t, r) = <<>> THEN NoServer ELSE Picked(t, r)
      /\ TableTypeOK
  BY DEF HLookup, HInv, TableOK
<1>1. CASE GetOutOfRange(t, r) /\ outOfRange' = TRUE /\ UNCHANGED tableVars
  <2>1. list' = list /\ cursor' = cursor /\ answer' = answer
    BY <1>0, <1>1 DEF tableVars
  <2> QED BY <1>0, <2>1, RotationStutters
<1>2. CASE t # Watched /\ (GetNone(t, r) \/ GetServer(t, r))
  <2>1. list' = list /\ answer' = answer BY <1>0, <1>2 DEF GetNone, GetServer
  <2>2. cursor'[Watched] = cursor[Watched]
    <3>1. cursor \in [GlobalTypes -> Nat] BY <1>0 DEF TableTypeOK
    <3>2. \/ cursor' = cursor
          \/ \E w : cursor' = [cursor EXCEPT ![t] = w]
      BY <1>2 DEF GetNone, GetServer
    <3> QED BY <1>2, <3>1, <3>2, WatchedAssumption
  <2> QED BY <1>0, <2>1, <2>2, RotationStutters
<1>3. CASE t = Watched /\ GetNone(t, r) /\ outOfRange' = outOfRange
  <2>1. Watch = <<>> BY <1>3, WatchedMapping DEF GetNone
  <2>2. list' = list /\ cursor' = cursor /\ answer' = NoServer
    BY <1>0, <1>3 DEF GetNone
  <2>3. R!ServeNobody
    <3>1. Listed(Watched, 0) = {} BY <2>1, WatchedMapping DEF ToSet
    <3>2. Watch' = Watch BY <2>2 DEF Watch
    <3>3. Listed(Watched, 0)' = Listed(Watched, 0) /\ WaitingNow' = WaitingNow
      BY <1>0, <2>2, <3>2, WatchedMapping, WatchedMappingNext
    <3> QED BY <1>0, <2>2, <3>1, <3>3 DEF R!ServeNobody
  <2> QED BY <2>3 DEF R!Next
<1>4. CASE t = Watched /\ GetServer(t, r) /\ outOfRange' = outOfRange
  <2> DEFINE i == cursor[Watched]
             s == Watch[i + 1]
  <2>1. Servers(t, r) = Watch /\ CursorOf(t, r) = i /\ Watched \notin RealmTypes
    BY <1>4, WatchedMapping, WatchedFacts DEF CursorOf
  <2>2. /\ Watch # <<>> /\ i < Len(Watch) /\ list' = list
        /\ cursor' = [cursor EXCEPT ![Watched] = Wrap(i + 1, Len(Watch))]
        /\ answer' = s
    BY <1>0, <1>4, <2>1 DEF GetServer, CursorValid, Picked
  <2>3. cursor'[Watched] = IF i + 1 = Len(Watch) THEN 0 ELSE i + 1
    BY <1>0, <2>2, WatchedAssumption DEF TableTypeOK, Wrap
  <2>4. Watch' = Watch BY <2>2 DEF Watch
  <2>5. i \in 0 .. Len(Watch) - 1 /\ Watch \in Seq(Entity) /\ IsInjective(Watch)
    BY <2>2, WatchedFacts
  <2> HIDE DEF i
  <2>6. /\ s \in Behind(i, Watch)
        /\ Behind(i + 1, Watch) = Behind(i, Watch) \ {s}
        /\ Behind(i, Watch) = {s} <=> i + 1 = Len(Watch)
        /\ Behind(0, Watch) = ToSet(Watch)
    BY <2>5, BehindNext
  <2>7. s \in ToSet(Watch) /\ s \in Entity
    <3>1. i + 1 \in 1 .. Len(Watch) BY <2>5
    <3> QED BY <2>5, <3>1 DEF ToSet
  <2> HIDE DEF s
  <2>8. Listed(Watched, 0) = ToSet(Watch) /\ Listed(Watched, 0)' = Listed(Watched, 0)
    BY <2>4, WatchedMapping, WatchedMappingNext
  <2>9. R!Serve(s)
    <3>1. <<Watched, 0>> \notin shrunk => s \in WaitingNow
      BY <2>6, WatchedMapping DEF i
    <3>2. WaitingNow' = IF ~(<<Watched, 0>> \notin shrunk) THEN {}
                        ELSE IF WaitingNow = {s} THEN Listed(Watched, 0)
                        ELSE WaitingNow \ {s}
      <4>1. CASE <<Watched, 0>> \in shrunk BY <1>0, <4>1, WatchedMappingNext
      <4>2. CASE <<Watched, 0>> \notin shrunk
        <5>1. WaitingNow = Behind(i, Watch) BY <4>2, WatchedMapping DEF i
        <5>2. WaitingNow' = Behind(cursor'[Watched], Watch)
          BY <1>0, <2>4, <4>2, WatchedMappingNext
        <5> QED BY <2>3, <2>6, <2>8, <4>2, <5>1, <5>2
      <4> QED BY <4>1, <4>2
    <3> QED BY <1>0, <2>2, <2>7, <2>8, <3>1, <3>2 DEF R!Serve
  <2> QED BY <2>7, <2>9 DEF R!Next
<1> QED BY <1>0, <1>1, <1>2, <1>3, <1>4 DEF Lookup

(* Every step of the table is a step of the rotation, or changes nothing of  *)
(* it.                                                                       *)
LEMMA RotationStep == ASSUME HInv, [HNext]_historyVars PROVE [R!Next]_R!rotVars
<1>1. CASE UNCHANGED historyVars
  BY <1>1, RotationStutters DEF historyVars
<1>2. ASSUME NEW t \in Types, NEW s \in Entity, NEW r \in Realm, HRegister(s, t, r)
      PROVE  [R!Next]_R!rotVars
  BY <1>2, RegisterJoins, TypesAssumption
<1>3. ASSUME NEW t \in Types, NEW s \in Entity, HUnregister(s, t)
      PROVE  [R!Next]_R!rotVars
  BY <1>3, UnregisterLeaves, TypesAssumption
<1>4. ASSUME ~outOfRange, NEW t \in Types, NEW r \in Realm, HLookup(t, r)
      PROVE  [R!Next]_R!rotVars
  BY <1>4, LookupServes, TypesAssumption
<1> QED BY <1>1, <1>2, <1>3, <1>4 DEF HNext

(* The global lists of the table hand out each member once per round, admit  *)
(* newcomers to the round they join, and after a removal still hand out      *)
(* members only, as long as lookups stay inside their vectors.               *)
THEOREM RotationIsFair == HSpec => FairRotation
<1>1. HInit => R!Init BY RotationStarts
<1>2. HInv /\ [HNext]_historyVars => [R!Next]_R!rotVars BY RotationStep
<1> QED BY <1>1, <1>2, HistoryInvariant, PTL DEF HSpec, FairRotation, R!Spec
=============================================================================
