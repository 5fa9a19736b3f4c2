---------------------------- MODULE LoadBalance ----------------------------
(***************************************************************************)
(* LoadBalanceSingleton: the service's table of internal servers.          *)
(* (src/ECS/Components/Network/LoadBalanceSingleton.h)                     *)
(*                                                                         *)
(* A server is listed under its address type.  Four types have one vector  *)
(* and one round-robin index each; the other three have one vector per     *)
(* realm, in a map keyed by realm id, and a vector of round-robin indices  *)
(* that is itself indexed by realm id.  A listed ServerInformation is      *)
(* represented by the entity it holds: type, realm, address and port never *)
(* change while the entity lives.                                          *)
(*                                                                         *)
(* The operations are actions on the table's own variables, so that the    *)
(* module Service can use them inside its handlers; LBSpec runs them alone *)
(* under the contract their callers keep.                                  *)
(***************************************************************************)
EXTENDS SequencesExt

CONSTANTS Entity,   \* registry entities, one per connection; any may register as a server
          Realm,    \* realm ids in use; 0 is the default argument of Remove
          Types     \* address types that servers announce (all of them, or fewer as a bound)

GlobalTypes == {"AUTH", "LOADBALANCE", "REGION", "CHAT"}
RealmTypes  == {"REALM", "WORLD", "INSTANCE"}
AddressType == GlobalTypes \cup RealmTypes

ASSUME RealmAssumption == Realm \subseteq Nat /\ 0 \in Realm
ASSUME TypesAssumption == Types \subseteq AddressType

VARIABLES
  list,         \* list[type][realm]: the vector of servers (global types use realm 0)
  known,        \* known[type]: the keys present in the map of a per-realm type
  cursor,       \* cursor[type]: the round-robin index of a global type
  realmCursor,  \* realmCursor[type]: the vector of indices of a per-realm type
  outOfRange    \* an index was used outside its vector (undefined from there on)

tableVars == <<list, known, cursor, realmCursor>>
LBvars == <<list, known, cursor, realmCursor, outOfRange>>

-----------------------------------------------------------------------------
(* Reading the table.  Vectors are indexed from 0 in the code, from 1 here. *)

Key(t, r) == IF t \in RealmTypes THEN r ELSE 0

Servers(t, r) == list[t][Key(t, r)]

Listed(t, r) == ToSet(Servers(t, r))

(* GetServerInformations: every vector of every type, as a set. *)
AllListed == UNION { Listed(t, r) : t \in AddressType, r \in Realm }

CursorOf(t, r) == IF t \in RealmTypes THEN realmCursor[t][r + 1] ELSE cursor[t]

(* Both vector accesses of Get<type> are inside their vectors. *)
CursorValid(t, r) ==
  /\ t \in RealmTypes => r < Len(realmCursor[t])
  /\ CursorOf(t, r) < Len(Servers(t, r))

Picked(t, r) == Servers(t, r)[CursorOf(t, r) + 1]

(* operator[] on a map creates the key it does not find. *)
Mention(t, r) ==
  known' = IF t \in RealmTypes THEN [known EXCEPT ![t] = @ \cup {r}] ELSE known

-----------------------------------------------------------------------------
TableInit ==
  /\ list = [t \in AddressType |-> [r \in Realm |-> <<>>]]
  /\ known = [t \in RealmTypes |-> {}]
  /\ cursor = [t \in GlobalTypes |-> 0]
  /\ realmCursor = [t \in RealmTypes |-> <<>>]

(* Mutant: one of the per-realm types is forgotten. *)
NeedsSlotForRealmOnly(t, r) == t = "REALM" /\ r \notin known[t]

(* A realm that has no key yet gets one more index slot; INSTANCE never does. *)
NeedsSlot(t, r) == t \in RealmTypes \ {"INSTANCE"} /\ r \notin known[t]

(* Mutant: the switch has no case for load balancers. *)
AddServerButBalancers(s, t, r) ==
  /\ list' = IF t = "LOADBALANCE" THEN list ELSE [list EXCEPT ![t][Key(t, r)] = Append(@, s)]
  /\ Mention(t, r)
  /\ UNCHANGED <<cursor, realmCursor>>

(* Add<type>(info).  The new slot is at the end of the index vector, whatever *)
(* the id of the realm.                                                       *)
AddServer(s, t, r) ==
  /\ list' = [list EXCEPT ![t][Key(t, r)] = Append(@, s)]
  /\ realmCursor' = IF NeedsSlot(t, r)
                    THEN [realmCursor EXCEPT ![t] = Append(@, 0)]
                    ELSE realmCursor
  /\ Mention(t, r)
  /\ UNCHANGED cursor

(* Mutant: the index of a global type moves back without a look at zero. *)
RemoveServerMovesBack(t, s, r) ==
  /\ list' = [list EXCEPT ![t][Key(t, r)] = RemoveFirst(@, s)]
  /\ Mention(t, r)
  /\ cursor' = IF t \in GlobalTypes THEN [cursor EXCEPT ![t] = @ - 1] ELSE cursor
  /\ UNCHANGED realmCursor

(* Mutant: the first element is erased, not the one that matches. *)
RemoveServerAtBegin(t, s, r) ==
  /\ list' = [list EXCEPT ![t][Key(t, r)] = IF @ = <<>> THEN @ ELSE Tail(@)]
  /\ Mention(t, r)
  /\ UNCHANGED <<cursor, realmCursor>>

(* Mutant: the switch has no case for load balancers. *)
RemoveServerButBalancers(t, s, r) ==
  /\ list' = IF t = "LOADBALANCE" THEN list
             ELSE [list EXCEPT ![t][Key(t, r)] = RemoveFirst(@, s)]
  /\ Mention(t, r)
  /\ UNCHANGED <<cursor, realmCursor>>

(* Remove(type, entity, realmId): erases the first match, moves no index. *)
RemoveServer(t, s, r) ==
  /\ list' = [list EXCEPT ![t][Key(t, r)] = RemoveFirst(@, s)]
  /\ Mention(t, r)
  /\ UNCHANGED <<cursor, realmCursor>>

(* Get<type>(info, realm) returning false: the vector is empty. *)
GetNone(t, r) ==
  /\ Servers(t, r) = <<>>
  /\ Mention(t, r)
  /\ UNCHANGED <<list, cursor, realmCursor>>

(* Mutant: the index wraps one step late. *)
WrapLate(i, size) == IF i > size THEN 0 ELSE i

(* "Wrap index around if needed". *)
Wrap(i, size) == IF i = size THEN 0 ELSE i

(* Get<type>(info, realm) returning Picked(t, r): the index moves on. *)
GetServer(t, r) ==
  /\ Servers(t, r) # <<>>
  /\ CursorValid(t, r)
  /\ LET next == Wrap(CursorOf(t, r) + 1, Len(Servers(t, r)))
     IN IF t \in RealmTypes
        THEN /\ realmCursor' = [realmCursor EXCEPT ![t][r + 1] = next]
             /\ UNCHANGED cursor
        ELSE /\ cursor' = [cursor EXCEPT ![t] = next]
             /\ UNCHANGED realmCursor
  /\ Mention(t, r)
  /\ UNCHANGED list

(* Get<type>(info, realm) on a non-empty vector with an index outside its    *)
(* vector reads, and for a per-realm type writes, memory that is not there.  *)
GetOutOfRange(t, r) ==
  /\ Servers(t, r) # <<>>
  /\ ~CursorValid(t, r)

-----------------------------------------------------------------------------
(* The table alone, called the way the handlers call it: an entity is added  *)
(* at most once while it is listed, and a dropped entity is removed with the *)
(* default realm, whatever the realm it was added under.                     *)

Register(s, t, r) ==
  /\ s \notin AllListed
  /\ AddServer(s, t, r)
  /\ UNCHANGED outOfRange

Unregister(s, t) ==
  /\ \E r \in Realm : s \in Listed(t, r)
  /\ RemoveServer(t, s, 0)
  /\ UNCHANGED outOfRange

Lookup(t, r) ==
  \/ (GetNone(t, r) \/ GetServer(t, r)) /\ UNCHANGED outOfRange
  \/ GetOutOfRange(t, r) /\ outOfRange' = TRUE /\ UNCHANGED tableVars

LBInit == TableInit /\ outOfRange = FALSE

LBNext ==
  \/ /\ ~outOfRange
     /\ \E t \in Types :
          \/ \E s \in Entity, r \in Realm : Register(s, t, r)
          \/ \E s \in Entity : Unregister(s, t)
          \/ \E r \in Realm : Lookup(t, r)
  \/ outOfRange /\ UNCHANGED LBvars

LBSpec == LBInit /\ [][LBNext]_LBvars

-----------------------------------------------------------------------------
LBTypeOK ==
  /\ list \in [AddressType -> [Realm -> Seq(Entity)]]
  /\ known \in [RealmTypes -> SUBSET Realm]
  /\ cursor \in [GlobalTypes -> Nat]
  /\ realmCursor \in [RealmTypes -> Seq(Nat)]
  /\ outOfRange \in BOOLEAN

(* "Wrap index around if needed": after every operation the round-robin      *)
(* index of a non-empty vector lies inside the vector, so that the next Get  *)
(* reads one of its servers.                                                 *)
CursorInRange ==
  \A t \in GlobalTypes : Servers(t, 0) # <<>> => cursor[t] < Len(Servers(t, 0))
=============================================================================
