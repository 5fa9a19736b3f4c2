------------------------- MODULE LoadBalanceHistory -------------------------
(***************************************************************************)
(* The server table with history variables that only record what happened: *)
(* the answer of the last lookup, the vectors something was erased from,   *)
(* and the realm keys that a lookup or a removal created before any server *)
(* of that realm registered.  With them two promises of the table can be   *)
(* stated: its global lists are fair rotations, and the exact conditions   *)
(* under which a lookup stays inside its vectors.                          *)
(***************************************************************************)
EXTENDS LoadBalance

CONSTANTS NoServer,   \* no answer
          Watched     \* the global type whose list is compared with Rotation

ASSUME WatchedAssumption == Watched \in GlobalTypes /\ NoServer \notin Entity

VARIABLES answer,   \* the server the last lookup of the watched type returned
          shrunk,   \* <<type, realm>> of the vectors that lost an element
          early     \* early[type]: realm keys not created by a registration

historyVars == <<list, known, cursor, realmCursor, outOfRange, answer, shrunk, early>>

HInit ==
  /\ LBInit
  /\ answer = NoServer
  /\ shrunk = {}
  /\ early = [t \in RealmTypes |-> {}]

NoteNewKeys == early' = [t \in RealmTypes |-> early[t] \cup (known'[t] \ known[t])]

HRegister(s, t, r) == Register(s, t, r) /\ UNCHANGED <<answer, shrunk, early>>

HUnregister(s, t) ==
  /\ Unregister(s, t)
  /\ shrunk' = IF s \in Listed(t, 0) THEN shrunk \cup {<<t, 0>>} ELSE shrunk
  /\ NoteNewKeys
  /\ UNCHANGED answer

HLookup(t, r) ==
  /\ Lookup(t, r)
  /\ NoteNewKeys
  /\ answer' = IF t # Watched \/ outOfRange' THEN answer
               ELSE IF Servers(t, r) = <<>> THEN NoServer ELSE Picked(t, r)
  /\ UNCHANGED shrunk

HNext ==
  \/ /\ ~outOfRange
     /\ \E t \in Types :
          \/ \E s \in Entity, r \in Realm : HRegister(s, t, r)
          \/ \E s \in Entity : HUnregister(s, t)
          \/ \E r \in Realm : HLookup(t, r)
  \/ outOfRange /\ UNCHANGED historyVars

HSpec == HInit /\ [][HNext]_historyVars

-----------------------------------------------------------------------------
(* A lookup can leave its vectors only for one of three reasons: its vector  *)
(* lost an element, so the index may have been left behind; or realm ids     *)
(* were first mentioned out of order or by a lookup or removal, so that the  *)
(* number of index slots does not cover the id; or the type is INSTANCE,     *)
(* which never gets an index slot.  In every other state a lookup is safe.   *)
RealmsInOrder(t) ==
  t \in RealmTypes => /\ t # "INSTANCE"
                      /\ early[t] = {}
                      /\ \A r \in known[t] : 0 .. r \subseteq known[t]

LookupSafe ==
  \A t \in AddressType, r \in Realm :
    /\ Servers(t, r) # <<>>
    /\ <<t, Key(t, r)>> \notin shrunk
    /\ RealmsInOrder(t)
    => CursorValid(t, r)

(* The watched list refines Rotation: who waits is who stands at or behind   *)
(* the index.                                                                *)
WaitingNow ==
  IF <<Watched, 0>> \in shrunk THEN {}
  ELSE { Servers(Watched, 0)[i] : i \in cursor[Watched] + 1 .. Len(Servers(Watched, 0)) }

R == INSTANCE Rotation WITH
       Server  <- Entity,
       members <- Listed(Watched, 0),
       waiting <- WaitingNow,
       intact  <- <<Watched, 0>> \notin shrunk

(* Every step of the table is a step of the rotation it promises: lookups    *)
(* hand out each server of an unshrunk list once per round, a newcomer gets  *)
(* its turn in the round it joins, and after a removal the answers are still *)
(* members of the list.                                                      *)
FairRotation == R!Spec
=============================================================================
