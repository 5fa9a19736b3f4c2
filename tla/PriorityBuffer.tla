--------------------------- MODULE PriorityBuffer ---------------------------
(***************************************************************************)
(* The three outgoing buffers of one connection, in bytes and in time.     *)
(* (ECS/Components/Network/ConnectionComponent.h and the end of a visit in *)
(* ECS/Systems/Network/ConnectionSystems.cpp)                              *)
(*                                                                         *)
(* AddPacket copies a packet into the buffer of its priority, after sending*)
(* the buffer when it is more than half full.  The end of a visit sends a  *)
(* buffer whose timer has run out, and the HIGH buffer always.  The timer  *)
(* runs only while the buffer holds something.                             *)
(*                                                                         *)
(* Sizes and times are in units; a packet is the number it was added under *)
(* in its priority.                                                        *)
(***************************************************************************)
EXTENDS Naturals, Sequences

CONSTANTS Capacity,    \* size of a buffer: 8192
          MaxPacket,   \* largest packet that is added
          FlushTime,   \* LOW_PRIORITY_TIME and MEDIUM_PRIORITY_TIME; HIGH does not wait
          MaxTick,     \* longest tick
          MaxPackets   \* bound: packets per priority in a behaviour

Priority == {"LOW", "MEDIUM", "HIGH"}

ASSUME SizeAssumption == Capacity \in Nat /\ MaxPacket \in Nat
ASSUME TimeAssumption ==
  /\ FlushTime \in [Priority -> Nat]
  /\ MaxTick \in Nat /\ MaxPackets \in Nat

VARIABLES
  written,    \* written[p]: writtenData of the buffer
  content,    \* content[p]: the packets in the buffer
  timer,      \* timer[p]: lowPriorityTimer, mediumPriorityTimer
  sent,       \* sent[p]: the packets handed to NetClient::Send so far
  added,      \* history: added[p], how many packets AddPacket was given
  waited,     \* history: waited[p], how long the oldest packet has been in the buffer
              \* (bound: no longer counted once it is past FlushTime[p])
  overrun     \* a packet was copied past the end of a buffer

bufferVars == <<written, content, timer, sent, added, waited, overrun>>

Init ==
  /\ written = [p \in Priority |-> 0]
  /\ content = [p \in Priority |-> <<>>]
  /\ timer = [p \in Priority |-> 0]
  /\ sent = [p \in Priority |-> <<>>]
  /\ added = [p \in Priority |-> 0]
  /\ waited = [p \in Priority |-> 0]
  /\ overrun = FALSE

-----------------------------------------------------------------------------
Space(p) == Capacity - written[p]

(* Mutant: a buffer is sent only when it is exactly full. *)
SendsFirstWhenFull(p, size) == Space(p) = 0

(* "Should we send priority buffer's content before we add this due to size  *)
(* constraints": the code compares the buffer with itself, not with the      *)
(* packet.                                                                   *)
SendsFirst(p, size) == Space(p) < written[p]

(* Mutant: a buffer that was just sent is not reset. *)
KeptAll(p, first) == content[p]

(* What is left in the buffer the packet is added to. *)
Kept(p, first) == IF first THEN <<>> ELSE content[p]

AddPacket(p, size) ==
  /\ added[p] < MaxPackets
  /\ LET first == SendsFirst(p, size)
         base == IF first THEN 0 ELSE written[p]
         rest == Kept(p, first)
     IN /\ sent' = IF first THEN [sent EXCEPT ![p] = @ \o content[p]] ELSE sent
        /\ timer' = IF first THEN [timer EXCEPT ![p] = 0] ELSE timer
        /\ waited' = IF rest = <<>> THEN [waited EXCEPT ![p] = 0] ELSE waited
        /\ written' = [written EXCEPT ![p] = base + size]
        /\ content' = [content EXCEPT ![p] = Append(rest, added[p] + 1)]
        /\ overrun' = (base + size > Capacity)
  /\ added' = [added EXCEPT ![p] = @ + 1]

(* Mutants: the timer counts down from zero; or it is set to the tick. *)
WaitedDown(p, d) == IF written[p] > 0 THEN timer[p] - d ELSE timer[p]
WaitedThisTick(p, d) == IF written[p] > 0 THEN d ELSE timer[p]

(* The timer after a tick of length d. *)
Waited(p, d) == IF written[p] > 0 THEN timer[p] + d ELSE timer[p]

(* The buffers sent at the end of a visit after a tick of length d. *)
Due(d) == { p \in Priority : written[p] > 0 /\ Waited(p, d) >= FlushTime[p] }

(* The buffers are looked at one after the other; no packet is added in      *)
(* between, and they do not share anything.                                  *)
EndVisit(d) ==
  /\ sent' = [p \in Priority |-> IF p \in Due(d) THEN sent[p] \o content[p] ELSE sent[p]]
  /\ content' = [p \in Priority |-> IF p \in Due(d) THEN <<>> ELSE content[p]]
  /\ written' = [p \in Priority |-> IF p \in Due(d) THEN 0 ELSE written[p]]
  /\ timer' = [p \in Priority |-> IF p \in Due(d) THEN 0 ELSE Waited(p, d)]
  /\ waited' = [p \in Priority |-> IF content[p] = <<>> THEN 0
                                  ELSE IF waited[p] > FlushTime[p] THEN waited[p]
                                  ELSE waited[p] + d]
  /\ UNCHANGED <<added, overrun>>

(* An overrun ends the model: nothing is claimed of what follows. *)
Next ==
  /\ ~overrun
  /\ \/ \E p \in Priority, size \in 1 .. MaxPacket : AddPacket(p, size)
     \/ \E d \in 1 .. MaxTick : EndVisit(d)

Spec == Init /\ [][Next]_bufferVars

(* The connection keeps being visited. *)
FairSpec == Spec /\ WF_bufferVars(\E d \in 1 .. MaxTick : EndVisit(d))

-----------------------------------------------------------------------------
TypeOK ==
  /\ written \in [Priority -> Nat]
  /\ content \in [Priority -> Seq(Nat)]
  /\ timer \in [Priority -> Nat]
  /\ sent \in [Priority -> Seq(Nat)]
  /\ added \in [Priority -> Nat]
  /\ waited \in [Priority -> Nat]
  /\ overrun \in BOOLEAN

(* AddPacket never copies past the end of a buffer.                          *)
BufferFits == ~overrun

(* Per priority, packets leave in the order they were added, none is lost    *)
(* and none is sent twice, whichever of the two ways its buffer was sent.    *)
StreamInOrder ==
  \A p \in Priority : sent[p] \o content[p] = [i \in 1 .. added[p] |-> i]

(* Early sends neither starve nor hurry the timer: a packet stays in its     *)
(* buffer for less than the time of its priority, however packets and ticks  *)
(* interleave.                                                               *)
NoPacketWaitsTooLong ==
  \A p \in Priority : content[p] # <<>> /\ waited[p] > 0 => waited[p] < FlushTime[p]

(* Every packet that was added is sent. *)
EveryPacketIsSent ==
  \A p \in Priority : \A i \in 1 .. MaxPackets :
    added[p] >= i ~> Len(sent[p]) >= i
=============================================================================
