---------------------------- MODULE PacketFraming ----------------------------
(***************************************************************************)
(* How a connection's byte stream becomes packets.                         *)
(* (ConnectionUpdateSystem::HandleRead and the Read before it)             *)
(*                                                                         *)
(* NetClient::Read appends what the socket holds, as far as it fits, to a  *)
(* read buffer; HandleRead then takes packet after packet from the front   *)
(* of the buffer until there is no complete one.  TCP cuts the stream      *)
(* where it likes.  The socket and the buffer class are external.          *)
(*                                                                         *)
(* A header is two bytes here, an opcode and a payload size.               *)
(***************************************************************************)
EXTENDS Naturals, Sequences

CONSTANTS Byte,        \* the bytes peers send
          MaxOpcode,   \* Opcode::MAX_COUNT; Opcode::INVALID is 0
          MaxPayload,  \* largest payload size accepted: 8192
          Capacity,    \* size of the read buffer
          MaxSent      \* bound: bytes sent in a behaviour

HeaderSize == 2

ASSUME ByteAssumption == Byte \subseteq Nat
ASSUME SizesAssumption ==
  /\ MaxOpcode \in Nat /\ MaxPayload \in Nat /\ MaxSent \in Nat
  /\ Capacity \in Nat /\ Capacity >= HeaderSize

VARIABLES
  sent,     \* external: the bytes the peer has sent
  received, \* how many of them were read from the socket
  readData, \* bytes at the start of the buffer that were consumed already
  active,   \* the bytes between the read and the write position
  reading,  \* HandleRead is in its loop
  packets   \* what was enqueued in packetQueue so far

framingVars == <<sent, received, readData, active, reading, packets>>

Init ==
  /\ sent = <<>>
  /\ received = 0
  /\ readData = 0
  /\ active = <<>>
  /\ reading = FALSE
  /\ packets = <<>>

-----------------------------------------------------------------------------
(* External: the peer and the socket.                                        *)

Send(b) ==
  /\ Len(sent) < MaxSent
  /\ sent' = Append(sent, b)
  /\ UNCHANGED <<received, readData, active, reading, packets>>

(* Mutant: bytes in front of the read position count as free. *)
SpaceInFront == Capacity - Len(active)

Space == Capacity - readData - Len(active)

(* netClient->Read() brings n bytes.  Into a full buffer it brings none.     *)
Read(n) ==
  /\ ~reading
  /\ n <= Space /\ received + n <= Len(sent)
  /\ active' = active \o SubSeq(sent, received + 1, received + n)
  /\ received' = received + n
  /\ reading' = TRUE
  /\ UNCHANGED <<sent, readData, packets>>

-----------------------------------------------------------------------------
(* The loop of HandleRead; each of its passes is one of these actions.       *)

HasHeader == Len(active) >= HeaderSize

(* Mutant: only the opcode that means "invalid" is refused. *)
HeaderNotInvalid == HasHeader /\ active[1] # 0 /\ active[2] <= MaxPayload

HeaderAccepted ==
  HasHeader /\ active[1] # 0 /\ active[1] <= MaxOpcode /\ active[2] <= MaxPayload

HasPayload == Len(active) - HeaderSize >= active[2]

Packet(opcode, payload) == [opcode |-> opcode, payload |-> payload]

TakePacket ==
  /\ reading /\ HeaderAccepted /\ HasPayload
  /\ packets' = Append(packets, Packet(active[1], SubSeq(active, 3, HeaderSize + active[2])))
  /\ active' = SubSeq(active, HeaderSize + active[2] + 1, Len(active))
  /\ readData' = readData + HeaderSize + active[2]
  /\ UNCHANGED <<sent, received, reading>>

(* Mutant: the buffer is not normalised. *)
WaitForMoreInPlace ==
  /\ reading /\ active # <<>>
  /\ ~HasHeader \/ (HeaderAccepted /\ ~HasPayload)
  /\ reading' = FALSE
  /\ UNCHANGED <<sent, received, readData, active, packets>>

(* A partial header, or a header whose payload is not there yet: Normalize   *)
(* moves it to the front of the buffer.                                      *)
WaitForMore ==
  /\ reading /\ active # <<>>
  /\ ~HasHeader \/ (HeaderAccepted /\ ~HasPayload)
  /\ reading' = FALSE
  /\ readData' = 0
  /\ UNCHANGED <<sent, received, active, packets>>

(* An invalid opcode or size: nothing is consumed, nothing is moved, and the *)
(* client stays connected.                                                   *)
StopAtInvalid ==
  /\ reading /\ HasHeader /\ ~HeaderAccepted
  /\ reading' = FALSE
  /\ UNCHANGED <<sent, received, readData, active, packets>>

(* Everything that was written has been read: Reset. *)
StopEmpty ==
  /\ reading /\ active = <<>>
  /\ reading' = FALSE
  /\ readData' = 0
  /\ UNCHANGED <<sent, received, active, packets>>

HandleRead == TakePacket \/ WaitForMore \/ StopAtInvalid \/ StopEmpty

ReadStep == \E n \in 1 .. Capacity : Read(n)

Done == Len(sent) = MaxSent /\ ~reading /\ (received = MaxSent \/ Space = 0)

Next ==
  \/ \E b \in Byte : Send(b)
  \/ ReadStep
  \/ HandleRead
  \/ Done /\ UNCHANGED framingVars

Spec == Init /\ [][Next]_framingVars

(* The connection keeps being visited, as long as it is open. *)
FairSpec == Spec /\ WF_framingVars(ReadStep) /\ WF_framingVars(HandleRead)

-----------------------------------------------------------------------------
(* The reference: the packets at the start of the first n bytes of a stream  *)
(* s, one after the other.  A packet that does not fit into the buffer       *)
(* together with its header never completes.                                 *)

PacketAt(s, n, i) ==
  /\ i + HeaderSize <= n
  /\ s[i + 1] \in 1 .. MaxOpcode
  /\ s[i + 2] <= MaxPayload /\ HeaderSize + s[i + 2] <= Capacity
  /\ i + HeaderSize + s[i + 2] <= n

PacketEnd(s, i) == i + HeaderSize + s[i + 2]

PacketOf(s, i) == Packet(s[i + 1], SubSeq(s, i + HeaderSize + 1, PacketEnd(s, i)))

(* packetStarts[k]: where in the stream the packet behind the first k starts.*)
FramedBy(packetStarts, s, n, ps) ==
  /\ packetStarts[0] = 0
  /\ \A k \in 1 .. Len(ps) :
       LET start == packetStarts[k - 1]
       IN /\ PacketAt(s, n, start) /\ ps[k] = PacketOf(s, start)
          /\ packetStarts[k] = PacketEnd(s, start)

Decodes(ps, s, n) ==
  \E packetStarts \in [0 .. Len(ps) -> 0 .. n] :
    FramedBy(packetStarts, s, n, ps) /\ ~PacketAt(s, n, packetStarts[Len(ps)])

(* How many there are. *)
PacketsIn(s) ==
  LET PacketsFrom[i \in 0 .. Len(s)] ==
        IF PacketAt(s, Len(s), i) THEN 1 + PacketsFrom[PacketEnd(s, i)] ELSE 0
  IN PacketsFrom[0]

PacketType == [opcode : Byte, payload : Seq(Byte)]

(* The bytes a buffer holds, consumed or not, are never more than it has     *)
(* room for.                                                                 *)
TypeOK ==
  /\ sent \in Seq(Byte)
  /\ received \in 0 .. Len(sent)
  /\ readData \in 0 .. Capacity
  /\ active \in Seq(Byte) /\ readData + Len(active) <= Capacity
  /\ reading \in BOOLEAN
  /\ packets \in Seq(PacketType)

(* However the stream was cut into reads, HandleRead has enqueued exactly    *)
(* the packets of the bytes read so far: each is cut out of the stream where *)
(* the one before it ended, and none is left behind when the loop ends.      *)
(* Nothing is lost, doubled or torn, and nothing behind an invalid header or *)
(* a packet too long for the buffer is ever taken for a packet.              *)
DecodesStream == ~reading => Decodes(packets, sent, received)

(* Every packet that is complete on the wire, in front of anything invalid,  *)
(* is enqueued in the end: what waits in the buffer never takes away the     *)
(* room for the rest of it.                                                  *)
EveryPacketArrives ==
  \A n \in 1 .. MaxSent : PacketsIn(sent) >= n ~> Len(packets) >= n
=============================================================================
