------------------------- MODULE PacketFramingProofs -------------------------
(***************************************************************************)
(* The framing, proved for any stream, any way it is cut into reads, and   *)
(* every size of the buffer: HandleRead enqueues exactly the packets of    *)
(* the bytes read so far.                                                  *)
(***************************************************************************)
EXTENDS PacketFraming, SequenceTheorems, TLAPS

-----------------------------------------------------------------------------
(* Sequences of bytes.                                                       *)

(* A part of a sequence, and the equal part of another one.                  *)
LEMMA PartFacts ==
  ASSUME NEW s \in Seq(Byte), NEW a \in Nat, NEW n \in Nat, a + n <= Len(s)
  PROVE  /\ SubSeq(s, a + 1, a + n) \in Seq(Byte)
         /\ Len(SubSeq(s, a + 1, a + n)) = n
         /\ \A i \in 1 .. n : SubSeq(s, a + 1, a + n)[i] = s[a + i]
<1>1. a + 1 \in Int /\ a + n \in Int OBVIOUS
<1>2. \A i \in a + 1 .. a + n : s[i] \in Byte
  <2>1. \A i \in a + 1 .. a + n : i \in 1 .. Len(s) OBVIOUS
  <2> QED BY <2>1
<1> DEFINE p == SubSeq(s, a + 1, a + n)
<1>3. /\ p \in Seq(Byte)
      /\ Len(p) = IF a + 1 <= a + n THEN (a + n) - (a + 1) + 1 ELSE 0
      /\ \A i \in 1 .. (a + n) - (a + 1) + 1 : p[i] = s[a + 1 + i - 1]
  BY <1>1, <1>2, SubSeqProperties
<1> HIDE DEF p
<1>4. Len(p) = n /\ \A i \in 1 .. n : p[i] = s[a + i]
  <2>1. Len(p) = n BY <1>3
  <2>2. (a + n) - (a + 1) + 1 = n OBVIOUS
  <2>3. \A i \in 1 .. n : a + 1 + i - 1 = a + i OBVIOUS
  <2> QED BY <1>3, <2>1, <2>2, <2>3
<1> QED BY <1>3, <1>4 DEF p

LEMMA PartsAgree ==
  ASSUME NEW s \in Seq(Byte), NEW t \in Seq(Byte), NEW a \in Nat, NEW b \in Nat, NEW n \in Nat,
         a + n <= Len(s), b + n <= Len(t), \A i \in 1 .. n : s[a + i] = t[b + i]
  PROVE  SubSeq(s, a + 1, a + n) = SubSeq(t, b + 1, b + n)
<1> DEFINE p == SubSeq(s, a + 1, a + n)
           q == SubSeq(t, b + 1, b + n)
<1>1. p \in Seq(Byte) /\ Len(p) = n /\ \A i \in 1 .. n : p[i] = s[a + i] BY PartFacts
<1>2. q \in Seq(Byte) /\ Len(q) = n /\ \A i \in 1 .. n : q[i] = t[b + i] BY PartFacts
<1> HIDE DEF p, q
<1>3. Len(p) = Len(q) /\ \A i \in 1 .. Len(p) : p[i] = q[i] BY <1>1, <1>2
<1>4. p = q BY <1>1, <1>2, <1>3, SeqEqual
<1> QED BY <1>4 DEF p, q

(* Bytes are numbers.                                                        *)
LEMMA ByteAt ==
  ASSUME NEW s \in Seq(Byte), NEW i \in 1 .. Len(s) PROVE s[i] \in Byte /\ s[i] \in Nat
<1>1. s[i] \in Byte OBVIOUS
<1> QED BY <1>1, ByteAssumption

-----------------------------------------------------------------------------
(* Packets in a stream.                                                      *)

(* Where a packet ends.                                                      *)
LEMMA PacketFacts ==
  ASSUME NEW s \in Seq(Byte), NEW n \in 0 .. Len(s), NEW i \in Nat, PacketAt(s, n, i)
  PROVE  /\ i + 2 \in 1 .. n /\ i + 1 \in 1 .. n /\ s[i + 2] \in Nat
         /\ PacketEnd(s, i) = i + 2 + s[i + 2] /\ PacketEnd(s, i) \in 0 .. n
         /\ i < PacketEnd(s, i)
         /\ PacketOf(s, i) \in PacketType
<1>1. i + 2 <= n /\ i + 2 \in 1 .. n /\ i + 1 \in 1 .. n BY DEF PacketAt, HeaderSize
<1>2. s[i + 2] \in Nat /\ s[i + 1] \in Byte BY <1>1, ByteAt
<1>3. PacketEnd(s, i) = i + 2 + s[i + 2] BY DEF PacketEnd, HeaderSize
<1>4. i + 2 + s[i + 2] <= n BY DEF PacketAt, HeaderSize
<1>5. SubSeq(s, (i + 2) + 1, (i + 2) + s[i + 2]) \in Seq(Byte) BY <1>2, <1>4, PartFacts
<1>6. PacketOf(s, i) \in PacketType
  BY <1>2, <1>3, <1>5 DEF PacketOf, PacketType, Packet, HeaderSize
<1> QED BY <1>1, <1>2, <1>3, <1>4, <1>6

(* A packet is in every stream that agrees on its bytes.                     *)
LEMMA PacketInBoth ==
  ASSUME NEW s \in Seq(Byte), NEW t \in Seq(Byte), NEW n \in 0 .. Len(s), n <= Len(t),
         \A j \in 1 .. n : s[j] = t[j], NEW i \in Nat
  PROVE  /\ PacketAt(s, n, i) <=> PacketAt(t, n, i)
         /\ PacketAt(s, n, i) => PacketEnd(s, i) = PacketEnd(t, i)
                                /\ PacketOf(s, i) = PacketOf(t, i)
<1>0. n \in 0 .. Len(t) OBVIOUS
<1>1. i + 2 <= n => s[i + 1] = t[i + 1] /\ s[i + 2] = t[i + 2]
  <2>1. i + 2 <= n => i + 1 \in 1 .. n /\ i + 2 \in 1 .. n OBVIOUS
  <2> QED BY <2>1
<1>2. PacketAt(s, n, i) <=> PacketAt(t, n, i) BY <1>1 DEF PacketAt, HeaderSize
<1>3. ASSUME PacketAt(s, n, i)
      PROVE  PacketEnd(s, i) = PacketEnd(t, i) /\ PacketOf(s, i) = PacketOf(t, i)
  <2>1. /\ s[i + 1] = t[i + 1] /\ s[i + 2] = t[i + 2] /\ s[i + 2] \in Nat
        /\ PacketEnd(s, i) = i + 2 + s[i + 2] /\ PacketEnd(s, i) <= n
        /\ PacketEnd(t, i) = i + 2 + t[i + 2]
    BY <1>0, <1>1, <1>2, <1>3, PacketFacts DEF PacketAt, HeaderSize
  <2> DEFINE a == i + 2
             size == s[i + 2]
  <2>2. a \in Nat /\ size \in Nat /\ a + size <= Len(s) /\ a + size <= Len(t)
        /\ \A j \in 1 .. size : a + j \in 1 .. n
    BY <2>1
  <2>3. \A j \in 1 .. size : s[a + j] = t[a + j] BY <2>2
  <2> HIDE DEF a, size
  <2>4. SubSeq(s, a + 1, a + size) = SubSeq(t, a + 1, a + size) BY <2>2, <2>3, PartsAgree
  <2> QED BY <2>1, <2>4 DEF a, size, PacketOf, Packet, HeaderSize
<1> QED BY <1>2, <1>3

(* More bytes leave the packets before them as they are.                     *)
LEMMA PacketStays ==
  ASSUME NEW s \in Seq(Byte), NEW n \in 0 .. Len(s), NEW m \in n .. Len(s), NEW i \in Nat,
         PacketAt(s, n, i)
  PROVE  PacketAt(s, m, i)
<1>1. i + 2 <= n BY DEF PacketAt, HeaderSize
<1>2. i + 2 \in 1 .. Len(s) BY <1>1
<1>3. s[i + 2] \in Nat BY <1>2, ByteAt
<1> QED BY <1>3 DEF PacketAt, HeaderSize

-----------------------------------------------------------------------------
(* The inductive invariant.  Where the packets start that were taken, and    *)
(* that the bytes that wait in the buffer are the ones behind the last of    *)
(* them; what DecodesStream says is not inductive, it says nothing inside    *)
(* the loop.                                                                 *)

Consumed == received - Len(active)

WaitingBytes ==
  Len(active) <= received /\ \A j \in 1 .. Len(active) : active[j] = sent[Consumed + j]

FramedSoFar ==
  \E packetStarts \in [0 .. Len(packets) -> 0 .. received] :
    /\ FramedBy(packetStarts, sent, received, packets)
    /\ packetStarts[Len(packets)] = Consumed

NothingComplete == ~reading => ~PacketAt(sent, received, Consumed)

FramingInv == TypeOK /\ WaitingBytes /\ FramedSoFar /\ NothingComplete

(* It says more than DecodesStream.                                          *)
LEMMA FramingDecodes == FramingInv => DecodesStream
<1> SUFFICES ASSUME FramingInv, ~reading PROVE Decodes(packets, sent, received)
  BY DEF DecodesStream
<1>1. PICK packetStarts \in [0 .. Len(packets) -> 0 .. received] :
        /\ FramedBy(packetStarts, sent, received, packets)
        /\ packetStarts[Len(packets)] = Consumed
  BY DEF FramingInv, FramedSoFar
<1>2. ~PacketAt(sent, received, packetStarts[Len(packets)])
  BY <1>1 DEF FramingInv, NothingComplete
<1> QED BY <1>1, <1>2 DEF Decodes

(* At first.                                                                 *)
LEMMA FramingInit == Init => FramingInv
<1> SUFFICES ASSUME Init PROVE FramingInv OBVIOUS
<1>0. /\ sent = <<>> /\ active = <<>> /\ packets = <<>>
      /\ received = 0 /\ readData = 0
  BY DEF Init
<1>1. /\ Len(sent) = 0 /\ Len(active) = 0 /\ Len(packets) = 0
      /\ sent \in Seq(Byte) /\ active \in Seq(Byte) /\ packets \in Seq(PacketType)
  BY <1>0
<1>2. TypeOK
  <2>1. reading \in BOOLEAN BY Zenon DEF Init
  <2>2. received \in 0 .. Len(sent) /\ readData \in 0 .. Capacity
        /\ readData + Len(active) <= Capacity
    BY <1>0, <1>1, SizesAssumption
  <2> QED BY <1>1, <2>1, <2>2 DEF TypeOK
<1>3. Consumed = 0 /\ WaitingBytes
  <2>0. received = 0 /\ Len(active) = 0 BY <1>0, <1>1
  <2>1. Consumed = 0 BY <2>0 DEF Consumed
  <2>2. WaitingBytes BY <1>0, <1>1 DEF WaitingBytes
  <2> QED BY <2>1, <2>2
<1>4. FramedSoFar
  <2> DEFINE starts == [k \in 0 .. 0 |-> 0]
  <2>1. starts \in [0 .. Len(packets) -> 0 .. received] /\ starts[0] = 0 BY <1>0, <1>1
  <2> HIDE DEF starts
  <2>2. FramedBy(starts, sent, received, packets) BY <1>1, <2>1 DEF FramedBy
  <2> QED BY <1>1, <1>3, <2>1, <2>2 DEF FramedSoFar
<1>5. NothingComplete BY <1>0, <1>3 DEF NothingComplete, PacketAt, HeaderSize
<1> QED BY <1>2, <1>3, <1>4, <1>5 DEF FramingInv

-----------------------------------------------------------------------------
(* The framing of a stream, from one state to the next.                      *)

(* The starts of packets are kept by a stream that agrees with the first ... *)
LEMMA FramedInBoth ==
  ASSUME NEW s \in Seq(Byte), NEW t \in Seq(Byte), NEW n \in 0 .. Len(s), n <= Len(t),
         \A j \in 1 .. n : s[j] = t[j], NEW ps \in Seq(PacketType),
         NEW starts \in [0 .. Len(ps) -> 0 .. n], FramedBy(starts, s, n, ps)
  PROVE  FramedBy(starts, t, n, ps)
<1>1. ASSUME NEW k \in 1 .. Len(ps)
      PROVE  /\ PacketAt(t, n, starts[k - 1]) /\ ps[k] = PacketOf(t, starts[k - 1])
             /\ starts[k] = PacketEnd(t, starts[k - 1])
  <2> DEFINE i == starts[k - 1]
  <2>1. i \in Nat
    <3>1. k - 1 \in 0 .. Len(ps) OBVIOUS
    <3>2. starts[k - 1] \in 0 .. n BY <3>1
    <3> QED BY <3>2
  <2>2. PacketAt(s, n, i) /\ ps[k] = PacketOf(s, i) /\ starts[k] = PacketEnd(s, i)
    BY DEF FramedBy
  <2> HIDE DEF i
  <2>3. /\ PacketAt(t, n, i) /\ PacketEnd(s, i) = PacketEnd(t, i)
        /\ PacketOf(s, i) = PacketOf(t, i)
    BY <2>1, <2>2, PacketInBoth
  <2> QED BY <2>2, <2>3 DEF i
<1> QED BY <1>1 DEF FramedBy

(* ... and when more of it has been read.                                    *)
LEMMA FramedStays ==
  ASSUME NEW s \in Seq(Byte), NEW n \in 0 .. Len(s), NEW m \in n .. Len(s),
         NEW ps \in Seq(PacketType), NEW starts \in [0 .. Len(ps) -> 0 .. n],
         FramedBy(starts, s, n, ps)
  PROVE  FramedBy(starts, s, m, ps)
<1>1. ASSUME NEW k \in 1 .. Len(ps)
      PROVE  /\ PacketAt(s, m, starts[k - 1]) /\ ps[k] = PacketOf(s, starts[k - 1])
             /\ starts[k] = PacketEnd(s, starts[k - 1])
  <2> DEFINE i == starts[k - 1]
  <2>1. i \in Nat
    <3>1. k - 1 \in 0 .. Len(ps) OBVIOUS
    <3>2. starts[k - 1] \in 0 .. n BY <3>1
    <3> QED BY <3>2
  <2>2. PacketAt(s, n, i) /\ ps[k] = PacketOf(s, i) /\ starts[k] = PacketEnd(s, i)
    BY DEF FramedBy
  <2> HIDE DEF i
  <2>3. PacketAt(s, m, i) BY <2>1, <2>2, PacketStays
  <2> QED BY <2>2, <2>3 DEF i
<1> QED BY <1>1 DEF FramedBy

(* One packet more.                                                          *)
LEMMA FramedAppend ==
  ASSUME NEW s \in Seq(Byte), NEW n \in 0 .. Len(s), NEW ps \in Seq(PacketType),
         NEW starts \in [0 .. Len(ps) -> 0 .. n], FramedBy(starts, s, n, ps),
         NEW i \in Nat, starts[Len(ps)] = i, PacketAt(s, n, i)
  PROVE  \E more \in [0 .. Len(Append(ps, PacketOf(s, i))) -> 0 .. n] :
           /\ FramedBy(more, s, n, Append(ps, PacketOf(s, i)))
           /\ more[Len(Append(ps, PacketOf(s, i)))] = PacketEnd(s, i)
<1> DEFINE p == PacketOf(s, i)
           end == PacketEnd(s, i)
           qs == Append(ps, p)
           c == Len(ps)
           more == [k \in 0 .. c + 1 |-> IF k = c + 1 THEN end ELSE starts[k]]
<1>1. p \in PacketType /\ end \in 0 .. n BY PacketFacts
<1> HIDE DEF p, end
<1>2. /\ c \in Nat /\ Len(qs) = c + 1 /\ qs[c + 1] = p
      /\ \A k \in 1 .. c : qs[k] = ps[k]
  BY <1>1, AppendProperties
<1> HIDE DEF qs
<1>3. /\ more \in [0 .. c + 1 -> 0 .. n] /\ more[c + 1] = end
      /\ \A k \in 0 .. c : more[k] = starts[k]
  BY <1>1, <1>2
<1> HIDE DEF more
<1>4. ASSUME NEW k \in 1 .. c + 1
      PROVE  /\ PacketAt(s, n, more[k - 1]) /\ qs[k] = PacketOf(s, more[k - 1])
             /\ more[k] = PacketEnd(s, more[k - 1])
  <2>1. CASE k = c + 1
    <3>1. k - 1 = c /\ c \in 0 .. c BY <1>2, <2>1
    <3>2. more[k - 1] = i /\ more[k] = end /\ qs[k] = p BY <1>2, <1>3, <2>1, <3>1
    <3> QED BY <3>2 DEF p, end
  <2>2. CASE k # c + 1
    <3>1. k \in 1 .. c /\ k \in 0 .. c /\ k - 1 \in 0 .. c BY <1>2, <2>2
    <3>2. more[k - 1] = starts[k - 1] /\ more[k] = starts[k] /\ qs[k] = ps[k]
      BY <1>2, <1>3, <3>1
    <3>3. /\ PacketAt(s, n, starts[k - 1]) /\ ps[k] = PacketOf(s, starts[k - 1])
          /\ starts[k] = PacketEnd(s, starts[k - 1])
      BY <3>1 DEF FramedBy
    <3> QED BY <3>2, <3>3
  <2> QED BY <2>1, <2>2
<1>5. more[0] = 0
  <2>1. starts[0] = 0 /\ 0 \in 0 .. c BY <1>2 DEF FramedBy
  <2> QED BY <1>3, <2>1
<1> HIDE DEF c
<1>6. FramedBy(more, s, n, qs) BY <1>2, <1>4, <1>5 DEF FramedBy
<1> QED BY <1>2, <1>3, <1>6 DEF qs, p, end

-----------------------------------------------------------------------------
(* The actions.                                                              *)

(* More is sent.                                                             *)
LEMMA SendInv == ASSUME FramingInv, NEW b \in Byte, Send(b) PROVE FramingInv'
<1>0. /\ sent \in Seq(Byte) /\ received \in 0 .. Len(sent) /\ packets \in Seq(PacketType)
      /\ active \in Seq(Byte) /\ Len(active) <= received
  BY DEF FramingInv, TypeOK, WaitingBytes
<1>1. /\ sent' = Append(sent, b)
      /\ UNCHANGED <<received, readData, active, reading, packets>>
  BY DEF Send
<1>2. /\ sent' \in Seq(Byte) /\ Len(sent') = Len(sent) + 1
      /\ \A i \in 1 .. Len(sent) : sent[i] = sent'[i]
  BY <1>0, <1>1, AppendProperties
<1>3. received <= Len(sent') /\ \A i \in 1 .. received : sent[i] = sent'[i] BY <1>0, <1>2
<1>4. TypeOK'
  <2>1. received' \in 0 .. Len(sent') BY <1>0, <1>1, <1>2
  <2>2. /\ readData' \in 0 .. Capacity
        /\ active' \in Seq(Byte) /\ readData' + Len(active') <= Capacity
        /\ packets' \in Seq(PacketType)
    BY <1>1 DEF FramingInv, TypeOK
  <2>3. reading' \in BOOLEAN BY Zenon, <1>1 DEF FramingInv, TypeOK
  <2> QED BY <1>2, <2>1, <2>2, <2>3 DEF TypeOK
<1>5. Consumed' = Consumed /\ Consumed \in Nat BY <1>0, <1>1 DEF Consumed
<1>6. WaitingBytes'
  <2>1. ASSUME NEW j \in 1 .. Len(active) PROVE active[j] = sent'[Consumed + j]
    <3>1. active[j] = sent[Consumed + j] BY DEF FramingInv, WaitingBytes
    <3>2. Consumed + j \in 1 .. received BY <1>0 DEF Consumed
    <3> QED BY <1>3, <3>1, <3>2
  <2> QED BY <1>0, <1>1, <1>5, <2>1 DEF WaitingBytes
<1>7. FramedSoFar'
  <2>1. PICK starts \in [0 .. Len(packets) -> 0 .. received] :
          /\ FramedBy(starts, sent, received, packets)
          /\ starts[Len(packets)] = Consumed
    BY DEF FramingInv, FramedSoFar
  <2>2. FramedBy(starts, sent', received, packets)
    BY <1>0, <1>2, <1>3, <2>1, FramedInBoth
  <2> QED BY <1>1, <1>5, <2>1, <2>2 DEF FramedSoFar
<1>8. NothingComplete'
  <2>1. PacketAt(sent, received, Consumed) <=> PacketAt(sent', received, Consumed)
    BY <1>0, <1>2, <1>3, <1>5, PacketInBoth
  <2>2. ~reading => ~PacketAt(sent, received, Consumed) BY DEF FramingInv, NothingComplete
  <2> QED BY <1>1, <1>5, <2>1, <2>2 DEF NothingComplete
<1> QED BY <1>4, <1>6, <1>7, <1>8 DEF FramingInv

(* More is read.                                                             *)
LEMMA ReadInv == ASSUME FramingInv, NEW n \in 1 .. Capacity, Read(n) PROVE FramingInv'
<1>0. /\ sent \in Seq(Byte) /\ received \in 0 .. Len(sent) /\ packets \in Seq(PacketType)
      /\ active \in Seq(Byte) /\ Len(active) \in Nat /\ Len(active) <= received
      /\ readData \in 0 .. Capacity /\ readData + Len(active) <= Capacity
      /\ Capacity \in Nat /\ Len(sent) \in Nat
  BY SizesAssumption DEF FramingInv, TypeOK, WaitingBytes
<1> DEFINE part == SubSeq(sent, received + 1, received + n)
<1>1. /\ n <= Capacity - readData - Len(active) /\ received + n <= Len(sent)
      /\ active' = active \o part /\ received' = received + n
      /\ UNCHANGED <<sent, readData, packets>>
  BY DEF Read, Space
<1>2. reading' = TRUE BY Zenon DEF Read
<1>3. n \in Nat /\ received \in Nat BY <1>0
<1>4. part \in Seq(Byte) /\ Len(part) = n /\ \A i \in 1 .. n : part[i] = sent[received + i]
  BY <1>0, <1>1, <1>3, PartFacts
<1> HIDE DEF part
<1>5. /\ active' \in Seq(Byte) /\ Len(active') = Len(active) + n
      /\ \A j \in 1 .. Len(active) + n :
           active'[j] = IF j <= Len(active) THEN active[j] ELSE part[j - Len(active)]
  <2>1. /\ active \o part \in Seq(Byte) /\ Len(active \o part) = Len(active) + Len(part)
        /\ \A j \in 1 .. Len(active) + Len(part) :
             (active \o part)[j] = IF j <= Len(active) THEN active[j] ELSE part[j - Len(active)]
    BY <1>0, <1>4, ConcatProperties
  <2>2. active' = active \o part /\ Len(part) = n BY <1>1, <1>4
  <2> QED BY <2>1, <2>2
<1>6. TypeOK'
  <2>1. received' \in 0 .. Len(sent') BY <1>0, <1>1, <1>3
  <2>2. readData' \in 0 .. Capacity /\ readData' + Len(active') <= Capacity
    BY <1>0, <1>1, <1>3, <1>5
  <2>3. reading' \in BOOLEAN BY Zenon, <1>2
  <2> QED BY <1>0, <1>1, <1>5, <2>1, <2>2, <2>3 DEF TypeOK
<1>7. Consumed' = Consumed /\ Consumed \in Nat /\ Consumed + Len(active) = received
  BY <1>0, <1>1, <1>3, <1>5 DEF Consumed
<1>8. WaitingBytes'
  <2>1. ASSUME NEW j \in 1 .. Len(active) + n PROVE active'[j] = sent[Consumed + j]
    <3>1. CASE j <= Len(active)
      <4>1. j \in 1 .. Len(active) BY <1>0, <3>1
      <4>2. active[j] = sent[Consumed + j] BY <4>1 DEF FramingInv, WaitingBytes
      <4> QED BY <1>5, <3>1, <4>2
    <3>2. CASE ~(j <= Len(active))
      <4>1. j - Len(active) \in 1 .. n /\ received + (j - Len(active)) = Consumed + j
        BY <1>0, <1>3, <1>7, <3>2, SMTT(30)
      <4> QED BY <1>4, <1>5, <3>2, <4>1
    <3> QED BY <3>1, <3>2
  <2>2. Len(active') <= received' BY <1>0, <1>1, <1>3, <1>5
  <2> QED BY <1>1, <1>5, <1>7, <2>1, <2>2 DEF WaitingBytes
<1>9. FramedSoFar'
  <2>1. PICK starts \in [0 .. Len(packets) -> 0 .. received] :
          /\ FramedBy(starts, sent, received, packets)
          /\ starts[Len(packets)] = Consumed
    BY DEF FramingInv, FramedSoFar
  <2>2. received + n \in received .. Len(sent) BY <1>0, <1>1, <1>3
  <2>3. FramedBy(starts, sent, received + n, packets)
    BY <1>0, <2>1, <2>2, FramedStays
  <2>4. starts \in [0 .. Len(packets) -> 0 .. received + n] BY <1>0, <1>3, <2>1
  <2> QED BY <1>1, <1>7, <2>1, <2>3, <2>4 DEF FramedSoFar
<1>10. NothingComplete' BY <1>2 DEF NothingComplete
<1> QED BY <1>6, <1>8, <1>9, <1>10 DEF FramingInv

(* What the buffer shows of the stream: HandleRead finds a packet in the     *)
(* buffer exactly when there is one where the buffer starts.                 *)
LEMMA InBuffer ==
  ASSUME FramingInv
  PROVE  /\ PacketAt(sent, received, Consumed) <=> HeaderAccepted /\ HasPayload
         /\ Len(active) >= 2 => /\ sent[Consumed + 1] = active[1] /\ active[1] \in Nat
                               /\ sent[Consumed + 2] = active[2] /\ active[2] \in Nat
<1>0. /\ sent \in Seq(Byte) /\ received \in 0 .. Len(sent)
      /\ active \in Seq(Byte) /\ Len(active) \in Nat /\ Len(active) <= received
      /\ readData \in Nat /\ readData + Len(active) <= Capacity /\ Capacity \in Nat
      /\ MaxOpcode \in Nat /\ MaxPayload \in Nat
  BY SizesAssumption DEF FramingInv, TypeOK, WaitingBytes
<1>1. Consumed \in Nat /\ received = Consumed + Len(active) BY <1>0 DEF Consumed
<1>2. CASE ~(Len(active) >= 2)
  BY <1>0, <1>1, <1>2 DEF PacketAt, HeaderAccepted, HasHeader, HeaderSize
<1>3. CASE Len(active) >= 2
  <2>1. 1 \in 1 .. Len(active) /\ 2 \in 1 .. Len(active) BY <1>0, <1>3
  <2>2. sent[Consumed + 1] = active[1] /\ sent[Consumed + 2] = active[2]
    BY <2>1 DEF FramingInv, WaitingBytes
  <2>3. active[1] \in Nat /\ active[2] \in Nat BY <1>0, <2>1, ByteAt
  <2>4. PacketAt(sent, received, Consumed) <=>
          /\ active[1] \in 1 .. MaxOpcode
          /\ active[2] <= MaxPayload /\ 2 + active[2] <= Capacity
          /\ Consumed + 2 + active[2] <= received
    BY <1>0, <1>1, <1>3, <2>2 DEF PacketAt, HeaderSize
  <2>5. HeaderAccepted /\ HasPayload <=>
          /\ active[1] # 0 /\ active[1] <= MaxOpcode
          /\ active[2] <= MaxPayload /\ Len(active) - 2 >= active[2]
    BY <1>3 DEF HeaderAccepted, HasPayload, HasHeader, HeaderSize
  <2> DEFINE a1 == active[1]
             a2 == active[2]
             n == Len(active)
  <2> HIDE DEF a1, a2, n
  <2>6. /\ (n - 2 >= a2) <=> (Consumed + 2 + a2 <= received)
        /\ (n - 2 >= a2) => 2 + a2 <= Capacity
        /\ a1 \in 1 .. MaxOpcode <=> a1 # 0 /\ a1 <= MaxOpcode
    BY <1>0, <1>1, <2>3, SMTT(30) DEF a1, a2, n
  <2> QED BY <2>2, <2>3, <2>4, <2>5, <2>6 DEF a1, a2, n
<1> QED BY <1>2, <1>3

(* A packet is taken.                                                        *)
LEMMA TakePacketInv == ASSUME FramingInv, TakePacket PROVE FramingInv'
<1>0. /\ sent \in Seq(Byte) /\ received \in 0 .. Len(sent) /\ packets \in Seq(PacketType)
      /\ active \in Seq(Byte)
  BY DEF FramingInv, TypeOK
<1>n. /\ Len(active) \in Nat /\ received \in Nat /\ Len(sent) \in Nat
      /\ readData \in Nat /\ Capacity \in Nat
      /\ Len(active) <= received /\ received <= Len(sent)
      /\ readData + Len(active) <= Capacity
  BY SizesAssumption DEF FramingInv, TypeOK, WaitingBytes
<1>1. /\ PacketAt(sent, received, Consumed)
      /\ Len(active) >= 2 /\ active[2] \in Nat /\ 2 + active[2] <= Len(active)
      /\ sent[Consumed + 1] = active[1] /\ sent[Consumed + 2] = active[2]
  <2>1. HeaderAccepted /\ HasPayload BY DEF TakePacket
  <2>2. Len(active) >= 2 /\ Len(active) - 2 >= active[2]
    BY <2>1 DEF HeaderAccepted, HasHeader, HasPayload, HeaderSize
  <2>3. active[2] \in Nat BY <2>2, InBuffer
  <2>4. 2 + active[2] <= Len(active) BY <1>n, <2>2, <2>3
  <2> QED BY <2>1, <2>2, <2>3, <2>4, InBuffer
<1>2. PICK i \in Nat, a2 \in Nat, a \in Nat, n \in Nat :
        /\ i = Consumed /\ i + Len(active) = received
        /\ a2 = active[2] /\ a = 2 + a2 /\ a + n = Len(active)
  <2>1. Consumed \in Nat /\ Consumed + Len(active) = received BY <1>n DEF Consumed
  <2>2. PICK size \in Nat : size = active[2] /\ 2 + size <= Len(active) BY <1>1
  <2>3. 2 + size <= Len(active) BY <2>2
  <2>4. /\ 2 + size \in Nat /\ Len(active) - (2 + size) \in Nat
        /\ (2 + size) + (Len(active) - (2 + size)) = Len(active)
    BY <1>n, <2>3
  <2> QED BY <2>1, <2>2, <2>4
<1>m. a = 2 + a2 /\ a + n = Len(active) /\ i + Len(active) = received BY <1>2
<1>3. /\ PacketAt(sent, received, i) /\ sent[i + 1] = active[1] /\ sent[i + 2] = a2
  BY <1>1, <1>2
<1>4. /\ i + a + n = received /\ a + n <= Len(active) /\ a <= Len(active)
      /\ i + a <= received
  BY <1>n, <1>m
<1>5. /\ packets' = Append(packets, Packet(active[1], SubSeq(active, 2 + 1, 2 + a2)))
      /\ active' = SubSeq(active, a + 1, a + n)
      /\ readData' = readData + a
      /\ UNCHANGED <<sent, received, reading>>
  <2>1. /\ packets' = Append(packets, Packet(active[1], SubSeq(active, 3, 2 + a2)))
        /\ active' = SubSeq(active, 2 + a2 + 1, Len(active))
        /\ readData' = readData + 2 + a2
        /\ UNCHANGED <<sent, received, reading>>
    BY <1>2 DEF TakePacket, HeaderSize
  <2>2. 2 + 1 = 3 /\ 2 + a2 + 1 = a + 1 /\ Len(active) = a + n
        /\ readData + 2 + a2 = readData + a
    BY <1>n, <1>m
  <2> QED BY <2>1, <2>2
<1>6. /\ active' \in Seq(Byte) /\ Len(active') = n
      /\ \A j \in 1 .. n : active'[j] = active[a + j]
  BY <1>0, <1>4, <1>5, PartFacts
<1>7. Packet(active[1], SubSeq(active, 2 + 1, 2 + a2)) = PacketOf(sent, i)
  <2>1. \A j \in 1 .. a2 : active[2 + j] = sent[(i + 2) + j]
    <3>1. ASSUME NEW j \in 1 .. a2 PROVE active[2 + j] = sent[(i + 2) + j]
      <4>1. 2 + j \in 1 .. Len(active) /\ i + (2 + j) = (i + 2) + j BY <1>n, <1>m
      <4>2. active[2 + j] = sent[i + (2 + j)] BY <1>2, <4>1 DEF FramingInv, WaitingBytes
      <4> QED BY <4>1, <4>2
    <3> QED BY <3>1
  <2>2. (i + 2) + a2 <= Len(sent) /\ 2 + a2 <= Len(active) /\ i + 2 \in Nat BY <1>n, <1>m
  <2>3. SubSeq(active, 2 + 1, 2 + a2) = SubSeq(sent, (i + 2) + 1, (i + 2) + a2)
    <3> DEFINE p == SubSeq(active, 2 + 1, 2 + a2)
               q == SubSeq(sent, (i + 2) + 1, (i + 2) + a2)
               b == i + 2
    <3>1. a2 \in Nat /\ 2 \in Nat /\ b \in Nat /\ b + a2 <= Len(sent) BY <1>2, <2>2
    <3>2. p \in Seq(Byte) /\ Len(p) = a2 /\ \A j \in 1 .. a2 : p[j] = active[2 + j]
      BY <1>0, <2>2, <3>1, PartFacts
    <3> HIDE DEF b, p
    <3>3. /\ SubSeq(sent, b + 1, b + a2) \in Seq(Byte)
          /\ Len(SubSeq(sent, b + 1, b + a2)) = a2
          /\ \A j \in 1 .. a2 : SubSeq(sent, b + 1, b + a2)[j] = sent[b + j]
      BY <1>0, <3>1, PartFacts
    <3>4. q \in Seq(Byte) /\ Len(q) = a2 /\ \A j \in 1 .. a2 : q[j] = sent[(i + 2) + j]
      BY Zenon, <3>3 DEF b
    <3> HIDE DEF q
    <3>5. Len(p) = Len(q) /\ \A j \in 1 .. Len(p) : p[j] = q[j] BY <2>1, <3>2, <3>4
    <3>6. p = q BY <3>2, <3>4, <3>5, SeqEqual
    <3> QED BY Zenon, <3>6 DEF p, q
  <2> QED BY <1>2, <1>3, <2>3 DEF PacketOf, PacketEnd, HeaderSize
<1>8. PacketOf(sent, i) \in PacketType /\ PacketEnd(sent, i) = i + 2 + a2
  BY <1>0, <1>3, PacketFacts
<1>9. packets' = Append(packets, PacketOf(sent, i)) BY <1>5, <1>7
<1>10. Consumed' = PacketEnd(sent, i)
  <2>1. Consumed' = received - n BY <1>5, <1>6 DEF Consumed
  <2>2. PacketEnd(sent, i) = i + a BY <1>m, <1>8
  <2>3. received - n = i + a BY <1>n, <1>m
  <2> QED BY <2>1, <2>2, <2>3
<1>11. TypeOK'
  <2>1. packets' \in Seq(PacketType) BY <1>0, <1>8, <1>9, AppendProperties
  <2>2. readData' \in 0 .. Capacity /\ readData' + Len(active') <= Capacity
    BY <1>n, <1>m, <1>5, <1>6
  <2>3. reading' \in BOOLEAN BY Zenon, <1>5 DEF FramingInv, TypeOK
  <2>4. received' \in 0 .. Len(sent') /\ sent' \in Seq(Byte) BY <1>0, <1>5
  <2> QED BY <1>6, <2>1, <2>2, <2>3, <2>4 DEF TypeOK
<1>12. WaitingBytes'
  <2>1. ASSUME NEW j \in 1 .. n PROVE active'[j] = sent[PacketEnd(sent, i) + j]
    <3>1. a + j \in 1 .. Len(active) /\ i + (a + j) = PacketEnd(sent, i) + j
      BY <1>n, <1>m, <1>8
    <3>2. active[a + j] = sent[i + (a + j)] BY <1>2, <3>1 DEF FramingInv, WaitingBytes
    <3> QED BY <1>6, <3>1, <3>2
  <2>2. Len(active') <= received'
    BY <1>n, <1>m, <1>5, <1>6, SMTT(30)
  <2> QED BY <1>5, <1>6, <1>10, <2>1, <2>2 DEF WaitingBytes
<1>13. FramedSoFar'
  <2>1. PICK starts \in [0 .. Len(packets) -> 0 .. received] :
          /\ FramedBy(starts, sent, received, packets)
          /\ starts[Len(packets)] = i
    BY <1>2 DEF FramingInv, FramedSoFar
  <2>2. \E more \in [0 .. Len(Append(packets, PacketOf(sent, i))) -> 0 .. received] :
           /\ FramedBy(more, sent, received, Append(packets, PacketOf(sent, i)))
           /\ more[Len(Append(packets, PacketOf(sent, i)))] = PacketEnd(sent, i)
    BY <1>0, <1>3, <2>1, FramedAppend, ZenonT(60)
  <2> QED BY <1>5, <1>9, <1>10, <2>2 DEF FramedSoFar
<1>14. NothingComplete' BY <1>5 DEF NothingComplete, TakePacket
<1> QED BY <1>11, <1>12, <1>13, <1>14 DEF FramingInv

(* The loop ends.                                                            *)
LEMMA StopInv ==
  ASSUME FramingInv, WaitForMore \/ StopAtInvalid \/ StopEmpty PROVE FramingInv'
<1>1. /\ UNCHANGED <<sent, received, active, packets>>
      /\ readData' = 0 \/ readData' = readData
      /\ ~(HeaderAccepted /\ HasPayload)
  <2>1. CASE WaitForMore BY <2>1 DEF WaitForMore, HeaderAccepted
  <2>2. CASE StopAtInvalid BY <2>2 DEF StopAtInvalid
  <2>3. CASE StopEmpty
    <3>1. active = <<>> BY <2>3 DEF StopEmpty
    <3>2. Len(active) = 0 BY <3>1
    <3>3. ~HeaderAccepted BY <3>2 DEF HeaderAccepted, HasHeader, HeaderSize
    <3> QED BY <2>3, <3>3 DEF StopEmpty
  <2> QED BY <2>1, <2>2, <2>3
<1>2. reading' = FALSE BY Zenon DEF WaitForMore, StopAtInvalid, StopEmpty
<1>3. TypeOK'
  <2>1. reading' \in BOOLEAN BY Zenon, <1>2
  <2>2. readData' \in 0 .. Capacity /\ readData' + Len(active') <= Capacity
    <3>1. /\ readData \in 0 .. Capacity /\ readData + Len(active) <= Capacity
          /\ Len(active) \in Nat /\ Capacity \in Nat
      BY SizesAssumption DEF FramingInv, TypeOK
    <3> QED BY <1>1, <3>1
  <2>3. /\ sent' \in Seq(Byte) /\ received' \in 0 .. Len(sent')
        /\ active' \in Seq(Byte) /\ packets' \in Seq(PacketType)
    BY <1>1 DEF FramingInv, TypeOK
  <2> QED BY <2>1, <2>2, <2>3 DEF TypeOK
<1>4. WaitingBytes' /\ FramedSoFar'
  BY <1>1 DEF FramingInv, WaitingBytes, FramedSoFar, Consumed
<1>5. NothingComplete'
  <2>1. ~PacketAt(sent, received, Consumed) BY <1>1, InBuffer
  <2> QED BY <1>1, <2>1 DEF NothingComplete, Consumed
<1> QED BY <1>3, <1>4, <1>5 DEF FramingInv

-----------------------------------------------------------------------------
(* Every step keeps the invariant.                                           *)
LEMMA FramingNext == ASSUME FramingInv, [Next]_framingVars PROVE FramingInv'
<1>1. CASE \E b \in Byte : Send(b) BY <1>1, SendInv
<1>2. CASE ReadStep BY <1>2, ReadInv DEF ReadStep
<1>3. CASE HandleRead BY <1>3, TakePacketInv, StopInv DEF HandleRead
<1>4. CASE UNCHANGED framingVars
  BY <1>4 DEF framingVars, FramingInv, TypeOK, WaitingBytes, FramedSoFar, NothingComplete, Consumed
<1> QED BY <1>1, <1>2, <1>3, <1>4 DEF Next

(* FramingInv holds in every reachable state.                                *)
THEOREM FramingInvariant == Spec => []FramingInv
BY FramingInit, FramingNext, PTL DEF Spec

(* The bytes a buffer holds, consumed or not, are never more than it has     *)
(* room for; what is enqueued are packets.                                   *)
THEOREM FramingTypeCorrect == Spec => []TypeOK
BY FramingInvariant, PTL DEF FramingInv

(* HandleRead enqueues exactly the packets of the bytes read so far, however *)
(* TCP cut them.                                                             *)
THEOREM StreamIsDecoded == Spec => []DecodesStream
BY FramingInvariant, FramingDecodes, PTL
=============================================================================
