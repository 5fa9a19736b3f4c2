----------------------- MODULE PriorityBufferProofs -----------------------
(***************************************************************************)
(* Sending a buffer that is more than half full protects it from packets of*)
(* at most half its size, whatever its size; and packets leave in order.   *)
(***************************************************************************)
EXTENDS PriorityBuffer, SequenceTheorems, TLAPS

(* A buffer is never fuller than it is large.                                *)
WithinCapacity == \A p \in Priority : written[p] <= Capacity

FitInv == TypeOK /\ WithinCapacity /\ BufferFits

(* Every step keeps the types. *)
LEMMA TypeStep == ASSUME TypeOK, [Next]_bufferVars PROVE TypeOK'
<1>1. ASSUME NEW p \in Priority, NEW size \in 1 .. MaxPacket, AddPacket(p, size)
      PROVE  TypeOK'
  <2> DEFINE first == SendsFirst(p, size)
             base == IF first THEN 0 ELSE written[p]
             rest == Kept(p, first)
  <2>1. size \in Nat /\ base \in Nat /\ rest \in Seq(Nat) /\ added[p] + 1 \in Nat
    BY SizeAssumption DEF TypeOK, Kept
  <2>2. /\ sent' = IF first THEN [sent EXCEPT ![p] = sent[p] \o content[p]] ELSE sent
        /\ timer' = IF first THEN [timer EXCEPT ![p] = 0] ELSE timer
        /\ waited' = IF rest = <<>> THEN [waited EXCEPT ![p] = 0] ELSE waited
        /\ written' = [written EXCEPT ![p] = base + size]
        /\ content' = [content EXCEPT ![p] = Append(rest, added[p] + 1)]
        /\ overrun' = (base + size > Capacity)
        /\ added' = [added EXCEPT ![p] = added[p] + 1]
    BY <1>1 DEF AddPacket
  <2> HIDE DEF first, base, rest
  <2>3. written' \in [Priority -> Nat] BY <2>1, <2>2 DEF TypeOK
  <2>4. content' \in [Priority -> Seq(Nat)]
    <3>1. Append(rest, added[p] + 1) \in Seq(Nat) BY <2>1, AppendProperties
    <3> QED BY <2>2, <3>1 DEF TypeOK
  <2>5. sent' \in [Priority -> Seq(Nat)]
    <3>1. sent[p] \o content[p] \in Seq(Nat) BY ConcatProperties DEF TypeOK
    <3> QED BY <2>2, <3>1 DEF TypeOK
  <2>6. /\ timer' \in [Priority -> Nat] /\ waited' \in [Priority -> Nat]
        /\ added' \in [Priority -> Nat]
    BY <2>1, <2>2 DEF TypeOK
  <2>7. overrun' \in BOOLEAN
    <3>1. overrun' = (base + size > Capacity) BY <2>2, Zenon
    <3>2. (base + size > Capacity) \in BOOLEAN BY <2>1, SizeAssumption
    <3> QED BY <3>1, <3>2, Zenon
  <2> QED BY <2>3, <2>4, <2>5, <2>6, <2>7 DEF TypeOK
<1>2. ASSUME NEW d \in 1 .. MaxTick, EndVisit(d) PROVE TypeOK'
  <2>1. d \in Nat BY TimeAssumption
  <2>2. sent' \in [Priority -> Seq(Nat)]
    <3>1. \A p \in Priority : sent[p] \o content[p] \in Seq(Nat) /\ sent[p] \in Seq(Nat)
      BY ConcatProperties DEF TypeOK
    <3> QED BY <1>2, <3>1 DEF EndVisit
  <2>3. content' \in [Priority -> Seq(Nat)] BY <1>2 DEF TypeOK, EndVisit
  <2>4. /\ written' \in [Priority -> Nat] /\ timer' \in [Priority -> Nat]
        /\ waited' \in [Priority -> Nat]
    BY <1>2, <2>1 DEF TypeOK, EndVisit, Waited
  <2>5. added' = added /\ overrun' = overrun BY <1>2 DEF EndVisit
  <2> QED BY <2>2, <2>3, <2>4, <2>5 DEF TypeOK
<1>3. CASE UNCHANGED bufferVars BY <1>3 DEF TypeOK, bufferVars
<1> QED BY <1>1, <1>2, <1>3 DEF Next

(* The buffers start with the right types. *)
LEMMA TypeInit == Init => TypeOK
<1> SUFFICES ASSUME Init PROVE TypeOK OBVIOUS
<1>1. overrun \in BOOLEAN BY Zenon DEF Init
<1>2. /\ written \in [Priority -> Nat] /\ timer \in [Priority -> Nat]
      /\ added \in [Priority -> Nat] /\ waited \in [Priority -> Nat]
      /\ content \in [Priority -> Seq(Nat)] /\ sent \in [Priority -> Seq(Nat)]
  BY DEF Init
<1> QED BY <1>1, <1>2 DEF TypeOK

(* The type invariant of the buffers. *)
THEOREM BufferTypeCorrect == Spec => []TypeOK
BY TypeInit, TypeStep, PTL DEF Spec

-----------------------------------------------------------------------------
(* Packets of at most half a buffer always fit: either the buffer was sent   *)
(* and the packet stands alone, or the buffer was at most half full.         *)
THEOREM SmallPacketsFit ==
  ASSUME 2 * MaxPacket <= Capacity PROVE Spec => []BufferFits
<1>1. Init => FitInv
  BY TypeInit, SizeAssumption DEF Init, FitInv, WithinCapacity, BufferFits
<1>2. FitInv /\ [Next]_bufferVars => FitInv'
  <2> SUFFICES ASSUME FitInv, [Next]_bufferVars PROVE FitInv' OBVIOUS
  <2>1. TypeOK /\ WithinCapacity /\ BufferFits /\ TypeOK' BY TypeStep DEF FitInv
  <2>2. ASSUME NEW p \in Priority, NEW size \in 1 .. MaxPacket, AddPacket(p, size)
        PROVE  WithinCapacity' /\ BufferFits'
    <3> DEFINE base == IF SendsFirst(p, size) THEN 0 ELSE written[p]
    <3>1. written[p] \in Nat /\ size \in Nat /\ size <= MaxPacket
      BY <2>1, SizeAssumption DEF TypeOK
    <3>2. base + size <= Capacity
      BY <3>1, SizeAssumption DEF SendsFirst, Space
    <3>3. /\ written' = [written EXCEPT ![p] = base + size]
          /\ overrun' = (base + size > Capacity)
      BY <2>2 DEF AddPacket
    <3>4. base + size \in Nat BY <3>1
    <3> HIDE DEF base
    <3>5. ~(base + size > Capacity) BY <3>2, <3>4, SizeAssumption
    <3>6. BufferFits' BY <3>3, <3>5 DEF BufferFits
    <3>7. WithinCapacity' BY <2>1, <3>2, <3>3 DEF WithinCapacity, TypeOK
    <3> QED BY <3>6, <3>7
  <2>3. ASSUME NEW d \in 1 .. MaxTick, EndVisit(d) PROVE WithinCapacity' /\ BufferFits'
    <3>1. BufferFits' BY <2>1, <2>3 DEF EndVisit, BufferFits
    <3>2. WithinCapacity' BY <2>1, <2>3, SizeAssumption DEF EndVisit, WithinCapacity, TypeOK
    <3> QED BY <3>1, <3>2
  <2>4. CASE UNCHANGED bufferVars
    BY <2>1, <2>4 DEF bufferVars, WithinCapacity, BufferFits, FitInv
  <2> QED BY <2>1, <2>2, <2>3, <2>4 DEF Next, FitInv
<1>3. FitInv => BufferFits BY DEF FitInv
<1> QED BY <1>1, <1>2, <1>3, PTL DEF Spec

-----------------------------------------------------------------------------
(* Concatenation of packet sequences is associative. *)
LEMMA ConcatNat ==
  ASSUME NEW s \in Seq(Nat), NEW t \in Seq(Nat), NEW u \in Seq(Nat)
  PROVE  (s \o t) \o u = s \o (t \o u)
BY ConcatAssociative, SMTT(60)

(* The stream of a priority: what was sent and what is buffered, one after   *)
(* the other, is what was added.                                             *)
LEMMA AppendToStream ==
  ASSUME NEW n \in Nat, NEW s \in Seq(Nat), NEW c \in Seq(Nat),
         s \o c = [i \in 1 .. n |-> i]
  PROVE  s \o Append(c, n + 1) = [i \in 1 .. n + 1 |-> i]
<1> DEFINE old == s \o c
           new == s \o Append(c, n + 1)
<1>1. old \in Seq(Nat) /\ Len(old) = Len(s) + Len(c) BY ConcatProperties
<1>2. Len(old) = n
  <2>1. DOMAIN old = 1 .. Len(old) BY <1>1
  <2>2. DOMAIN old = 1 .. n OBVIOUS
  <2> HIDE DEF old
  <2> QED BY <1>1, <2>1, <2>2
<1>3. /\ Append(c, n + 1) \in Seq(Nat) /\ Append(c, n + 1) = c \o <<n + 1>>
  BY AppendProperties, AppendIsConcat
<1>4. new = old \o <<n + 1>>
  <2> DEFINE last == <<n + 1>>
  <2>1. last \in Seq(Nat) OBVIOUS
  <2>2. new = s \o (c \o last) BY <1>3, Zenon
  <2> HIDE DEF last, new
  <2>3. (s \o c) \o last = s \o (c \o last) BY <2>1, ConcatNat
  <2> QED BY <2>2, <2>3, Zenon DEF last
<1>5. new = Append(old, n + 1) BY <1>1, <1>4, AppendIsConcat, SMTT(30)
<1>6. /\ new \in Seq(Nat) /\ Len(new) = n + 1
      /\ \A i \in 1 .. n : new[i] = old[i]
      /\ new[n + 1] = n + 1
  <2> HIDE DEF new, old
  <2> QED BY <1>1, <1>2, <1>5, AppendProperties
<1>7. \A i \in 1 .. n : old[i] = i OBVIOUS
<1> HIDE DEF new, old
<1>8. ASSUME NEW i \in 1 .. n + 1 PROVE new[i] = i
  <2>1. CASE i \in 1 .. n BY <1>6, <1>7, <2>1
  <2>2. CASE i = n + 1 BY <1>6, <2>2
  <2> QED BY <2>1, <2>2
<1>9. new = [i \in 1 .. n + 1 |-> i]
  <2>1. new = [i \in 1 .. n + 1 |-> new[i]] BY <1>6
  <2> QED BY <1>8, <2>1
<1> QED BY <1>9 DEF new

(* Packets of one priority are sent in the order they were added, each once. *)
THEOREM StreamsInOrder == Spec => []StreamInOrder
<1>1. Init => StreamInOrder
  <2> SUFFICES ASSUME Init PROVE StreamInOrder OBVIOUS
  <2>1. ASSUME NEW p \in Priority PROVE sent[p] \o content[p] = [i \in 1 .. added[p] |-> i]
    BY DEF Init
  <2> QED BY <2>1 DEF StreamInOrder
<1>2. TypeOK /\ StreamInOrder /\ [Next]_bufferVars => StreamInOrder'
  <2> SUFFICES ASSUME TypeOK, StreamInOrder, [Next]_bufferVars PROVE StreamInOrder' OBVIOUS
  <2>1. ASSUME NEW p \in Priority, NEW size \in 1 .. MaxPacket, AddPacket(p, size),
               NEW q \in Priority
        PROVE  sent'[q] \o content'[q] = [i \in 1 .. added'[q] |-> i]
    <3>0. /\ sent[q] \in Seq(Nat) /\ content[q] \in Seq(Nat) /\ added[q] \in Nat
          /\ sent[q] \o content[q] = [i \in 1 .. added[q] |-> i]
      BY DEF TypeOK, StreamInOrder
    <3>1. CASE q # p BY <2>1, <3>0, <3>1 DEF AddPacket, TypeOK
    <3>2. CASE q = p /\ SendsFirst(p, size)
      <4>1. /\ sent'[q] = sent[q] \o content[q] /\ content'[q] = Append(<<>>, added[q] + 1)
            /\ added'[q] = added[q] + 1
        BY <2>1, <3>2 DEF AddPacket, TypeOK, Kept
      <4>2. /\ sent[q] \o content[q] \in Seq(Nat) /\ <<>> \in Seq(Nat)
            /\ (sent[q] \o content[q]) \o <<>> = sent[q] \o content[q]
        BY <3>0, ConcatProperties, ConcatEmptySeq
      <4>3. (sent[q] \o content[q]) \o Append(<<>>, added[q] + 1)
              = [i \in 1 .. added[q] + 1 |-> i]
        BY <3>0, <4>2, AppendToStream, SMTT(30)
      <4> QED BY <4>1, <4>3
    <3>3. CASE q = p /\ ~SendsFirst(p, size)
      <4>1. /\ sent'[q] = sent[q] /\ content'[q] = Append(content[q], added[q] + 1)
            /\ added'[q] = added[q] + 1
        BY <2>1, <3>3 DEF AddPacket, TypeOK, Kept
      <4>2. sent[q] \o Append(content[q], added[q] + 1) = [i \in 1 .. added[q] + 1 |-> i]
        BY <3>0, AppendToStream
      <4> QED BY <4>1, <4>2
    <3> QED BY <3>1, <3>2, <3>3
  <2>2. ASSUME NEW d \in 1 .. MaxTick, EndVisit(d), NEW q \in Priority
        PROVE  sent'[q] \o content'[q] = [i \in 1 .. added'[q] |-> i]
    <3>0. /\ sent[q] \in Seq(Nat) /\ content[q] \in Seq(Nat)
          /\ sent[q] \o content[q] = [i \in 1 .. added[q] |-> i]
          /\ added'[q] = added[q]
      BY <2>2 DEF TypeOK, StreamInOrder, EndVisit
    <3>1. CASE q \in Due(d)
      <4>1. sent'[q] = sent[q] \o content[q] /\ content'[q] = <<>> BY <2>2, <3>1 DEF EndVisit
      <4>2. sent[q] \o content[q] \in Seq(Nat) BY <3>0, ConcatProperties
      <4>3. (sent[q] \o content[q]) \o <<>> = sent[q] \o content[q] BY <4>2, ConcatEmptySeq
      <4> QED BY <3>0, <4>1, <4>3
    <3>2. CASE q \notin Due(d)
      <4>1. sent'[q] = sent[q] /\ content'[q] = content[q] BY <2>2, <3>2 DEF EndVisit
      <4> QED BY <3>0, <4>1
    <3> QED BY <3>1, <3>2
  <2>3. CASE UNCHANGED bufferVars BY <2>3 DEF bufferVars, StreamInOrder
  <2> QED BY <2>1, <2>2, <2>3 DEF Next, StreamInOrder
<1> QED BY <1>1, <1>2, BufferTypeCorrect, PTL DEF Spec

-----------------------------------------------------------------------------
(* The timer runs with the oldest packet: an empty buffer has no timer, and  *)
(* the timer of a buffer with content is the time that packet has waited.    *)
TimerFollows ==
  \A p \in Priority :
    IF content[p] = <<>>
    THEN written[p] = 0 /\ timer[p] = 0
    ELSE written[p] > 0 /\ waited[p] = timer[p] /\ (timer[p] = 0 \/ timer[p] < FlushTime[p])

(* Neither an early send nor the end of a visit separates the two. *)
LEMMA TimerStep == ASSUME TypeOK, TimerFollows, [Next]_bufferVars PROVE TimerFollows'
<1>1. ASSUME NEW p \in Priority, NEW size \in 1 .. MaxPacket, AddPacket(p, size),
             NEW q \in Priority
      PROVE  IF content'[q] = <<>>
             THEN written'[q] = 0 /\ timer'[q] = 0
             ELSE /\ written'[q] > 0 /\ waited'[q] = timer'[q]
                  /\ timer'[q] = 0 \/ timer'[q] < FlushTime[q]
  <2>1. CASE q # p BY <1>1, <2>1 DEF AddPacket, TypeOK, TimerFollows
  <2>2. CASE q = p
    <3>1. /\ size \in Nat /\ size > 0 /\ written[p] \in Nat /\ content[p] \in Seq(Nat)
          /\ added[p] + 1 \in Nat
      BY SizeAssumption DEF TypeOK
    <3>2. Kept(p, SendsFirst(p, size)) \in Seq(Nat) BY <3>1 DEF Kept
    <3>3. Append(Kept(p, SendsFirst(p, size)), added[p] + 1) # <<>>
      BY <3>1, <3>2, AppendProperties
    <3>4. content'[p] # <<>> BY <1>1, <3>3 DEF AddPacket, TypeOK
    <3>5. written'[p] > 0 BY <1>1, <3>1, SMTT(30) DEF AddPacket, TypeOK
    <3>6. CASE Kept(p, SendsFirst(p, size)) = <<>>
      <4>1. waited'[p] = 0 BY <1>1, <3>6 DEF AddPacket, TypeOK
      <4>2. timer'[p] = 0
        BY <1>1, <3>6 DEF AddPacket, TypeOK, TimerFollows, Kept
      <4> QED BY <2>2, <3>4, <3>5, <4>1, <4>2
    <3>7. CASE Kept(p, SendsFirst(p, size)) # <<>>
      <4>1. ~SendsFirst(p, size) /\ content[p] # <<>> BY <3>7 DEF Kept
      <4>2. timer'[p] = timer[p] /\ waited'[p] = waited[p] BY <1>1, <3>7, <4>1 DEF AddPacket
      <4> QED BY <2>2, <3>4, <3>5, <4>1, <4>2 DEF TimerFollows
    <3> QED BY <3>6, <3>7
  <2> QED BY <2>1, <2>2
<1>2. ASSUME NEW d \in 1 .. MaxTick, EndVisit(d), NEW q \in Priority
      PROVE  IF content'[q] = <<>>
             THEN written'[q] = 0 /\ timer'[q] = 0
             ELSE /\ written'[q] > 0 /\ waited'[q] = timer'[q]
                  /\ timer'[q] = 0 \/ timer'[q] < FlushTime[q]
  <2>1. /\ d \in Nat /\ written[q] \in Nat /\ timer[q] \in Nat /\ FlushTime[q] \in Nat
        /\ waited[q] \in Nat
    BY TimeAssumption DEF TypeOK
  <2>2. CASE q \in Due(d) BY <1>2, <2>2 DEF EndVisit
  <2>3. CASE q \notin Due(d) /\ content[q] = <<>>
    BY <1>2, <2>1, <2>3 DEF EndVisit, TimerFollows, Waited
  <2>4. CASE q \notin Due(d) /\ content[q] # <<>>
    <3>1. /\ written[q] > 0 /\ waited[q] = timer[q] /\ ~(waited[q] > FlushTime[q])
          /\ Waited(q, d) = timer[q] + d /\ timer[q] + d < FlushTime[q]
      BY <2>1, <2>4 DEF TimerFollows, Due, Waited
    <3>2. /\ content'[q] = content[q] /\ written'[q] = written[q]
          /\ timer'[q] = timer[q] + d /\ waited'[q] = timer[q] + d
      BY <1>2, <2>4, <3>1 DEF EndVisit
    <3> QED BY <2>4, <3>1, <3>2
  <2> QED BY <2>2, <2>3, <2>4
<1>3. CASE UNCHANGED bufferVars BY <1>3 DEF bufferVars, TimerFollows
<1> QED BY <1>1, <1>2, <1>3 DEF Next, TimerFollows

(* No packet waits for the time of its priority or longer, for any capacity, *)
(* packet sizes, flush times and tick lengths, even when packets are larger  *)
(* than a buffer is meant for.                                               *)
THEOREM NoPacketWaits == Spec => []NoPacketWaitsTooLong
<1>1. Init => TimerFollows BY DEF Init, TimerFollows
<1>2. TypeOK /\ TimerFollows => NoPacketWaitsTooLong
  BY DEF TypeOK, TimerFollows, NoPacketWaitsTooLong
<1> QED BY <1>1, <1>2, TimerStep, BufferTypeCorrect, PTL DEF Spec
=============================================================================
