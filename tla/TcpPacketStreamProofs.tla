------------------------ MODULE TcpPacketStreamProofs ------------------------
(***************************************************************************)
(* Proofs about TcpPacketStream for every set of packets, every size of a  *)
(* read and any number of packets, connections and interrupts: a clean     *)
(* connection delivers its packets whole and in order, and receivePacket   *)
(* reports an error only at its end.                                       *)
(***************************************************************************)
EXTENDS TcpPacketStream, PacketFramingProofs

Types ==
  /\ wire \in Seq(Byte) /\ buffer \in Seq(Byte) /\ result \in Seq(Byte)
  /\ length \in Nat /\ skipFirstRead \in BOOLEAN /\ receiving \in BOOLEAN
  /\ sent \in Seq(Packets) /\ received \in Seq(Seq(Byte))
  /\ short \in Nat /\ short <= Len(sent)

(* The locals of receivePacket between two iterations. *)
Loop ==
  receiving =>
    /\ skipFirstRead => result = buffer /\ length = 0 /\ buffer # << >>
    /\ ~skipFirstRead => /\ length = Announced(result) /\ Len(result) < length + 6
                         /\ buffer # << >> => result # << >>

(* What was sent and not yet received, as this socket sees it. *)
pending == (IF receiving THEN result ELSE buffer) \o wire

(* It is the frames of the packets to come, up to the first short one. *)
Stream ==
  clean /\ (short = 0 \/ Len(received) < Whole) =>
    Framed(pending, sent, Len(received), Whole, short)

Inv == Types /\ Loop /\ Stream /\ PacketsIntact /\ ErrorMeansEnd

-----------------------------------------------------------------------------
LEMMA PacketsFramable == Packets \subseteq Framable
BY StreamAssumption DEF Framable

(* recv moves n bytes from the wire to the end of result. *)
Chunks(res, wi, n, r, v) ==
  r = res \o SubSeq(wi, 1, n) /\ v = SubSeq(wi, n + 1, Len(wi)) =>
    /\ r \in Seq(Byte) /\ v \in Seq(Byte) /\ r \o v = res \o wi /\ r # << >>
    /\ Len(res) >= 5 => Len(r) >= 5 /\ FrameLength(r) = FrameLength(res)

LEMMA Chunk ==
  ASSUME NEW res \in Seq(Byte), NEW wi \in Seq(Byte), NEW n \in 1 .. Len(wi), NEW r, NEW v
  PROVE  Chunks(res, wi, n, r, v)
<1> SUFFICES ASSUME r = res \o SubSeq(wi, 1, n), v = SubSeq(wi, n + 1, Len(wi))
             PROVE  /\ r \in Seq(Byte) /\ v \in Seq(Byte) /\ r \o v = res \o wi /\ r # << >>
                    /\ Len(res) >= 5 => Len(r) >= 5 /\ FrameLength(r) = FrameLength(res)
  BY Zenon DEF Chunks
<1>1. Len(res) \in Nat /\ Len(wi) \in Nat
  BY LenProperties
<1>2. PICK c : c = SubSeq(wi, 1, n)
  BY Zenon
<1>3. c \in Seq(Byte) /\ Len(c) = n /\ v \in Seq(Byte)
  <2>1. \A i \in 1 .. n : wi[i] \in Byte
    BY <1>1, ElementOfSeq
  <2>2. \A i \in n + 1 .. Len(wi) : wi[i] \in Byte
    BY <1>1, ElementOfSeq
  <2> QED BY <1>1, <1>2, <2>1, <2>2, SubSeqProperties
<1>4. c \o v = wi
  <2>1. /\ 1 \in 1 .. Len(wi) + 1 /\ n \in 1 - 1 .. Len(wi) /\ Len(wi) \in n .. Len(wi)
    BY <1>1
  <2>2. SubSeq(wi, 1, n) \o SubSeq(wi, n + 1, Len(wi)) = SubSeq(wi, 1, Len(wi))
    BY <2>1, ConcatAdjacentSubSeq, Zenon
  <2> QED BY <1>2, <2>2, SubSeqFull, Zenon
<1>5. r = res \o c
  BY <1>2
<1>6. r \o v = res \o wi
  <2>1. Regroups(res, c, v)
    BY <1>3, Regroup, Zenon
  <2> QED BY <1>4, <1>5, <2>1, Zenon DEF Regroups
<1>7. /\ r \in Seq(Byte) /\ Len(r) = Len(res) + n
      /\ \A i \in 1 .. Len(res) + n : r[i] = IF i <= Len(res) THEN res[i] ELSE c[i - Len(res)]
  <2>1. /\ res \o c \in Seq(Byte) /\ Len(res \o c) = Len(res) + Len(c)
        /\ \A i \in 1 .. Len(res) + Len(c) :
             (res \o c)[i] = IF i <= Len(res) THEN res[i] ELSE c[i - Len(res)]
    BY <1>3, ConcatProperties, Zenon
  <2> QED BY <1>3, <1>5, <2>1, Zenon
<1>8. r # << >>
  <2>1. Len(r) # 0
    BY <1>1, <1>7
  <2> QED BY <2>1, EmptySeq, Zenon
<1>9. ASSUME Len(res) >= 5 PROVE Len(r) >= 5 /\ FrameLength(r) = FrameLength(res)
  BY <1>1, <1>7, <1>9 DEF FrameLength
<1> QED BY Zenon, <1>3, <1>6, <1>7, <1>8, <1>9

-----------------------------------------------------------------------------
(* One iteration of receivePacket's loop, when it has read r ... *)
Reads(r) ==
  /\ receiving /\ UNCHANGED <<peerOpen, sent, short, clean, failed>>
  /\ r \in Seq(Byte) /\ r # << >> /\ wire' \in Seq(Byte) /\ r \o wire' = result \o wire
  /\ \/ /\ Len(r) >= Announced(r) + 6
        /\ received' = Append(received, Payload(r, Announced(r)))
        /\ buffer' = Beyond(r, Announced(r))
        /\ ReceiveReturn
     \/ /\ Len(r) < Announced(r) + 6
        /\ result' = r /\ length' = Announced(r) /\ skipFirstRead' = FALSE
        /\ UNCHANGED <<receiving, buffer, received>>

(* ... and when it returns an error. *)
Fails ==
  /\ receiving /\ ~skipFirstRead /\ UNCHANGED <<peerOpen, sent, short, clean>>
  /\ ReceiveError
  /\ \/ result = << >> /\ wire # << >> /\ wire[1] # Bar /\ wire' \in Seq(Byte)
     \/ ~peerOpen /\ wire = << >> /\ wire' = wire

LEMMA Accepting ==
  ASSUME Types, NEW r \in Seq(Byte), r # << >>, receiving, Accept(r),
         length = 0 \/ (Len(r) >= 5 /\ length = FrameLength(r)),
         wire' \in Seq(Byte), r \o wire' = result \o wire,
         UNCHANGED <<peerOpen, sent, short, clean>>
  PROVE  Reads(r)
<1> DEFINE len == IF length = 0 /\ Len(r) >= 5 THEN FrameLength(r) ELSE length
<1>1. len = Announced(r)
  BY DEF Announced
<1>2. \/ /\ Len(r) >= len + 6
         /\ received' = Append(received, Payload(r, len))
         /\ buffer' = Beyond(r, len)
         /\ ReceiveReturn
         /\ UNCHANGED failed
      \/ /\ Len(r) < len + 6
         /\ result' = r /\ length' = len /\ skipFirstRead' = FALSE
         /\ UNCHANGED <<receiving, buffer, received, failed>>
  BY Zenon DEF Accept
<1> HIDE DEF len
<1> QED BY <1>1, <1>2, Zenon DEF Reads

LEMMA Reading ==
  ASSUME Types, Loop, ReceiveLeftover \/ ReceiveChunk \/ ReceiveEnd
  PROVE  Fails \/ \E r : Reads(r)
<1>1. CASE ReceiveLeftover
  <2>1. /\ receiving /\ Accept(result) /\ UNCHANGED <<wire, peerOpen, sent, short, clean>>
        /\ result # << >> /\ length = 0
    BY <1>1, Zenon DEF ReceiveLeftover, Loop
  <2>2. PICK r : r = result
    OBVIOUS
  <2>3. /\ r \in Seq(Byte) /\ r # << >> /\ Accept(r) /\ wire' \in Seq(Byte)
        /\ r \o wire' = result \o wire
    BY <2>1, <2>2, Zenon DEF Types
  <2>4. Reads(r)
    BY <2>1, <2>3, Accepting, Zenon
  <2> QED BY <2>4
<1>2. CASE ReceiveChunk
  <2>1. /\ receiving /\ ~skipFirstRead /\ UNCHANGED <<peerOpen, sent, short, clean>>
        /\ length = Announced(result)
    BY <1>2, Zenon DEF ReceiveChunk, Loop
  <2>2. PICK n \in 1 .. ReadSize :
          /\ n <= Len(wire) /\ wire' = SubSeq(wire, n + 1, Len(wire))
          /\ IF result = << >> /\ wire[1] # Bar THEN ReceiveError
             ELSE Accept(result \o SubSeq(wire, 1, n))
    BY <1>2, Zenon DEF ReceiveChunk
  <2>3. PICK wi \in Seq(Byte), res \in Seq(Byte) : wi = wire /\ res = result
    BY DEF Types
  <2>4. PICK r, v : r = res \o SubSeq(wi, 1, n) /\ v = SubSeq(wi, n + 1, Len(wi))
    BY Zenon
  <2>5. n \in 1 .. Len(wi) /\ Len(wi) \in Nat
    BY <2>2, <2>3, LenProperties, StreamAssumption
  <2>6. /\ r \in Seq(Byte) /\ v \in Seq(Byte) /\ r \o v = res \o wi /\ r # << >>
        /\ Len(res) >= 5 => Len(r) >= 5 /\ FrameLength(r) = FrameLength(res)
    <3>1. Chunks(res, wi, n, r, v)
      BY <2>5, Chunk, Zenon
    <3> QED BY Zenon, <2>4, <3>1 DEF Chunks
  <2>7. wire' = v
    BY <2>2, <2>3, <2>4
  <2>8. CASE result = << >> /\ wire[1] # Bar
    <3>1. wire # << >>
      <4>1. Len(wi) # 0
        BY <2>5
      <4> QED BY <2>3, <4>1, EmptySeq, Zenon
    <3> QED BY <2>1, <2>2, <2>6, <2>7, <2>8, <3>1, Zenon DEF Fails
  <2>9. CASE ~(result = << >> /\ wire[1] # Bar)
    <3>1. Accept(r)
      BY <2>2, <2>3, <2>4, <2>9, Zenon
    <3>2. length = 0 \/ (Len(r) >= 5 /\ length = FrameLength(r))
      BY <2>1, <2>3, <2>6 DEF Announced
    <3>3. wire' \in Seq(Byte) /\ r \o wire' = result \o wire
      BY <2>3, <2>6, <2>7, Zenon
    <3>4. Reads(r)
      BY <2>1, <2>6, <3>1, <3>2, <3>3, Accepting, Zenon
    <3> QED BY <3>4
  <2> QED BY <2>8, <2>9
<1>3. CASE ReceiveEnd
  BY <1>3, Zenon DEF ReceiveEnd, Fails
<1> QED BY <1>1, <1>2, <1>3

-----------------------------------------------------------------------------
LEMMA TypesStep ==
  Types /\ Loop /\ [Next]_vars => Types' /\ Loop'
<1> SUFFICES ASSUME Types, Loop, [Next]_vars PROVE Types' /\ Loop'
  OBVIOUS
<1> USE DEF Types
<1>1. ASSUME NEW p \in Packets, WritePacket(p) PROVE Types' /\ Loop'
  <2>1. Frame(p) \in Seq(Byte)
    BY PacketsFramable, FrameBytes DEF Framable
  <2>2. /\ wire' = wire \o Frame(p) /\ sent' = Append(sent, p)
        /\ UNCHANGED <<buffer, call, received, short>>
    BY <1>1 DEF WritePacket
  <2>3. wire' \in Seq(Byte)
    BY <2>1, <2>2, ConcatProperties
  <2>4. sent' \in Seq(Packets) /\ Len(sent') = Len(sent) + 1 /\ Len(sent) \in Nat
    BY <2>2, AppendProperties, LenProperties
  <2> QED BY <2>2, <2>3, <2>4 DEF call, Loop
<1>2. ASSUME NEW p \in Packets, WritePacketShort(p) PROVE Types' /\ Loop'
  <2>1. Frame(p) \in Seq(Byte)
    BY PacketsFramable, FrameBytes DEF Framable
  <2>2. /\ sent' = Append(sent, p) /\ short' = IF short = 0 THEN Len(sent') ELSE short
        /\ UNCHANGED <<buffer, call, received>>
    BY <1>2 DEF WritePacketShort
  <2>3. PICK n \in 1 .. Len(Frame(p)) - 1 : wire' = wire \o SubSeq(Frame(p), 1, n)
    BY Zenon, <1>2 DEF WritePacketShort
  <2>4. SubSeq(Frame(p), 1, n) \in Seq(Byte)
    <3>1. \A i \in 1 .. n : Frame(p)[i] \in Byte
      BY <2>1, LenProperties, ElementOfSeq
    <3> QED BY <3>1, SubSeqProperties
  <2>5. wire' \in Seq(Byte)
    BY <2>3, <2>4, ConcatProperties
  <2>6. sent' \in Seq(Packets) /\ Len(sent') = Len(sent) + 1 /\ Len(sent) \in Nat
    BY <2>2, AppendProperties, LenProperties
  <2> QED BY <2>2, <2>5, <2>6 DEF call, Loop
<1>3. CASE PeerClose
  BY <1>3 DEF PeerClose, call, Loop
<1>4. CASE ReceiveBegin
  <2>1. /\ result' = buffer /\ skipFirstRead' = (buffer # << >>) /\ length' = 0 /\ receiving' = TRUE
        /\ UNCHANGED <<wire, buffer, sent, received, short>>
    BY <1>4 DEF ReceiveBegin, LooksFirst
  <2>2. buffer = << >> => Announced(buffer) = 0 /\ Len(buffer) < 6
    BY EmptySeq DEF Announced
  <2>3. skipFirstRead' \in BOOLEAN
    BY <2>1
  <2>4. Types'
    BY <2>1, <2>3
  <2>5. Loop'
    <3>1. CASE buffer = << >>
      <4>1. Announced(result') = 0 /\ Len(result') < length' + 6
        BY <2>1, <2>2, <3>1
      <4> QED BY <2>1, <3>1, <4>1 DEF Loop, Announced
    <3>2. CASE buffer # << >>
      BY Zenon, <2>1, <3>2 DEF Loop
    <3> QED BY <3>1, <3>2
  <2> QED BY <2>4, <2>5
<1>5. ASSUME NEW r, Reads(r) PROVE Types' /\ Loop'
  <2>1. r \in Seq(Byte) /\ Announced(r) \in Nat /\ wire' \in Seq(Byte) /\ r # << >> /\ receiving
    BY <1>5, AnnouncedType DEF Reads
  <2>2. CASE /\ Len(r) >= Announced(r) + 6
             /\ received' = Append(received, Payload(r, Announced(r)))
             /\ buffer' = Beyond(r, Announced(r))
             /\ ReceiveReturn
    <3>1. Payload(r, Announced(r)) \in Seq(Byte) /\ Beyond(r, Announced(r)) \in Seq(Byte)
      BY <2>1, <2>2, CompleteTypes
    <3>2. received' \in Seq(Seq(Byte)) /\ buffer' \in Seq(Byte)
      BY <2>2, <3>1, AppendProperties
    <3> QED BY Zenon, <1>5, <2>1, <2>2, <3>2, EmptySeq DEF Reads, ReceiveReturn, Loop
  <2>3. CASE /\ Len(r) < Announced(r) + 6
             /\ result' = r /\ length' = Announced(r) /\ skipFirstRead' = FALSE
             /\ UNCHANGED <<receiving, buffer, received>>
    BY Zenon, <1>5, <2>1, <2>3 DEF Reads, Loop
  <2> QED BY Zenon, <1>5, <2>2, <2>3 DEF Reads
<1>6. CASE Fails
  BY Zenon, <1>6, EmptySeq DEF Fails, ReceiveError, ReceiveReturn, Loop
<1>7. CASE ReceiveInterrupted
  BY Zenon, <1>7, EmptySeq DEF ReceiveInterrupted, ReceiveReturn, Loop
<1>8. CASE Reconnect
  BY <1>8, EmptySeq DEF Reconnect, call, Loop
<1>9. CASE UNCHANGED vars
  BY <1>9 DEF vars, call, Loop
<1> QED BY <1>1, <1>2, <1>3, <1>4, <1>5, <1>6, <1>7, <1>8, <1>9, Reading, Zenon DEF Next, Receive

-----------------------------------------------------------------------------
Delivery == Stream /\ PacketsIntact /\ ErrorMeansEnd

LEMMA WholeType ==
  ASSUME Types
  PROVE  /\ Whole \in Nat /\ Whole <= Len(sent) /\ (short = 0 => Whole = Len(sent))
         /\ Len(sent) \in Nat /\ Len(received) \in Nat
<1>1. Len(sent) \in Nat /\ Len(received) \in Nat /\ short \in Nat /\ short <= Len(sent)
  BY LenProperties DEF Types
<1> QED BY <1>1 DEF Whole

LEMMA PendingType ==
  ASSUME Types
  PROVE  pending \in Seq(Byte)
BY ConcatProperties DEF Types, pending

(* While whole packets are missing, the next one is at the front of pending. *)
LEMMA NextPacket ==
  ASSUME Inv, clean, Len(received) < Whole
  PROVE  \E p \in Framable, rest \in Seq(Byte) :
           /\ p = sent[Len(received) + 1]
           /\ pending = Frame(p) \o rest
           /\ Framed(rest, sent, Len(received) + 1, Whole, short)
<1>1. Types /\ Framed(pending, sent, Len(received), Whole, short)
  BY DEF Inv, Stream
<1>2. PICK k \in Nat, w \in Nat, s \in Seq(Packets) :
        k = Len(received) /\ w = Whole /\ s = sent /\ k < w /\ w <= Len(s)
  BY <1>1, WholeType DEF Types
<1>3. PICK z, stream : z = short /\ stream = pending
  OBVIOUS
<1>4. Framed(stream, s, k, w, z)
  BY <1>1, <1>2, <1>3
<1>5. PICK rest \in Seq(Byte) : stream = Frame(s[k + 1]) \o rest /\ Framed(rest, s, k + 1, w, z)
  BY <1>2, <1>4, FramedNext, Zenon
<1>6. s[k + 1] \in Framable
  <2>1. k + 1 \in 1 .. Len(s)
    BY <1>2, LenProperties
  <2> QED BY <2>1, ElementOfSeq, PacketsFramable
<1> QED BY <1>2, <1>3, <1>5, <1>6, Zenon

(* When all are received and none was sent in part, nothing is pending. *)
LEMMA NothingPending ==
  ASSUME Inv, clean, short = 0, ~(Len(received) < Whole)
  PROVE  pending = << >> /\ Len(received) = Whole
<1>1. Types /\ Framed(pending, sent, Len(received), Whole, 0) /\ Len(received) <= Len(sent)
  BY DEF Inv, Stream, PacketsIntact
<1>2. PICK k \in Nat : k = Len(received) /\ k = Whole
  BY <1>1, WholeType
<1>3. PICK s, stream : s = sent /\ stream = pending
  OBVIOUS
<1>4. Framed(stream, s, k, k, 0)
  BY <1>1, <1>2, <1>3
<1> QED BY <1>2, <1>3, <1>4, FramedEnd

(* A packet, or a piece of one, is written behind what is pending. *)
LEMMA WriteDelivers ==
  ASSUME Inv, NEW p \in Packets, peerOpen, NEW x \in Seq(Byte),
         wire' = wire \o x, sent' = Append(sent, p),
         UNCHANGED <<peerOpen, buffer, call, received, failed, clean>>,
         \/ x = Frame(p) /\ short' = short
         \/ short' = IF short = 0 THEN Len(sent') ELSE short
  PROVE  Delivery'
<1>1. Types
  BY DEF Inv
<1>2. /\ Whole \in Nat /\ Whole <= Len(sent) /\ (short = 0 => Whole = Len(sent))
      /\ Len(sent) \in Nat /\ Len(received) \in Nat
  BY <1>1, WholeType
<1>3. /\ Len(sent') = Len(sent) + 1
      /\ \A n \in 1 .. Len(sent) : sent'[n] = sent[n]
  BY <1>1, AppendProperties DEF Types
<1>4. pending' = pending \o x
  <2>1. PICK a \in Seq(Byte), b \in Seq(Byte) : a = (IF receiving THEN result ELSE buffer) /\ b = wire
    BY <1>1 DEF Types
  <2>2. Regroups(a, b, x)
    BY Regroup, Zenon
  <2>3. pending = a \o b
    BY <2>1, Zenon DEF pending
  <2>4. pending' = a \o (b \o x)
    BY <2>1 DEF pending, call
  <2> QED BY <2>2, <2>3, <2>4, Zenon DEF Regroups
<1>5. PICK z, stream : z = short /\ stream = pending
  OBVIOUS
<1>6. PICK k \in Nat, w \in Nat, s \in Seq(Packets) :
        /\ k = Len(received) /\ w = Whole /\ s = sent /\ z = short /\ stream = pending
        /\ w <= Len(s)
  BY <1>1, <1>2, <1>5, Zenon DEF Types
<1>7. s \in Seq(Framable) /\ p \in Framable
  BY PacketsFramable, SeqMonotonic
<1>8. CASE short' = 0
  <2>1. short = 0 /\ x = Frame(p)
    BY <1>2, <1>3, <1>8
  <2>2. Whole' = Len(sent) + 1 /\ Whole = Len(sent)
    BY <1>2, <1>3, <1>8 DEF Whole
  <2>3. Stream'
    <3>1. ASSUME clean PROVE Framed(pending', sent', Len(received'), Whole', short')
      <4>1. Framed(stream, s, k, Len(s), 0) /\ k <= Len(s)
        BY <1>2, <1>6, <2>1, <2>2, <3>1 DEF Inv, Stream, PacketsIntact
      <4>2. Framed(stream \o Frame(p), Append(s, p), k, Len(s) + 1, 0)
        BY <1>7, <4>1, FramedMore, Zenon
      <4> QED BY <1>4, <1>6, <1>8, <2>1, <2>2, <4>2, Zenon
    <3> QED BY <3>1, Zenon DEF Stream
  <2>4. PacketsIntact'
    <3>1. ASSUME clean
          PROVE  /\ \A n \in 1 .. Len(received) : n <= Whole' => received[n] = sent'[n]
                 /\ Len(received) <= Len(sent')
      <4>1. Len(received) <= Len(sent) /\ \A n \in 1 .. Len(received) : n <= Whole => received[n] = sent[n]
        BY <2>1, <3>1 DEF Inv, PacketsIntact
      <4> QED BY <1>2, <1>3, <2>2, <4>1
    <3> QED BY <3>1 DEF PacketsIntact
  <2>5. ErrorMeansEnd'
    BY <2>1 DEF Inv, ErrorMeansEnd
  <2> QED BY <2>3, <2>4, <2>5, Zenon DEF Delivery
<1>9. CASE short' # 0
  <2>1. Whole' = Whole
    BY <1>2, <1>3, <1>9 DEF Whole
  <2>2. Stream'
    <3>1. ASSUME clean, Len(received) < Whole PROVE Framed(pending', sent', Len(received'), Whole', short')
      <4>1. Framed(stream, s, k, w, z)
        BY <1>6, <3>1 DEF Inv, Stream
      <4>2. PICK y : y = short'
        OBVIOUS
      <4>3. Framed(stream \o x, Append(s, p), k, w, y)
        BY <1>6, <1>7, <1>9, <4>1, <4>2, FramedTrailing, Zenon
      <4> QED BY <1>4, <1>6, <2>1, <4>2, <4>3, Zenon
    <3> QED BY <1>9, <2>1, <3>1 DEF Stream
  <2>3. PacketsIntact'
    <3>1. ASSUME clean
          PROVE  \A n \in 1 .. Len(received) : n <= Whole => received[n] = sent'[n]
      <4>1. \A n \in 1 .. Len(received) : n <= Whole => received[n] = sent[n]
        BY <3>1 DEF Inv, PacketsIntact
      <4> QED BY <1>2, <1>3, <4>1
    <3> QED BY Zenon, <1>9, <2>1, <3>1 DEF PacketsIntact
  <2>4. ErrorMeansEnd'
    BY <1>9, <2>1 DEF Inv, ErrorMeansEnd
  <2> QED BY <2>2, <2>3, <2>4, Zenon DEF Delivery
<1> QED BY <1>8, <1>9

(* One iteration delivers the next packet, or nothing. *)
LEMMA ReadDelivers ==
  ASSUME Inv, NEW r, Reads(r)
  PROVE  Delivery'
<1>1. Types
  BY DEF Inv
<1>2. /\ Whole \in Nat /\ Whole <= Len(sent) /\ (short = 0 => Whole = Len(sent))
      /\ Len(sent) \in Nat /\ Len(received) \in Nat
  BY <1>1, WholeType
<1>3. /\ receiving /\ UNCHANGED <<peerOpen, sent, short, clean, failed>>
      /\ r \in Seq(Byte) /\ r # << >> /\ wire' \in Seq(Byte) /\ r \o wire' = pending
  BY Zenon DEF Reads, pending
<1>4. Whole' = Whole
  BY <1>3 DEF Whole
<1>5. Announced(r) \in Nat /\ Len(r) \in Nat
  BY <1>3, AnnouncedType, LenProperties
<1>6. CASE /\ Len(r) >= Announced(r) + 6
           /\ received' = Append(received, Payload(r, Announced(r)))
           /\ buffer' = Beyond(r, Announced(r))
           /\ ReceiveReturn
  <2>1. Payload(r, Announced(r)) \in Seq(Byte)
    BY <1>3, <1>5, <1>6, CompleteTypes
  <2>2. /\ Len(received') = Len(received) + 1
        /\ \A n \in 1 .. Len(received) : received'[n] = received[n]
        /\ received'[Len(received) + 1] = Payload(r, Announced(r))
    BY <1>1, <1>6, <2>1, AppendProperties DEF Types
  <2>3. ErrorMeansEnd'
    BY <1>2, <1>3, <1>4, <2>2 DEF Inv, ErrorMeansEnd
  <2>4. CASE ~clean
    BY <1>3, <2>3, <2>4, Zenon DEF Delivery, Stream, PacketsIntact
  <2>5. CASE clean /\ Len(received) < Whole
    <3>1. PICK p \in Framable, rest \in Seq(Byte) :
            /\ p = sent[Len(received) + 1]
            /\ pending = Frame(p) \o rest
            /\ Framed(rest, sent, Len(received) + 1, Whole, short)
      BY Zenon, <2>5, NextPacket
    <3>2. PICK v \in Seq(Byte) : v = wire'
      BY <1>3
    <3>3. r \o v = Frame(p) \o rest
      BY <1>3, <3>1, <3>2, Zenon
    <3>4. Cuts(p, rest, r, v)
      BY <1>3, Cut, Zenon
    <3>5. Announced(r) = Len(p)
      <4>1. Len(r) >= 5
        BY <1>5, <1>6
      <4> QED BY <3>3, <3>4, <4>1, Zenon DEF Cuts, Announced
    <3>6. Payload(r, Announced(r)) = p /\ Beyond(r, Announced(r)) \o v = rest
      BY <1>6, <3>3, <3>4, <3>5, Zenon DEF Cuts
    <3>7. pending' = rest
      BY <1>6, <3>2, <3>6 DEF pending, ReceiveReturn
    <3>8. Stream'
      BY <1>3, <1>4, <2>2, <3>1, <3>7, Zenon DEF Stream
    <3>9. PacketsIntact'
      <4>1. \A n \in 1 .. Len(received) : n <= Whole => received[n] = sent[n]
        BY <2>5 DEF Inv, PacketsIntact
      <4>2. ASSUME NEW n \in 1 .. Len(received) + 1, n <= Whole PROVE received'[n] = sent[n]
        <5>1. CASE n = Len(received) + 1
          BY <2>2, <3>1, <3>6, <5>1
        <5>2. CASE n # Len(received) + 1
          BY <1>2, <2>2, <4>1, <4>2, <5>2
        <5> QED BY <5>1, <5>2
      <4>3. short = 0 => Len(received) + 1 <= Len(sent)
        BY <1>2, <2>5
      <4> QED BY <1>3, <1>4, <2>2, <4>2, <4>3 DEF PacketsIntact
    <3> QED BY <2>3, <3>8, <3>9, Zenon DEF Delivery
  <2>6. CASE clean /\ ~(Len(received) < Whole)
    <3>1. short # 0
      <4>1. SUFFICES ASSUME short = 0 PROVE FALSE
        OBVIOUS
      <4>2. pending = << >>
        BY <2>6, <4>1, NothingPending
      <4>3. PICK v \in Seq(Byte) : v = wire'
        BY <1>3
      <4>4. r \o v = << >>
        BY <1>3, <4>2, <4>3, Zenon
      <4> QED BY <1>3, <4>4, ConcatEqualIffEmpty
    <3>2. Stream'
      BY <1>2, <1>3, <1>4, <2>2, <2>6, <3>1 DEF Stream
    <3>3. PacketsIntact'
      <4>1. \A n \in 1 .. Len(received) : n <= Whole => received[n] = sent[n]
        BY <2>6 DEF Inv, PacketsIntact
      <4>2. \A n \in 1 .. Len(received) + 1 : n <= Whole => received'[n] = sent[n]
        BY <1>2, <2>2, <2>6, <4>1
      <4> QED BY <1>3, <1>4, <2>2, <3>1, <4>2 DEF PacketsIntact
    <3> QED BY <2>3, <3>2, <3>3, Zenon DEF Delivery
  <2> QED BY <2>4, <2>5, <2>6
<1>7. CASE /\ Len(r) < Announced(r) + 6
           /\ result' = r /\ length' = Announced(r) /\ skipFirstRead' = FALSE
           /\ UNCHANGED <<receiving, buffer, received>>
  <2>1. pending' = pending
    BY SMTT(30), <1>3, <1>7 DEF pending
  <2> QED BY <1>3, <1>4, <1>7, <2>1, Zenon DEF Inv, Delivery, Stream, PacketsIntact, ErrorMeansEnd
<1> QED BY <1>6, <1>7, Zenon DEF Reads

(* An error is not returned while a whole packet is missing. *)
LEMMA FailDelivers ==
  ASSUME Inv, Fails
  PROVE  Delivery'
<1>1. /\ Types /\ receiving /\ ~skipFirstRead /\ UNCHANGED <<peerOpen, sent, short, clean>>
      /\ UNCHANGED <<buffer, received>> /\ receiving' = FALSE
  BY DEF Inv, Fails, ReceiveError, ReceiveReturn
<1>2. /\ Whole \in Nat /\ Whole <= Len(sent) /\ (short = 0 => Whole = Len(sent))
      /\ Len(sent) \in Nat /\ Len(received) \in Nat
  BY <1>1, WholeType
<1>3. Whole' = Whole
  BY <1>1 DEF Whole
<1>4. pending = result \o wire
  BY <1>1, Zenon DEF pending
<1>5. PacketsIntact'
  BY <1>1, <1>3, Zenon DEF Inv, PacketsIntact
<1>6. PICK res \in Seq(Byte), v \in Seq(Byte) : res = result /\ v = wire
  BY <1>1 DEF Types
<1>7. ASSUME clean, Len(received) < Whole PROVE FALSE
  <2>1. PICK p \in Framable, rest \in Seq(Byte) : pending = Frame(p) \o rest
    BY Zenon, <1>7, NextPacket
  <2>2. res \o v = Frame(p) \o rest
    BY <1>4, <1>6, <2>1, Zenon
  <2>3. Cuts(p, rest, res, v)
    BY Cut, Zenon
  <2>4. /\ Len(res) >= 5 => FrameLength(res) = Len(p)
        /\ Len(res \o v) >= Len(p) + 6 /\ (res \o v)[1] = Bar
    BY <2>2, <2>3, Zenon DEF Cuts
  <2>5. CASE result = << >> /\ wire[1] # Bar
    <3>1. res \o v = v
      BY <1>6, <2>5, ConcatEmptySeq, Zenon
    <3> QED BY <1>6, <2>4, <2>5, <3>1, Zenon
  <2>6. CASE wire = << >>
    <3>1. res \o v = res
      BY <1>6, <2>6, ConcatEmptySeq, Zenon
    <3>2. Len(p) \in Nat /\ Len(res) \in Nat
      BY LenProperties DEF Framable
    <3>3. Len(res) >= Len(p) + 6
      BY <2>4, <3>1
    <3>4. Announced(res) = Len(p)
      BY <2>4, <3>2, <3>3 DEF Announced
    <3>5. Len(res) < Announced(res) + 6
      BY <1>1, <1>6 DEF Inv, Loop
    <3> QED BY <3>2, <3>3, <3>4, <3>5
  <2> QED BY <2>5, <2>6, Zenon DEF Fails
<1>8. ASSUME clean, short = 0 PROVE ~peerOpen /\ wire = << >> /\ wire' = << >> /\ buffer = << >>
  <2>1. pending = << >>
    BY <1>7, <1>8, NothingPending
  <2>2. result = << >> /\ wire = << >>
    <3>1. res \o v = << >>
      BY <1>4, <1>6, <2>1, Zenon
    <3>2. res = << >> /\ v = << >>
      BY <3>1, ConcatEqualIffEmpty
    <3> QED BY <1>6, <3>2
  <2>3. buffer = << >>
    BY <1>1, <2>2, Zenon DEF Inv, Loop
  <2> QED BY <2>2, <2>3, Zenon DEF Fails
<1>9. ErrorMeansEnd'
  BY <1>1, <1>2, <1>3, <1>7, <1>8 DEF ErrorMeansEnd
<1>10. Stream'
  <2>1. ASSUME clean, short = 0 PROVE Framed(pending', sent, Len(received), Whole, 0)
    <3>1. pending' = << >> /\ Len(received) = Whole
      <4>1. Len(received) = Whole
        BY <1>7, <2>1, NothingPending
      <4>2. pending' = << >> \o << >>
        BY <1>1, <1>8, <2>1 DEF pending
      <4> QED BY <4>1, <4>2, EmptySeq, ConcatEmptySeq
    <3>2. PICK s : s = sent
      OBVIOUS
    <3>3. PICK k \in Nat : k = Len(received) /\ s = sent
      BY <1>2, <3>2
    <3>4. Framed(<< >>, s, k, k, 0)
      BY FramedNothing
    <3> QED BY <3>1, <3>3, <3>4
  <2> QED BY <1>1, <1>3, <1>7, <2>1 DEF Stream
<1> QED BY <1>5, <1>9, <1>10, Zenon DEF Delivery

-----------------------------------------------------------------------------
LEMMA InitInv == Init => Inv
<1> SUFFICES ASSUME Init PROVE Inv
  OBVIOUS
<1>1. Types /\ Loop
  <2>1. << >> \in Seq(Byte) /\ << >> \in Seq(Packets) /\ << >> \in Seq(Seq(Byte)) /\ 0 <= Len(<< >>)
    BY EmptySeq
  <2>2. 0 \in Nat /\ FALSE \in BOOLEAN
    OBVIOUS
  <2> QED BY <2>1, <2>2, Zenon DEF Init, Types, Loop
<1>2. pending = << >> /\ Len(received) = 0 /\ Whole = 0 /\ short = 0
  <2>1. pending = << >> \o << >>
    BY DEF Init, pending
  <2> QED BY <2>1, EmptySeq, ConcatEmptySeq DEF Init, Whole
<1>3. Stream
  <2>1. PICK s : s = sent
    OBVIOUS
  <2>2. Framed(<< >>, s, 0, 0, 0)
    BY FramedNothing
  <2> QED BY <1>2, <2>1, <2>2 DEF Stream
<1> QED BY <1>1, <1>2, <1>3 DEF Init, Inv, PacketsIntact, ErrorMeansEnd

LEMMA InvStep == Inv /\ [Next]_vars => Inv'
<1> SUFFICES ASSUME Inv, [Next]_vars PROVE Inv'
  OBVIOUS
<1>1. Types /\ Loop
  BY DEF Inv
<1>2. Types' /\ Loop'
  BY <1>1, TypesStep, Zenon
<1> SUFFICES Delivery'
  BY <1>2, Zenon DEF Inv, Delivery
<1>3. ASSUME NEW p \in Packets, WritePacket(p) PROVE Delivery'
  <2>1. PICK x \in Seq(Byte) : x = Frame(p)
    BY PacketsFramable, FrameBytes DEF Framable
  <2>2. /\ peerOpen /\ wire' = wire \o x /\ sent' = Append(sent, p)
        /\ UNCHANGED <<peerOpen, buffer, call, received, failed, clean>>
        /\ short' = short
    BY <1>3, <2>1, Zenon DEF WritePacket
  <2> QED BY <2>1, <2>2, WriteDelivers, Zenon
<1>4. ASSUME NEW p \in Packets, WritePacketShort(p) PROVE Delivery'
  <2>1. PICK n \in 1 .. Len(Frame(p)) - 1 : wire' = wire \o SubSeq(Frame(p), 1, n)
    BY <1>4, Zenon DEF WritePacketShort
  <2>2. Frame(p) \in Seq(Byte)
    BY PacketsFramable, FrameBytes DEF Framable
  <2>3. SubSeq(Frame(p), 1, n) \in Seq(Byte)
    <3>1. \A i \in 1 .. n : Frame(p)[i] \in Byte
      BY <2>2, LenProperties, ElementOfSeq
    <3> QED BY <3>1, SubSeqProperties
  <2>4. PICK x \in Seq(Byte) : x = SubSeq(Frame(p), 1, n)
    BY Zenon, <2>3
  <2>5. /\ peerOpen /\ wire' = wire \o x /\ sent' = Append(sent, p)
        /\ UNCHANGED <<peerOpen, buffer, call, received, failed, clean>>
        /\ short' = IF short = 0 THEN Len(sent') ELSE short
    BY <1>4, <2>1, <2>4, Zenon DEF WritePacketShort
  <2> QED BY <2>5, WriteDelivers, Zenon
<1>5. CASE PeerClose
  BY <1>5 DEF PeerClose, call, Inv, Delivery, Stream, PacketsIntact, ErrorMeansEnd, Whole, pending
<1>6. CASE ReceiveBegin
  <2>1. /\ ~receiving /\ receiving' = TRUE /\ result' = buffer
        /\ UNCHANGED <<wire, peerOpen, sent, received, failed, short, clean>>
    BY <1>6 DEF ReceiveBegin
  <2>2. pending' = pending /\ Whole' = Whole
    BY <2>1 DEF pending, Whole
  <2> QED BY <2>1, <2>2, Zenon DEF Inv, Delivery, Stream, PacketsIntact, ErrorMeansEnd
<1>7. CASE ReceiveLeftover \/ ReceiveChunk \/ ReceiveEnd
  BY <1>1, <1>7, Reading, ReadDelivers, FailDelivers, Zenon
<1>8. CASE ReceiveInterrupted
  <2>1. /\ receiving /\ receiving' = FALSE /\ clean' = (clean /\ result = buffer)
        /\ UNCHANGED <<wire, peerOpen, buffer, sent, received, failed, short>>
    BY <1>8 DEF ReceiveInterrupted, ReceiveReturn
  <2>2. Whole' = Whole /\ (clean' => clean /\ pending' = pending)
    BY Zenon, <2>1 DEF pending, Whole
  <2> QED BY <2>1, <2>2, Zenon DEF Inv, Delivery, Stream, PacketsIntact, ErrorMeansEnd
<1>9. CASE Reconnect
  <2>1. /\ ~receiving /\ ~receiving' /\ wire' = << >> /\ sent' = << >> /\ received' = << >>
        /\ failed' = FALSE /\ short' = 0 /\ clean' = (buffer = << >>) /\ buffer' = buffer
    BY <1>9 DEF Reconnect, call
  <2>2. Len(received') = 0 /\ Len(sent') = 0 /\ Whole' = 0
    BY <2>1, EmptySeq DEF Whole
  <2>3. clean' => pending' = << >>
    <3>1. clean' => pending' = << >> \o << >>
      BY Zenon, <2>1 DEF pending
    <3> QED BY <3>1, EmptySeq, ConcatEmptySeq
  <2>4. Stream'
    <3>1. Framed(<< >>, << >>, 0, 0, 0)
      BY FramedNothing
    <3> QED BY <2>1, <2>2, <2>3, <3>1 DEF Stream
  <2> QED BY <2>1, <2>2, <2>4 DEF Delivery, PacketsIntact, ErrorMeansEnd
<1>10. CASE UNCHANGED vars
  BY <1>10 DEF vars, call, Inv, Delivery, Stream, PacketsIntact, ErrorMeansEnd, Whole, pending
<1> QED BY <1>3, <1>4, <1>5, <1>6, <1>7, <1>8, <1>9, <1>10, Zenon DEF Next, Receive

(* The inductive invariant: what receivePacket holds (_buffer, or the result *)
(* of a call under way) followed by what is on the wire are the frames of    *)
(* the packets after the received ones (TcpSocket.cpp:437-494).              *)
THEOREM Invariance == Spec => []Inv
BY InitInv, InvStep, PTL DEF Spec

(* "A single packet is received as a single packet" (TcpSocket.h:74), for    *)
(* every set of packets, wherever TCP cuts the stream and whatever recv      *)
(* delivers at a time.                                                       *)
THEOREM PacketsIntactHolds == Spec => []PacketsIntact
<1>1. Inv => PacketsIntact
  BY DEF Inv
<1> QED BY <1>1, Invariance, PTL

(* The framing check and the end of the stream are reported only after every *)
(* whole packet was delivered (TcpSocket.cpp:437-494).                       *)
THEOREM ErrorMeansEndHolds == Spec => []ErrorMeansEnd
<1>1. Inv => ErrorMeansEnd
  BY DEF Inv
<1> QED BY <1>1, Invariance, PTL
=============================================================================
