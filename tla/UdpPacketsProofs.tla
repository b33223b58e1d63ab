-------------------------- MODULE UdpPacketsProofs ---------------------------
(***************************************************************************)
(* Proofs about UdpPackets for every set of writers, sockets and packets,  *)
(* every size of a datagram and any number of faults: what is received     *)
(* from a sender that met with no fault is a prefix of what it sent;       *)
(* packets that fit into a datagram are never damaged; and each of         *)
(* receivePacket's errors has the one cause stated for it.                 *)
(***************************************************************************)
EXTENDS UdpPackets, PacketFramingProofs

LEMMA PacketsFramable == Packets \subseteq Framable
BY UdpAssumption DEF Framable

LEMMA MinOfTwo ==
  ASSUME NEW x \in Nat, NEW y \in Nat
  PROVE  Min({x, y}) = IF x <= y THEN x ELSE y
<1> DEFINE m == IF x <= y THEN x ELSE y
<1>1. m \in {x, y} /\ \A v \in {x, y} : m <= v
  OBVIOUS
<1>2. \A u \in {x, y} : (\A v \in {x, y} : u <= v) => u = m
  OBVIOUS
<1> QED BY <1>1, <1>2 DEF Min

(* The i-th datagram of f lies between two multiples of MAX_PACKET_SIZE. *)
Spans(f, i, lo, hi) ==
  /\ lo = (i - 1) * MAX_PACKET_SIZE /\ lo <= hi /\ hi <= Len(f)
  /\ Datagrams(f)[i] = SubSeq(f, lo + 1, hi)
  /\ i <= Len(f) \div MAX_PACKET_SIZE => hi = i * MAX_PACKET_SIZE /\ hi = lo + MAX_PACKET_SIZE
  /\ i = Len(f) \div MAX_PACKET_SIZE + 1 => hi = Len(f) /\ hi = lo + (Len(f) % MAX_PACKET_SIZE)

LEMMA DatagramAt ==
  ASSUME NEW f \in Seq(Byte), NEW i \in 1 .. (Len(f) \div MAX_PACKET_SIZE + 1)
  PROVE  \E lo \in Nat, hi \in Nat : Spans(f, i, lo, hi)
<1>1. PICK M \in Nat \ {0}, L \in Nat : M = MAX_PACKET_SIZE /\ L = Len(f)
  BY Zenon, UdpAssumption, LenProperties
<1>2. PICK q \in Nat, r \in Nat : q = L \div M /\ r = L % M /\ L = M * q + r /\ r < M
  <2>1. L \div M \in Nat /\ L % M \in Nat /\ L = M * (L \div M) + (L % M) /\ L % M < M
    OBVIOUS
  <2> QED BY <2>1, Zenon
<1>3. i \in 1 .. q + 1
  BY <1>1, <1>2
<1>4. PICK lo \in Nat : lo = (i - 1) * M
  BY <1>3
<1>5. i * M = lo + M /\ i * M \in Nat
  BY <1>3, <1>4
<1>6. PICK hi : hi = Min({i * M, L})
  OBVIOUS
<1>7. hi = IF i * M <= L THEN i * M ELSE L
  BY <1>5, <1>6, MinOfTwo
<1>8. Datagrams(f)[i] = SubSeq(f, lo + 1, hi)
  BY Zenon, <1>1, <1>4, <1>6 DEF Datagrams
<1>9. CASE i <= q
  <2>1. i * M <= q * M
    BY <1>3, <1>9
  <2>2. q * M = M * q /\ M * q \in Nat
    OBVIOUS
  <2>3. i * M <= L
    BY <1>2, <1>5, <2>1, <2>2
  <2>4. hi = i * M /\ hi = lo + M /\ i # q + 1
    BY <1>5, <1>7, <1>9, <2>3
  <2>5. lo <= hi /\ hi <= L /\ hi \in Nat
    BY <1>5, <2>3, <2>4
  <2>6. Spans(f, i, lo, hi)
    BY <1>1, <1>2, <1>4, <1>8, <2>4, <2>5, Zenon DEF Spans
  <2> QED BY <2>5, <2>6
<1>10. CASE i = q + 1
  <2>1. lo = M * q /\ i - 1 = q
    BY <1>4, <1>10
  <2>2. L < i * M /\ lo <= L /\ L = lo + r
    BY SMTT(30), <1>2, <1>5, <2>1
  <2>3. hi = L
    BY <1>5, <1>7, <2>2
  <2>4. ~(i <= q)
    BY <1>10
  <2>5. hi <= L /\ hi \in Nat
    BY <2>3
  <2>6. Spans(f, i, lo, hi)
    BY <1>1, <1>2, <1>4, <1>8, <2>2, <2>3, <2>4, <2>5, Zenon DEF Spans
  <2> QED BY <2>5, <2>6
<1> QED BY <1>3, <1>9, <1>10

LEMMA DatagramsLen ==
  ASSUME NEW f \in Seq(Byte)
  PROVE  /\ Len(f) \div MAX_PACKET_SIZE \in Nat
         /\ Len(Datagrams(f)) = Len(f) \div MAX_PACKET_SIZE + 1
         /\ Datagrams(f) \in Seq(Seq(Byte))
<1>1. PICK n \in Nat : n = Len(f) \div MAX_PACKET_SIZE
  <2>1. Len(f) \in Nat
    BY LenProperties
  <2> QED BY <2>1, UdpAssumption
<1>2. \A i \in 1 .. n + 1 : Datagrams(f)[i] \in Seq(Byte)
  <2> TAKE i \in 1 .. n + 1
  <2>1. PICK lo \in Nat, hi \in Nat : Spans(f, i, lo, hi)
    BY <1>1, DatagramAt
  <2>2. \A j \in lo + 1 .. hi : f[j] \in Byte
    <3> TAKE j \in lo + 1 .. hi
    <3>1. j \in 1 .. Len(f)
      BY <2>1, LenProperties DEF Spans
    <3> QED BY <3>1, ElementOfSeq
  <2>3. SubSeq(f, lo + 1, hi) \in Seq(Byte)
    BY <2>2, SubSeqProperties
  <2> QED BY <2>1, <2>3 DEF Spans
<1>3. DOMAIN Datagrams(f) = 1 .. n + 1 /\ Datagrams(f) = [i \in 1 .. n + 1 |-> Datagrams(f)[i]]
  BY Zenon, <1>1 DEF Datagrams
<1>4. Datagrams(f) \in [1 .. n + 1 -> Seq(Byte)]
  BY <1>2, <1>3, Zenon
<1> QED BY <1>1, <1>4

(* Cutting a frame into datagrams loses nothing. *)
LEMMA DatagramsJoined ==
  ASSUME NEW f \in Seq(Byte)
  PROVE  Joined(f, Datagrams(f))
<1>1. PICK M \in Nat \ {0}, L \in Nat : M = MAX_PACKET_SIZE /\ L = Len(f)
  BY UdpAssumption, LenProperties
<1>2. PICK q \in Nat : q = L \div M
  BY <1>1
<1>3. Len(Datagrams(f)) = q + 1
  BY <1>1, <1>2, DatagramsLen
<1> DEFINE tails == [i \in Nat |-> IF i <= q THEN SubSeq(f, i * M + 1, L) ELSE << >>]
<1>4. ASSUME NEW m \in Nat PROVE SubSeq(f, m + 1, L) \in Seq(Byte)
  <2>1. \A j \in m + 1 .. L : f[j] \in Byte
    BY <1>1, ElementOfSeq
  <2> QED BY <2>1, SubSeqProperties
<1>5. tails \in [Nat -> Seq(Byte)]
  <2>1. ASSUME NEW i \in Nat PROVE SubSeq(f, i * M + 1, L) \in Seq(Byte)
    <3>1. i * M \in Nat
      OBVIOUS
    <3> QED BY <1>4, <3>1
  <2> QED BY Zenon, <2>1, EmptySeq
<1>6. tails[0] = f
  <2>1. 0 * M + 1 = 1 /\ 0 <= q
    OBVIOUS
  <2>2. tails[0] = SubSeq(f, 1, L)
    BY <2>1
  <2> QED BY <1>1, <2>2, SubSeqFull, Zenon
<1>7. tails[q + 1] = << >>
  OBVIOUS
<1>8. ASSUME NEW i \in 1 .. q + 1 PROVE tails[i - 1] = Datagrams(f)[i] \o tails[i]
  <2>1. PICK lo \in Nat, hi \in Nat : Spans(f, i, lo, hi)
    BY <1>1, <1>2, DatagramAt
  <2>2. /\ lo = (i - 1) * M /\ lo <= hi /\ hi <= L /\ Datagrams(f)[i] = SubSeq(f, lo + 1, hi)
        /\ i <= q => hi = i * M
        /\ i = q + 1 => hi = L
    BY <1>1, <1>2, <2>1, Zenon DEF Spans
  <2>3. tails[i - 1] = SubSeq(f, lo + 1, L)
    BY <2>2
  <2>4. tails[i] = SubSeq(f, hi + 1, L)
    <3>1. CASE i <= q
      BY <2>2, <3>1
    <3>2. CASE i = q + 1
      <4>1. tails[i] = << >> /\ L < hi + 1 /\ hi + 1 \in Int /\ L \in Int
        BY <2>2, <3>2
      <4>2. SubSeq(f, hi + 1, L) = << >>
        BY <4>1, SubSeqEmpty, Zenon
      <4> QED BY <4>1, <4>2, Zenon
    <3> QED BY <3>1, <3>2
  <2>5. SubSeq(f, lo + 1, hi) \o SubSeq(f, hi + 1, L) = SubSeq(f, lo + 1, L)
    <3>1. lo + 1 \in 1 .. Len(f) + 1 /\ hi \in (lo + 1) - 1 .. Len(f) /\ L \in hi .. Len(f)
      BY <1>1, <2>2
    <3> QED BY <3>1, ConcatAdjacentSubSeq, Zenon
  <2> QED BY <2>2, <2>3, <2>4, <2>5, Zenon
<1> HIDE DEF tails
<1>9. Chain(tails, f, Datagrams(f))
  BY <1>3, <1>5, <1>6, <1>7, <1>8, Zenon DEF Chain
<1> QED BY <1>9 DEF Joined

(* A frame that fits into a datagram is one, and an empty one may follow. *)
LEMMA DatagramsSmall ==
  ASSUME NEW f \in Seq(Byte), f # << >>, Len(f) <= MAX_PACKET_SIZE
  PROVE  Datagrams(f) \in Seq({<< >>, f})
<1>1. PICK M \in Nat \ {0}, L \in Nat \ {0} : M = MAX_PACKET_SIZE /\ L = Len(f)
  BY UdpAssumption, EmptySeq
<1>2. PICK q \in Nat : q = L \div M
  BY <1>1
<1>3. /\ Len(Datagrams(f)) = q + 1 /\ Datagrams(f) \in Seq(Seq(Byte))
  BY <1>1, <1>2, DatagramsLen
<1>4. L <= M
  BY <1>1
<1>5. q = 0 \/ (q = 1 /\ L = M)
  <2>1. q * M <= L
    BY <1>2
  <2>2. CASE q >= 2
    <3>1. q * M >= 2 * M
      BY <2>2
    <3>2. q * M \in Nat /\ 2 * M > M
      OBVIOUS
    <3> QED BY <1>4, <2>1, <3>1, <3>2
  <2>3. CASE q = 1
    BY <1>4, <2>1, <2>3
  <2> QED BY <2>2, <2>3
<1>6. ASSUME NEW i \in 1 .. q + 1 PROVE Datagrams(f)[i] \in {<< >>, f}
  <2>1. PICK lo \in Nat, hi \in Nat : Spans(f, i, lo, hi)
    BY <1>1, <1>2, DatagramAt
  <2>2. /\ lo = (i - 1) * M /\ Datagrams(f)[i] = SubSeq(f, lo + 1, hi)
        /\ i <= q => hi = i * M
        /\ i = q + 1 => hi = L
    BY <1>1, <1>2, <2>1, Zenon DEF Spans
  <2>3. CASE i = 1
    <3>1. lo = 0 /\ hi = L /\ lo + 1 = 1
      BY <1>5, <2>2, <2>3
    <3> QED BY <1>1, <2>2, <3>1, SubSeqFull
  <2>4. CASE i = 2 /\ q = 1 /\ L = M
    <3>1. lo = M /\ hi = M
      BY <2>2, <2>4
    <3>2. SubSeq(f, lo + 1, hi) = << >>
      BY <3>1, SubSeqEmpty
    <3> QED BY Zenon, <2>2, <3>2
  <2> QED BY <1>5, <2>3, <2>4
<1>7. DOMAIN Datagrams(f) = 1 .. q + 1 /\ Datagrams(f) = [i \in 1 .. q + 1 |-> Datagrams(f)[i]]
  BY Zenon, <1>1, <1>2 DEF Datagrams
<1>8. Datagrams(f) \in [1 .. q + 1 -> {<< >>, f}]
  BY <1>6, <1>7, Zenon
<1> QED BY <1>8

(* No datagram is empty unless the frame is a whole number of them. *)
LEMMA DatagramsNotEmpty ==
  ASSUME NEW f \in Seq(Byte), Len(f) % MAX_PACKET_SIZE # 0
  PROVE  Datagrams(f) \in Seq(Seq(Byte) \ {<< >>})
<1>1. PICK M \in Nat \ {0}, L \in Nat : M = MAX_PACKET_SIZE /\ L = Len(f)
  BY UdpAssumption, LenProperties
<1>2. PICK q \in Nat, r \in Nat \ {0} : q = L \div M /\ r = L % M
  BY <1>1
<1>3. /\ Len(Datagrams(f)) = q + 1 /\ Datagrams(f) \in Seq(Seq(Byte))
  BY <1>1, <1>2, DatagramsLen
<1>4. ASSUME NEW i \in 1 .. q + 1 PROVE Datagrams(f)[i] \in Seq(Byte) \ {<< >>}
  <2>1. PICK lo \in Nat, hi \in Nat : Spans(f, i, lo, hi)
    BY <1>1, <1>2, DatagramAt
  <2>2. /\ Datagrams(f)[i] = SubSeq(f, lo + 1, hi) /\ hi <= L
        /\ i <= q => hi = lo + M
        /\ i = q + 1 => hi = lo + r
    BY <1>1, <1>2, <2>1, Zenon DEF Spans
  <2>3. lo + 1 <= hi
    BY <2>2
  <2>4. \A j \in lo + 1 .. hi : f[j] \in Byte
    BY <1>1, <2>2, ElementOfSeq
  <2>5. SubSeq(f, lo + 1, hi) \in Seq(Byte) /\ Len(SubSeq(f, lo + 1, hi)) = hi - lo
    BY <2>3, <2>4, SubSeqProperties
  <2>6. Len(SubSeq(f, lo + 1, hi)) # 0
    BY <2>3, <2>5
  <2> QED BY Zenon, <2>2, <2>5, <2>6, EmptySeq
<1>5. DOMAIN Datagrams(f) = 1 .. q + 1 /\ Datagrams(f) = [i \in 1 .. q + 1 |-> Datagrams(f)[i]]
  BY Zenon, <1>1, <1>2 DEF Datagrams
<1>6. Datagrams(f) \in [1 .. q + 1 -> Seq(Byte) \ {<< >>}]
  BY <1>4, <1>5, Zenon
<1> QED BY <1>6

-----------------------------------------------------------------------------
Types ==
  /\ out \in [Writers -> Seq(Seq(Byte))] /\ net \in [Addresses -> Seq(Seq(Byte))]
  /\ buffer \in [Addresses -> Seq(Byte)] /\ sent \in [Addresses -> Seq(Packets)]
  /\ received \in [Addresses -> Seq(Seq(Byte))] /\ disturbed \subseteq Addresses

LEMMA AddressType ==
  ASSUME NEW w \in Writers
  PROVE  Address[w] \in Addresses
BY DEF Addresses

(* A fault of the network makes something of net[a] that has no other        *)
(* datagrams than net[a].                                                    *)
Garbled(a, e) ==
  /\ net' = [net EXCEPT ![a] = e] /\ disturbed' = disturbed \cup {a}
  /\ UNCHANGED <<out, buffer, sent, received, error, writes>>

SameMembers(q, e) == \A S : q \in Seq(S) => e \in Seq(S)

LEMMA FaultKeepsMembers ==
  ASSUME NEW q \in Seq(Seq(Byte)), NEW i \in 1 .. Len(q)
  PROVE  /\ SameMembers(q, SubSeq(q, 1, i - 1) \o SubSeq(q, i + 1, Len(q)))
         /\ SameMembers(q, SubSeq(q, 1, i) \o SubSeq(q, i, Len(q)))
         /\ i < Len(q) => SameMembers(q, [q EXCEPT ![i] = q[i + 1], ![i + 1] = q[i]])
<1>1. ASSUME NEW S, q \in Seq(S)
      PROVE  /\ SubSeq(q, 1, i - 1) \o SubSeq(q, i + 1, Len(q)) \in Seq(S)
             /\ SubSeq(q, 1, i) \o SubSeq(q, i, Len(q)) \in Seq(S)
             /\ i < Len(q) => [q EXCEPT ![i] = q[i + 1], ![i + 1] = q[i]] \in Seq(S)
  <2>1. Len(q) \in Nat /\ \A j \in 1 .. Len(q) : q[j] \in S
    BY <1>1, LenProperties, ElementOfSeq
  <2>2. /\ \A j \in 1 .. i - 1 : q[j] \in S
        /\ \A j \in 1 .. i : q[j] \in S
    BY <2>1
  <2>3. \A j \in i .. Len(q) : q[j] \in S
    BY <2>1
  <2>4. \A j \in i + 1 .. Len(q) : q[j] \in S
    BY <2>1
  <2>5. /\ SubSeq(q, 1, i - 1) \in Seq(S) /\ SubSeq(q, i, Len(q)) \in Seq(S)
        /\ SubSeq(q, 1, i) \in Seq(S) /\ SubSeq(q, i + 1, Len(q)) \in Seq(S)
    BY <2>1, <2>2, <2>3, <2>4, SubSeqProperties
  <2>6. SubSeq(q, 1, i - 1) \o SubSeq(q, i + 1, Len(q)) \in Seq(S)
    BY <2>5, ConcatProperties, Zenon
  <2>7. SubSeq(q, 1, i) \o SubSeq(q, i, Len(q)) \in Seq(S)
    BY <2>5, ConcatProperties, Zenon
  <2>8. ASSUME i < Len(q) PROVE [q EXCEPT ![i] = q[i + 1], ![i + 1] = q[i]] \in Seq(S)
    <3>1. i + 1 \in 1 .. Len(q) /\ q[i] \in S /\ q[i + 1] \in S
      BY <2>1, <2>8
    <3>2. PICK x \in S, y \in S : x = q[i + 1] /\ y = q[i]
      BY <3>1
    <3>3. PICK e : e = [q EXCEPT ![i] = x]
      BY Zenon
    <3>4. e \in Seq(S) /\ Len(e) = Len(q)
      BY <1>1, <3>3, ExceptSeq
    <3>5. [e EXCEPT ![i + 1] = y] \in Seq(S)
      BY <3>1, <3>4, ExceptSeq
    <3>6. [q EXCEPT ![i] = q[i + 1], ![i + 1] = q[i]] = [e EXCEPT ![i + 1] = y]
      BY <3>2, <3>3, Zenon
    <3> QED BY Zenon, <3>5, <3>6
  <2> QED BY <2>6, <2>7, <2>8
<1> QED BY <1>1, Zenon DEF SameMembers

LEMMA Garbling ==
  ASSUME Types, NEW a \in Addresses, NEW i \in 1 .. Len(net[a]),
         Lose(a, i) \/ Duplicate(a, i) \/ Reorder(a, i)
  PROVE  \E e : Garbled(a, e) /\ SameMembers(net[a], e)
<1>1. PICK q \in Seq(Seq(Byte)) : q = net[a]
  BY DEF Types
<1>2. i \in 1 .. Len(q)
  BY <1>1
<1>3. CASE Lose(a, i)
  <2>1. SameMembers(q, SubSeq(q, 1, i - 1) \o SubSeq(q, i + 1, Len(q)))
    BY <1>2, FaultKeepsMembers, Zenon
  <2>2. Garbled(a, SubSeq(q, 1, i - 1) \o SubSeq(q, i + 1, Len(q)))
    BY <1>1, <1>3, Zenon DEF Lose, Fault, Garbled
  <2> QED BY <1>1, <2>1, <2>2, Zenon
<1>4. CASE Duplicate(a, i)
  <2>1. SameMembers(q, SubSeq(q, 1, i) \o SubSeq(q, i, Len(q)))
    BY <1>2, FaultKeepsMembers, Zenon
  <2>2. Garbled(a, SubSeq(q, 1, i) \o SubSeq(q, i, Len(q)))
    BY <1>1, <1>4, Zenon DEF Duplicate, Fault, Garbled
  <2> QED BY <1>1, <2>1, <2>2, Zenon
<1>5. CASE Reorder(a, i)
  <2>1. SameMembers(q, [q EXCEPT ![i] = q[i + 1], ![i + 1] = q[i]])
    BY <1>1, <1>2, <1>5, FaultKeepsMembers, Zenon DEF Reorder
  <2>2. Garbled(a, [q EXCEPT ![i] = q[i + 1], ![i + 1] = q[i]])
    BY <1>1, <1>5, Zenon DEF Reorder, Fault, Garbled
  <2> QED BY <1>1, <2>1, <2>2, Zenon
<1> QED BY <1>3, <1>4, <1>5

-----------------------------------------------------------------------------
(* What receivePacket makes of r, all it has of sender a. *)
Accepts(a, r) ==
  \/ /\ Len(r) >= Announced(r) + 6
     /\ received' = [received EXCEPT ![a] = Append(@, Payload(r, Announced(r)))]
     /\ buffer' = [buffer EXCEPT ![a] = Beyond(r, Announced(r))]
  \/ /\ ~(Len(r) >= Announced(r) + 6)
     /\ buffer' = [buffer EXCEPT ![a] = r] /\ UNCHANGED received

(* The three outcomes of a datagram s. *)
Takes(a, s) ==
  /\ net[a] # << >> /\ s = Head(net[a]) /\ net' = [net EXCEPT ![a] = Tail(net[a])]
  /\ UNCHANGED <<out, sent, disturbed, writes, faults>>
  /\ \/ s = << >> /\ error' = error \cup {"NOT_CONNECTED"} /\ UNCHANGED <<buffer, received>>
     \/ /\ s # << >> /\ buffer[a] = << >> /\ s[1] # Bar
        /\ error' = error \cup {"UNKNOWN"} /\ UNCHANGED <<buffer, received>>
     \/ /\ s # << >> /\ (buffer[a] # << >> \/ s[1] = Bar)
        /\ Accepts(a, buffer[a] \o s) /\ UNCHANGED error

LEMMA Taking ==
  ASSUME NEW a \in Addresses, ReceiveDatagram(a)
  PROVE  \E s : Takes(a, s)
<1>1. ASSUME NEW r, Accept(a, r) PROVE Accepts(a, r)
  <2>1. IF Len(r) >= Announced(r) + 6
        THEN /\ received' = [received EXCEPT ![a] = Append(@, Payload(r, Announced(r)))]
             /\ buffer' = [buffer EXCEPT ![a] = Beyond(r, Announced(r))]
        ELSE buffer' = [buffer EXCEPT ![a] = r] /\ UNCHANGED received
    BY <1>1, Zenon DEF Accept, Announced, Kept
  <2> QED BY <2>1, Zenon DEF Accepts
<1>2. PICK s, b : s = Head(net[a]) /\ b = buffer[a]
  OBVIOUS
<1>3. Takes(a, s)
  BY <1>1, <1>2, Zenon DEF ReceiveDatagram, Read, Sender, Takes
<1> QED BY <1>3

-----------------------------------------------------------------------------
LEMMA FrameType ==
  ASSUME NEW p \in Packets
  PROVE  /\ Frame(p) \in Seq(Byte) /\ Frame(p) # << >> /\ Len(Frame(p)) = Len(p) + 6
         /\ p \in Seq(Byte) /\ Len(p) \in Nat
<1>1. p \in Seq(Byte) /\ Len(p) < Base * Base * Base * Base
  BY PacketsFramable DEF Framable
<1>2. Len(p) \in Nat
  BY <1>1, LenProperties
<1>3. Frame(p) \in Seq(Byte) /\ Len(Frame(p)) = Len(p) + 6
  BY <1>1, FrameBytes
<1>4. Len(Frame(p)) # 0
  BY <1>2, <1>3
<1> QED BY <1>1, <1>2, <1>3, <1>4, EmptySeq, Zenon

LEMMA AcceptsTypes ==
  ASSUME Types, NEW a \in Addresses, NEW r \in Seq(Byte), Accepts(a, r)
  PROVE  buffer' \in [Addresses -> Seq(Byte)] /\ received' \in [Addresses -> Seq(Seq(Byte))]
<1>1. Announced(r) \in Nat
  BY AnnouncedType
<1>2. CASE /\ Len(r) >= Announced(r) + 6
           /\ received' = [received EXCEPT ![a] = Append(@, Payload(r, Announced(r)))]
           /\ buffer' = [buffer EXCEPT ![a] = Beyond(r, Announced(r))]
  <2>1. PICK p \in Seq(Byte), b \in Seq(Byte) :
          p = Payload(r, Announced(r)) /\ b = Beyond(r, Announced(r))
    BY <1>1, <1>2, CompleteTypes
  <2>2. Append(received[a], p) \in Seq(Seq(Byte))
    BY AppendProperties DEF Types
  <2> QED BY <1>2, <2>1, <2>2 DEF Types
<1>3. CASE buffer' = [buffer EXCEPT ![a] = r] /\ UNCHANGED received
  BY <1>3 DEF Types
<1> QED BY <1>2, <1>3, Zenon DEF Accepts

LEMMA TypesStep ==
  Types /\ [Next]_vars => Types'
<1> SUFFICES ASSUME Types, [Next]_vars PROVE Types'
  OBVIOUS
<1>1. ASSUME NEW w \in Writers, NEW p \in Packets, WritePacket(w, p) PROVE Types'
  <2>1. Address[w] \in Addresses /\ Datagrams(Frame(p)) \in Seq(Seq(Byte))
    BY AddressType, FrameType, DatagramsLen
  <2>2. Append(sent[Address[w]], p) \in Seq(Packets)
    BY <2>1, AppendProperties DEF Types
  <2> QED BY SMTT(30), <1>1, <2>1, <2>2 DEF WritePacket, Types
<1>2. ASSUME NEW w \in Writers, Sendto(w) PROVE Types'
  <2>1. Address[w] \in Addresses
    BY AddressType
  <2>2. Head(out[w]) \in Seq(Byte) /\ Tail(out[w]) \in Seq(Seq(Byte))
    BY <1>2, HeadTailProperties DEF Sendto, Types
  <2>3. Append(net[Address[w]], Head(out[w])) \in Seq(Seq(Byte))
    BY <2>1, <2>2, AppendProperties DEF Types
  <2>4. /\ net' = [net EXCEPT ![Address[w]] = Append(net[Address[w]], Head(out[w]))]
        /\ out' = [out EXCEPT ![w] = Tail(out[w])]
        /\ disturbed' \subseteq disturbed \cup {Address[w]}
        /\ UNCHANGED <<buffer, sent, received>>
    BY <1>2 DEF Sendto
  <2> QED BY <2>1, <2>2, <2>3, <2>4 DEF Types
<1>3. ASSUME NEW w \in Writers, SendtoFails(w) PROVE Types'
  BY <1>3, AddressType, EmptySeq DEF SendtoFails, Fault, Types
<1>4. ASSUME NEW a \in Addresses, NEW i \in 1 .. Len(net[a]),
             Lose(a, i) \/ Duplicate(a, i) \/ Reorder(a, i)
      PROVE  Types'
  <2>1. PICK e : Garbled(a, e) /\ SameMembers(net[a], e)
    BY <1>4, Garbling, Zenon
  <2>2. e \in Seq(Seq(Byte))
    BY <2>1 DEF SameMembers, Types
  <2> QED BY <2>1, <2>2 DEF Garbled, Types
<1>5. ASSUME NEW a \in Addresses, ReceiveDatagram(a) PROVE Types'
  <2>1. PICK s : Takes(a, s)
    BY <1>5, Taking
  <2>2. s \in Seq(Byte) /\ Tail(net[a]) \in Seq(Seq(Byte))
    BY <2>1, HeadTailProperties DEF Takes, Types
  <2>3. net' \in [Addresses -> Seq(Seq(Byte))] /\ UNCHANGED <<out, sent, disturbed>>
    BY <2>1, <2>2 DEF Takes, Types
  <2>4. CASE UNCHANGED <<buffer, received>>
    BY <2>3, <2>4 DEF Types
  <2>5. CASE Accepts(a, buffer[a] \o s)
    <3>1. PICK r \in Seq(Byte) : r = buffer[a] \o s
      BY Zenon, <2>2, ConcatProperties DEF Types
    <3>2. buffer' \in [Addresses -> Seq(Byte)] /\ received' \in [Addresses -> Seq(Seq(Byte))]
      BY Zenon, <2>5, <3>1, AcceptsTypes
    <3> QED BY <2>3, <3>2 DEF Types
  <2> QED BY <2>1, <2>4, <2>5, Zenon DEF Takes
<1>6. CASE UNCHANGED vars
  BY <1>6 DEF vars, Types
<1> QED BY <1>1, <1>2, <1>3, <1>4, <1>5, <1>6, Zenon DEF Next

-----------------------------------------------------------------------------
LEMMA RangeAppend ==
  ASSUME NEW S, NEW s \in Seq(S), NEW e \in S
  PROVE  Range(Append(s, e)) = Range(s) \cup {e}
<1>1. Len(s) \in Nat /\ DOMAIN s = 1 .. Len(s)
  BY LenProperties
<1>2. PICK t : t = Append(s, e)
  BY Zenon
<1>3. /\ t \in Seq(S) /\ Len(t) = Len(s) + 1
      /\ \A i \in 1 .. Len(s) : t[i] = s[i]
      /\ t[Len(s) + 1] = e
  BY <1>2, AppendProperties
<1>4. DOMAIN t = 1 .. Len(s) + 1
  BY <1>3, LenProperties
<1>5. Range(t) = Range(s) \cup {e}
  <2>1. \A x \in Range(t) : x \in Range(s) \cup {e}
    BY <1>1, <1>3, <1>4 DEF Range
  <2>2. \A x \in Range(s) : x \in Range(t)
    BY <1>1, <1>3, <1>4 DEF Range
  <2>3. e \in Range(t)
    BY <1>1, <1>3, <1>4 DEF Range
  <2> QED BY <2>1, <2>2, <2>3, Zenon
<1> QED BY <1>2, <1>5

(* The packets that a sender has written only become more. *)
LEMMA SentGrows ==
  ASSUME Types, [Next]_vars, NEW a \in Addresses
  PROVE  \/ sent'[a] = sent[a]
         \/ \E w \in Writers, p \in Packets :
              /\ WritePacket(w, p) /\ Address[w] = a /\ Range(sent'[a]) = Range(sent[a]) \cup {p}
              /\ UNCHANGED <<net, buffer, received, error, disturbed>>
<1>1. ASSUME NEW w \in Writers, NEW p \in Packets, WritePacket(w, p), sent'[a] # sent[a]
      PROVE  /\ Address[w] = a /\ Range(sent'[a]) = Range(sent[a]) \cup {p}
             /\ UNCHANGED <<net, buffer, received, error, disturbed>>
  <2>1. /\ sent' = [sent EXCEPT ![Address[w]] = Append(sent[Address[w]], p)]
        /\ UNCHANGED <<net, buffer, received, error, disturbed>>
    BY <1>1 DEF WritePacket
  <2>2. Address[w] = a
    BY <1>1, <2>1 DEF Types
  <2>3. PICK s \in Seq(Packets) : s = sent[a]
    BY DEF Types
  <2>4. sent'[a] = Append(s, p)
    BY <2>1, <2>2, <2>3 DEF Types
  <2>5. Range(Append(s, p)) = Range(s) \cup {p}
    BY RangeAppend
  <2> QED BY <2>1, <2>2, <2>3, <2>4, <2>5
<1>2. ASSUME NEW w \in Writers, Sendto(w) \/ SendtoFails(w) PROVE sent'[a] = sent[a]
  BY <1>2 DEF Sendto, SendtoFails
<1>3. ASSUME NEW b \in Addresses, NEW i \in 1 .. Len(net[b]),
             Lose(b, i) \/ Duplicate(b, i) \/ Reorder(b, i)
      PROVE  sent'[a] = sent[a]
  BY <1>3 DEF Lose, Duplicate, Reorder
<1>4. ASSUME NEW b \in Addresses, ReceiveDatagram(b) PROVE sent'[a] = sent[a]
  BY <1>4 DEF ReceiveDatagram
<1>5. CASE UNCHANGED vars
  BY <1>5 DEF vars
<1> QED BY <1>1, <1>2, <1>3, <1>4, <1>5, Zenon DEF Next

(* All datagrams of sender a, sent or still to be sent, are in X. *)
PiecesIn(a, X) ==
  net[a] \in Seq(X) /\ \A w \in Writers : Address[w] = a => out[w] \in Seq(X)

LEMMA PiecesStep ==
  ASSUME Types, [Next]_vars, NEW a \in Addresses, NEW X, PiecesIn(a, X),
         \A w \in Writers, p \in Packets :
           WritePacket(w, p) /\ Address[w] = a => Datagrams(Frame(p)) \in Seq(X)
  PROVE  PiecesIn(a, X)'
<1> USE DEF PiecesIn
<1>1. ASSUME NEW w \in Writers, NEW p \in Packets, WritePacket(w, p) PROVE PiecesIn(a, X)'
  <2>1. net' = net /\ out' = [out EXCEPT ![w] = Datagrams(Frame(p))]
    BY <1>1 DEF WritePacket
  <2> QED BY <1>1, <2>1 DEF Types
<1>2. ASSUME NEW w \in Writers, Sendto(w) PROVE PiecesIn(a, X)'
  <2>1. /\ net' = [net EXCEPT ![Address[w]] = Append(net[Address[w]], Head(out[w]))]
        /\ out' = [out EXCEPT ![w] = Tail(out[w])] /\ out[w] # << >>
    BY <1>2 DEF Sendto
  <2>2. CASE Address[w] = a
    <3>1. Head(out[w]) \in X /\ Tail(out[w]) \in Seq(X)
      BY <2>1, <2>2, HeadTailProperties
    <3>2. Append(net[a], Head(out[w])) \in Seq(X)
      BY <3>1, AppendProperties
    <3> QED BY SMTT(30), <2>1, <2>2, <3>1, <3>2 DEF Types
  <2>3. CASE Address[w] # a
    BY <2>1, <2>3, AddressType DEF Types
  <2> QED BY <2>2, <2>3
<1>3. ASSUME NEW w \in Writers, SendtoFails(w) PROVE PiecesIn(a, X)'
  BY <1>3, EmptySeq DEF SendtoFails, Types
<1>4. ASSUME NEW b \in Addresses, NEW i \in 1 .. Len(net[b]),
             Lose(b, i) \/ Duplicate(b, i) \/ Reorder(b, i)
      PROVE  PiecesIn(a, X)'
  <2>1. PICK e : Garbled(b, e) /\ SameMembers(net[b], e)
    BY <1>4, Garbling, Zenon
  <2>2. b = a => e \in Seq(X)
    BY <2>1, Zenon DEF SameMembers
  <2> QED BY <2>1, <2>2 DEF Garbled, Types
<1>5. ASSUME NEW b \in Addresses, ReceiveDatagram(b) PROVE PiecesIn(a, X)'
  <2>1. PICK s : Takes(b, s)
    BY <1>5, Taking
  <2>2. net[b] # << >> /\ net' = [net EXCEPT ![b] = Tail(net[b])] /\ out' = out
    BY <2>1 DEF Takes
  <2>3. b = a => Tail(net[b]) \in Seq(X)
    BY <2>2, HeadTailProperties
  <2> QED BY <2>2, <2>3 DEF Types
<1>6. CASE UNCHANGED vars
  BY <1>6 DEF vars
<1> QED BY <1>1, <1>2, <1>3, <1>4, <1>5, <1>6, Zenon DEF Next

-----------------------------------------------------------------------------
(* Sender a wrote a frame of a whole number of datagrams. *)
Multiple(a) == \E p \in Range(sent[a]) : (Len(p) + 6) % MAX_PACKET_SIZE = 0

(* Only then are there empty datagrams, and NOT_CONNECTED. *)
EmptyCause ==
  /\ \A a \in Addresses : ~Multiple(a) => PiecesIn(a, Seq(Byte) \ {<< >>})
  /\ "NOT_CONNECTED" \in error => \E a \in Addresses : Multiple(a)

LEMMA EmptyCauseStep ==
  Types /\ EmptyCause /\ [Next]_vars => EmptyCause'
<1> SUFFICES ASSUME Types, EmptyCause, [Next]_vars PROVE EmptyCause'
  OBVIOUS
<1>1. ASSUME NEW a \in Addresses, Multiple(a) PROVE Multiple(a)'
  <2>1. Range(sent[a]) \subseteq Range(sent'[a])
    BY SentGrows
  <2> QED BY <1>1, <2>1 DEF Multiple
<1>2. ASSUME NEW a \in Addresses, ~Multiple(a)' PROVE PiecesIn(a, Seq(Byte) \ {<< >>})'
  <2>1. PICK X : X = Seq(Byte) \ {<< >>}
    BY Zenon
  <2>2. PiecesIn(a, X)
    BY <1>1, <1>2, <2>1, Zenon DEF EmptyCause
  <2>3. ASSUME NEW w \in Writers, NEW p \in Packets, WritePacket(w, p), Address[w] = a
        PROVE  Datagrams(Frame(p)) \in Seq(X)
    <3>1. p \in Range(sent'[a])
      <4>1. sent'[a] = Append(sent[a], p)
        BY <2>3 DEF WritePacket, Types
      <4>2. PICK s \in Seq(Packets) : s = sent[a]
        BY DEF Types
      <4>3. Range(Append(s, p)) = Range(s) \cup {p}
        BY RangeAppend
      <4> QED BY <4>1, <4>2, <4>3
    <3>2. (Len(p) + 6) % MAX_PACKET_SIZE # 0
      BY <1>2, <3>1 DEF Multiple
    <3> QED BY <2>1, <3>2, FrameType, DatagramsNotEmpty
  <2>4. PiecesIn(a, X)'
    BY <2>2, <2>3, PiecesStep, Zenon
  <2> QED BY <2>1, <2>4
<1>3. ASSUME "NOT_CONNECTED" \in error' PROVE \E a \in Addresses : Multiple(a)'
  <2>1. CASE "NOT_CONNECTED" \in error
    BY <1>1, <2>1 DEF EmptyCause
  <2>2. CASE "NOT_CONNECTED" \notin error
    <3>1. PICK a \in Addresses : ReceiveDatagram(a)
      BY <1>3, <2>2, Zenon DEF Next, vars, WritePacket, Sendto, SendtoFails, Lose, Duplicate, Reorder
    <3>2. PICK s : Takes(a, s)
      BY <3>1, Taking
    <3>3. s = << >> /\ net[a] # << >> /\ s = Head(net[a])
      BY <1>3, <2>2, <3>2 DEF Takes
    <3>4. ~(net[a] \in Seq(Seq(Byte) \ {<< >>}))
      BY <3>3, HeadTailProperties
    <3>5. Multiple(a)
      BY <3>4 DEF EmptyCause, PiecesIn
    <3> QED BY <1>1, <3>5
  <2> QED BY <2>1, <2>2
<1> QED BY <1>2, <1>3, Zenon DEF EmptyCause

-----------------------------------------------------------------------------
Small(a) == \A p \in Range(sent[a]) : Len(p) + 6 <= MAX_PACKET_SIZE

Pieces(a) == {<< >>} \cup {Frame(p) : p \in Range(sent[a])}

(* A sender of small packets sends whole frames, and leaves nothing behind. *)
SmallWhole ==
  \A a \in Addresses :
    Small(a) => /\ PiecesIn(a, Pieces(a)) /\ buffer[a] = << >>
                /\ Range(received[a]) \subseteq Range(sent[a])

(* A whole frame is taken off in one piece. *)
LEMMA WholeFrame ==
  ASSUME NEW p \in Packets
  PROVE  /\ Announced(Frame(p)) = Len(p) /\ Len(Frame(p)) >= Len(p) + 6
         /\ Payload(Frame(p), Len(p)) = p /\ Beyond(Frame(p), Len(p)) = << >>
         /\ Frame(p)[1] = Bar
<1>1. p \in Seq(Byte) /\ Len(p) < Base * Base * Base * Base /\ Len(p) \in Nat
  BY PacketsFramable, LenProperties DEF Framable
<1>2. PICK f : f = Frame(p)
  OBVIOUS
<1>3. f \in Seq(Byte) /\ Len(f) = Len(p) + 6 /\ f[1] = Bar /\ FrameLength(f) = Len(p)
  BY <1>1, <1>2, FrameBytes
<1>4. Announced(f) = Len(p)
  BY <1>1, <1>3 DEF Announced
<1>5. Payload(f, Len(p)) = p
  BY <1>1, <1>2, <1>3, FrameFound
<1>6. Beyond(f, Len(p)) = << >>
  BY <1>1, <1>3, SubSeqEmpty DEF Beyond
<1> QED BY <1>1, <1>2, <1>3, <1>4, <1>5, <1>6

LEMMA SmallWholeStep ==
  Types /\ SmallWhole /\ [Next]_vars => SmallWhole'
<1> SUFFICES ASSUME Types, SmallWhole, [Next]_vars, NEW a \in Addresses, Small(a)'
             PROVE  /\ PiecesIn(a, Pieces(a))' /\ buffer'[a] = << >>
                    /\ Range(received'[a]) \subseteq Range(sent'[a])
  BY Zenon DEF SmallWhole
<1>1. Range(sent[a]) \subseteq Range(sent'[a])
  BY SentGrows
<1>2. Small(a)
  BY <1>1 DEF Small
<1>3. /\ PiecesIn(a, Pieces(a)) /\ buffer[a] = << >> /\ Range(received[a]) \subseteq Range(sent[a])
  BY <1>2 DEF SmallWhole
<1>4. PiecesIn(a, Pieces(a))'
  <2>1. PICK Y, X : Y = Pieces(a) /\ X = Pieces(a)'
    OBVIOUS
  <2>2. Y \subseteq X
    BY <1>1, <2>1 DEF Pieces
  <2>3. \A q \in Seq(Y) : q \in Seq(X)
    BY <2>2, SeqMonotonic
  <2>4. PiecesIn(a, X)
    BY <1>3, <2>1, <2>3, Zenon DEF PiecesIn
  <2>5. ASSUME NEW w \in Writers, NEW p \in Packets, WritePacket(w, p), Address[w] = a
        PROVE  Datagrams(Frame(p)) \in Seq(X)
    <3>1. p \in Range(sent'[a])
      <4>1. sent'[a] = Append(sent[a], p)
        BY <2>5 DEF WritePacket, Types
      <4>2. PICK s \in Seq(Packets) : s = sent[a]
        BY DEF Types
      <4>3. Range(Append(s, p)) = Range(s) \cup {p}
        BY RangeAppend
      <4> QED BY <4>1, <4>2, <4>3
    <3>2. Len(p) + 6 <= MAX_PACKET_SIZE
      BY <3>1 DEF Small
    <3>3. PICK f \in Seq(Byte) : f = Frame(p) /\ f # << >> /\ Len(f) <= MAX_PACKET_SIZE
      BY <3>2, FrameType
    <3>4. Datagrams(f) \in Seq({<< >>, f})
      BY <3>3, DatagramsSmall
    <3>5. {<< >>, f} \subseteq X
      BY <2>1, <3>1, <3>3 DEF Pieces
    <3> QED BY <3>3, <3>4, <3>5, SeqMonotonic
  <2>6. PiecesIn(a, X)'
    BY <2>4, <2>5, PiecesStep, Zenon
  <2> QED BY <2>1, <2>6 DEF PiecesIn, Pieces
<1>5. buffer'[a] = << >> /\ Range(received'[a]) \subseteq Range(sent'[a])
  <2>1. CASE buffer'[a] = buffer[a] /\ received'[a] = received[a]
    BY <1>1, <1>3, <2>1
  <2>2. CASE ~(buffer'[a] = buffer[a] /\ received'[a] = received[a])
    <3>1. PICK b \in Addresses : ReceiveDatagram(b)
      BY <2>2, Zenon DEF Next, vars, WritePacket, Sendto, SendtoFails, Lose, Duplicate, Reorder
    <3>2. PICK s : Takes(b, s)
      BY <3>1, Taking
    <3>3. s # << >> /\ Accepts(b, buffer[b] \o s)
      BY <2>2, <3>2 DEF Takes
    <3>4. b = a
      BY <2>2, <3>3 DEF Accepts, Types
    <3>5. s \in Pieces(a) /\ s \in Seq(Byte)
      BY <1>3, <3>2, <3>4, HeadTailProperties DEF Takes, PiecesIn, Types
    <3>6. PICK p \in Range(sent[a]) : s = Frame(p)
      BY <3>3, <3>5 DEF Pieces
    <3>7. p \in Packets
      BY RangeOfSeq DEF Types
    <3>8. buffer[b] \o s = s
      BY SMTT(30), <1>3, <3>4, <3>5, ConcatEmptySeq
    <3>9. /\ received' = [received EXCEPT ![a] = Append(received[a], p)]
          /\ buffer' = [buffer EXCEPT ![a] = << >>]
      BY SMTT(30), <3>3, <3>4, <3>6, <3>7, <3>8, WholeFrame DEF Accepts
    <3>10. PICK t \in Seq(Seq(Byte)), x \in Seq(Byte) : t = received[a] /\ x = p
      BY <3>7, FrameType DEF Types
    <3>11. Range(Append(t, x)) = Range(t) \cup {x}
      BY RangeAppend
    <3>12. received'[a] = Append(t, x) /\ buffer'[a] = << >>
      BY <3>9, <3>10 DEF Types
    <3> QED BY <1>1, <1>3, <3>10, <3>11, <3>12
  <2> QED BY <2>1, <2>2
<1> QED BY <1>4, <1>5

-----------------------------------------------------------------------------
(* The threads in the middle of a write on the socket a. *)
Active(a) == {w \in Writers : Address[w] = a /\ out[w] # << >>}

(* The k packets received are the first k of s, and buffer b, the datagrams q *)
(* under way and the datagrams in extra are the frames of the following ones  *)
(* up to the m-th.                                                            *)
Carries(b, q, extra, s, rec, m) ==
  /\ Len(rec) <= m /\ m <= Len(s) /\ \A n \in 1 .. Len(rec) : rec[n] = s[n]
  /\ \E stream \in Seq(Byte) : Joined(stream, q \o extra) /\ Framed(b \o stream, s, Len(rec), m, 0)

(* While no more than one thread writes, all packets are on their way; a      *)
(* second one begins only what cannot be sent without disturbing the first.   *)
Delivery(a) ==
  \E extra \in Seq(Seq(Byte)), m \in Nat :
    /\ Carries(buffer[a], net[a], extra, sent[a], received[a], m)
    /\ (\A v, w \in Active(a) : v = w) =>
         /\ m = Len(sent[a])
         /\ Active(a) = {} => extra = << >>
         /\ \A w \in Active(a) : extra = out[w]

Undisturbed == \A a \in Addresses \ disturbed : Delivery(a)

(* A packet is written when no other one is being written. *)
LEMMA CarriesMore ==
  ASSUME NEW b \in Seq(Byte), NEW q \in Seq(Seq(Byte)), NEW s \in Seq(Packets),
         NEW rec \in Seq(Seq(Byte)), NEW p \in Packets, Carries(b, q, << >>, s, rec, Len(s))
  PROVE  Carries(b, q, Datagrams(Frame(p)), Append(s, p), rec, Len(s) + 1)
<1>1. PICK stream \in Seq(Byte) :
        Joined(stream, q \o << >>) /\ Framed(b \o stream, s, Len(rec), Len(s), 0)
  BY DEF Carries
<1>2. q \o << >> = q
  BY ConcatEmptySeq
<1>3. PICK f \in Seq(Byte), e \in Seq(Seq(Byte)) : f = Frame(p) /\ e = Datagrams(f) /\ Joined(f, e)
  BY FrameType, DatagramsLen, DatagramsJoined
<1>4. Joined(stream \o f, q \o e)
  BY <1>1, <1>2, <1>3, JoinedMore, Zenon
<1>5. Framed((b \o stream) \o f, Append(s, p), Len(rec), Len(s) + 1, 0)
  <2>1. s \in Seq(Framable) /\ p \in Framable
    BY PacketsFramable, SeqMonotonic
  <2>2. PICK st : st = b \o stream
    BY Zenon
  <2>3. PICK k \in Nat :
          k = Len(rec) /\ k <= Len(s) /\ st = b \o stream /\ Framed(st, s, k, Len(s), 0)
    BY <1>1, <2>2, LenProperties, Zenon DEF Carries
  <2>4. Framed(st \o Frame(p), Append(s, p), k, Len(s) + 1, 0)
    BY <2>1, <2>3, FramedMore, Zenon
  <2> QED BY <1>3, <2>3, <2>4, Zenon
<1>6. Regroups(b, stream, f)
  BY <1>1, <1>3, Regroup, Zenon
<1>7. Framed(b \o (stream \o f), Append(s, p), Len(rec), Len(s) + 1, 0)
  BY <1>5, <1>6, Zenon DEF Regroups
<1>8. stream \o f \in Seq(Byte)
  BY <1>4, JoinedType, Zenon
<1>9. /\ Len(rec) <= Len(s) + 1 /\ Len(s) + 1 <= Len(Append(s, p))
      /\ \A n \in 1 .. Len(rec) : rec[n] = Append(s, p)[n]
  <2>1. /\ Len(rec) \in Nat /\ Len(s) \in Nat /\ Len(rec) <= Len(s)
        /\ \A n \in 1 .. Len(rec) : rec[n] = s[n]
    BY LenProperties, Zenon DEF Carries
  <2>2. Len(Append(s, p)) = Len(s) + 1 /\ \A n \in 1 .. Len(s) : Append(s, p)[n] = s[n]
    BY AppendProperties
  <2> QED BY <2>1, <2>2
<1> QED BY <1>3, <1>4, <1>7, <1>8, <1>9, Zenon DEF Carries

(* A packet is written while another thread is still sending its own. *)
LEMMA CarriesSent ==
  ASSUME NEW b \in Seq(Byte), NEW q \in Seq(Seq(Byte)), NEW s \in Seq(Packets),
         NEW rec \in Seq(Seq(Byte)), NEW p \in Packets, NEW extra, NEW m \in Nat,
         Carries(b, q, extra, s, rec, m)
  PROVE  Carries(b, q, extra, Append(s, p), rec, m)
<1>1. PICK stream \in Seq(Byte) :
        Joined(stream, q \o extra) /\ Framed(b \o stream, s, Len(rec), m, 0)
  BY DEF Carries
<1>2. Framed(b \o stream, Append(s, p), Len(rec), m, 0)
  <2>1. s \in Seq(Framable) /\ p \in Framable
    BY PacketsFramable, SeqMonotonic
  <2>2. PICK st : st = b \o stream
    BY Zenon
  <2>3. PICK k \in Nat :
          k = Len(rec) /\ m <= Len(s) /\ st = b \o stream /\ Framed(st, s, k, m, 0)
    BY <1>1, <2>2, LenProperties, Zenon DEF Carries
  <2>4. Framed(st, Append(s, p), k, m, 0)
    BY <2>1, <2>3, FramedSent, Zenon
  <2> QED BY <2>3, <2>4, Zenon
<1>3. /\ Len(rec) <= m /\ m <= Len(Append(s, p))
      /\ \A n \in 1 .. Len(rec) : rec[n] = Append(s, p)[n]
  <2>1. /\ Len(rec) \in Nat /\ Len(s) \in Nat /\ Len(rec) <= m /\ m <= Len(s)
        /\ \A n \in 1 .. Len(rec) : rec[n] = s[n]
    BY LenProperties, Zenon DEF Carries
  <2>2. Len(Append(s, p)) = Len(s) + 1 /\ \A n \in 1 .. Len(s) : Append(s, p)[n] = s[n]
    BY AppendProperties
  <2> QED BY <2>1, <2>2
<1> QED BY <1>1, <1>2, <1>3, Zenon DEF Carries

(* The datagram d is the next to arrive, before those of t and extra. *)
Opens(b, d, t, extra, s, rec, m) ==
  \E rest \in Seq(Byte) : Joined(rest, t \o extra) /\ Framed(b \o (d \o rest), s, Len(rec), m, 0)

LEMMA CarriesTake ==
  ASSUME NEW b \in Seq(Byte), NEW q \in Seq(Seq(Byte)), q # << >>, NEW s \in Seq(Packets),
         NEW rec \in Seq(Seq(Byte)), NEW extra \in Seq(Seq(Byte)), NEW m \in Nat,
         Carries(b, q, extra, s, rec, m)
  PROVE  Opens(b, Head(q), Tail(q), extra, s, rec, m)
<1>1. PICK stream \in Seq(Byte) :
        Joined(stream, q \o extra) /\ Framed(b \o stream, s, Len(rec), m, 0)
  BY DEF Carries
<1>2. PICK c \in Seq(Seq(Byte)) : c = q \o extra
  BY Zenon, ConcatProperties
<1>3. c # << >> /\ Head(c) = Head(q) /\ Tail(c) = Tail(q) \o extra
  <2>1. Len(q) \in Nat \ {0} /\ Len(extra) \in Nat
    BY EmptySeq, LenProperties
  <2>2. /\ Len(c) = Len(q) + Len(extra)
        /\ \A i \in 1 .. Len(q) + Len(extra) : c[i] = IF i <= Len(q) THEN q[i] ELSE extra[i - Len(q)]
    BY <1>2, ConcatProperties, Zenon
  <2>3. Len(c) # 0 /\ c[1] = q[1]
    BY SMTT(30), <2>1, <2>2
  <2>4. c # << >>
    BY <2>3, EmptySeq, Zenon
  <2>5. Head(c) = Head(q)
    BY <2>3, <2>4
  <2>6. PICK t \in Seq(Seq(Byte)) :
          t = Tail(q) /\ Len(t) = Len(q) - 1 /\ \A i \in 1 .. Len(t) : t[i] = q[i + 1]
    BY HeadTailProperties, Zenon
  <2>7. PICK d \in Seq(Seq(Byte)) :
          d = Tail(c) /\ Len(d) = Len(c) - 1 /\ \A i \in 1 .. Len(d) : d[i] = c[i + 1]
    BY <2>4, HeadTailProperties, Zenon
  <2>8. PICK u \in Seq(Seq(Byte)) :
          /\ u = t \o extra /\ Len(u) = Len(t) + Len(extra)
          /\ \A i \in 1 .. Len(t) + Len(extra) : u[i] = IF i <= Len(t) THEN t[i] ELSE extra[i - Len(t)]
    <3>1. /\ t \o extra \in Seq(Seq(Byte)) /\ Len(t \o extra) = Len(t) + Len(extra)
          /\ \A i \in 1 .. Len(t) + Len(extra) :
               (t \o extra)[i] = IF i <= Len(t) THEN t[i] ELSE extra[i - Len(t)]
      BY ConcatProperties, Zenon
    <3> QED BY Zenon, <3>1
  <2>9. Len(d) = Len(u)
    BY <2>1, <2>2, <2>6, <2>7, <2>8
  <2>10. \A i \in 1 .. Len(d) : d[i] = u[i]
    <3>1. TAKE i \in 1 .. Len(d)
    <3>2. /\ i + 1 \in 1 .. Len(q) + Len(extra) /\ i \in 1 .. Len(t) + Len(extra) /\ i \in Nat
          /\ (i + 1) - Len(q) = i - Len(t)
      BY <2>1, <2>2, <2>6, <2>7
    <3>3. d[i] = c[i + 1]
      BY <2>7
    <3>4. CASE i <= Len(t)
      <4>1. i + 1 <= Len(q) /\ i \in 1 .. Len(t)
        BY <2>1, <2>6, <3>2, <3>4
      <4>2. c[i + 1] = q[i + 1] /\ u[i] = t[i] /\ t[i] = q[i + 1]
        BY <2>2, <2>6, <2>8, <3>2, <3>4, <4>1, Zenon
      <4> QED BY <3>3, <4>2
    <3>5. CASE ~(i <= Len(t))
      <4>1. ~(i + 1 <= Len(q))
        BY <2>1, <2>6, <3>2, <3>5
      <4>2. c[i + 1] = extra[(i + 1) - Len(q)] /\ u[i] = extra[i - Len(t)]
        BY <2>2, <2>8, <3>2, <3>5, <4>1, Zenon
      <4> QED BY Zenon, <3>2, <3>3, <4>2
    <3> QED BY <3>4, <3>5
  <2>11. d = u
    BY Zenon, <2>9, <2>10, SeqEqual
  <2> QED BY <2>4, <2>5, <2>6, <2>7, <2>8, <2>11, Zenon
<1>4. PICK rest \in Seq(Byte) : stream = Head(c) \o rest /\ Joined(rest, Tail(c))
  BY <1>1, <1>2, <1>3, JoinedHead, Zenon
<1> QED BY <1>1, <1>3, <1>4, Zenon DEF Opens

(* What receivePacket does with the datagram d behind the buffer b. *)
LEMMA CarriesAccept ==
  ASSUME NEW b \in Seq(Byte), NEW d \in Seq(Byte), d # << >>, NEW rest \in Seq(Byte),
         NEW t, NEW extra, NEW s \in Seq(Packets), NEW rec \in Seq(Seq(Byte)), NEW m \in Nat,
         Len(rec) <= m, m <= Len(s), \A n \in 1 .. Len(rec) : rec[n] = s[n],
         Joined(rest, t \o extra), Framed(b \o (d \o rest), s, Len(rec), m, 0),
         NEW r, r = b \o d
  PROVE  /\ b = << >> => d[1] = Bar
         /\ Len(r) >= Announced(r) + 6 =>
              Carries(Beyond(r, Announced(r)), t, extra, s, Append(rec, Payload(r, Announced(r))), m)
         /\ ~(Len(r) >= Announced(r) + 6) => Carries(r, t, extra, s, rec, m)
<1>1. PICK k \in Nat : k = Len(rec)
  BY LenProperties
<1>2. r \in Seq(Byte) /\ Len(r) = Len(b) + Len(d) /\ Len(b) \in Nat /\ Len(d) \in Nat \ {0}
  <2>1. b \o d \in Seq(Byte) /\ Len(b \o d) = Len(b) + Len(d)
    BY ConcatProperties, Zenon
  <2>2. Len(b) \in Nat /\ Len(d) \in Nat \ {0}
    BY LenProperties, EmptySeq, Zenon
  <2> QED BY <2>1, <2>2, Zenon
<1>3. b \o (d \o rest) = r \o rest
  <2>1. Regroups(b, d, rest)
    BY Regroup, Zenon
  <2> QED BY <2>1, Zenon DEF Regroups
<1>4. PICK st : st = r \o rest
  BY Zenon
<1>5. Framed(st, s, k, m, 0)
  BY <1>1, <1>3, <1>4, Zenon
<1>6. Len(st) # 0
  <2>1. Len(r \o rest) = Len(r) + Len(rest)
    <3>1. r \in Seq(Byte)
      BY <1>2
    <3> HIDE <1>2, <1>3, <1>5
    <3> QED BY <3>1
  <2>2. Len(rest) \in Nat
    BY LenProperties, Zenon
  <2> QED BY <1>2, <1>4, <2>1, <2>2
<1>7. k < m
  <2>1. SUFFICES ASSUME k = m PROVE FALSE
    BY <1>1
  <2>2. st = << >>
    BY <1>5, <2>1, FramedEnd, Zenon
  <2> QED BY <1>6, <2>2, EmptySeq, Zenon
<1>8. PICK next \in Seq(Byte) : st = Frame(s[k + 1]) \o next /\ Framed(next, s, k + 1, m, 0)
  BY <1>5, <1>7, FramedNext, Zenon
<1>9. PICK p \in Framable : p = s[k + 1]
  <2>1. k + 1 \in 1 .. Len(s)
    <3>1. Len(s) \in Nat
      BY LenProperties, Zenon
    <3> QED BY <1>7, <3>1
  <2>2. s[k + 1] \in Packets
    BY <2>1, ElementOfSeq, Zenon
  <2> QED BY <2>2, PacketsFramable, Zenon
<1>10. r \o rest = Frame(p) \o next
  BY <1>4, <1>8, <1>9, Zenon
<1>11. Cuts(p, next, r, rest)
  BY <1>2, Cut, Zenon
<1>12. /\ Len(r) >= 5 => Announced(r) = Len(p)
       /\ Len(r) >= Len(p) + 6 => Payload(r, Len(p)) = p /\ Beyond(r, Len(p)) \o rest = next
       /\ (r \o rest)[1] = Bar
  BY <1>10, <1>11, Zenon DEF Cuts, Announced
<1>13. ASSUME b = << >> PROVE d[1] = Bar
  <2>1. r = d
    BY <1>13, ConcatEmptySeq, Zenon
  <2>2. 1 \in 1 .. Len(r) + Len(rest) /\ 1 <= Len(r)
    <3>1. Len(rest) \in Nat
      BY LenProperties, Zenon
    <3> QED BY <1>2, <2>1, <3>1
  <2>3. (r \o rest)[1] = r[1]
    BY <1>2, <2>2, ConcatProperties, Zenon
  <2> QED BY <1>12, <2>1, <2>3, Zenon
<1>14. ASSUME Len(r) >= Announced(r) + 6
       PROVE  Carries(Beyond(r, Announced(r)), t, extra, s, Append(rec, Payload(r, Announced(r))), m)
  <2>1. Announced(r) \in Nat /\ Len(r) \in Nat
    BY <1>2, AnnouncedType, LenProperties, Zenon
  <2>2. Len(r) >= 5
    BY <1>14, <2>1
  <2>3. Announced(r) = Len(p) /\ Payload(r, Len(p)) = p /\ Beyond(r, Len(p)) \o rest = next
    BY <1>12, <1>14, <2>2, Zenon
  <2>4. PICK l : l = Append(rec, p)
    BY Zenon
  <2>5. PICK x \in Seq(Byte) : x = p /\ l = Append(rec, x)
    BY Zenon, <2>4 DEF Framable
  <2>6. /\ Len(l) = k + 1 /\ \A n \in 1 .. k : l[n] = rec[n]
        /\ l[k + 1] = x
    BY <1>1, <2>5
  <2>7. \A n \in 1 .. k + 1 : l[n] = s[n]
    <3>1. TAKE n \in 1 .. k + 1
    <3>2. CASE n = k + 1
      BY <1>9, <2>5, <2>6, <3>2, Zenon
    <3>3. CASE n # k + 1
      <4>1. n \in 1 .. k
        BY <3>3
      <4> QED BY <1>1, <2>6, <4>1, Zenon
    <3> QED BY <3>2, <3>3
  <2>8. k + 1 <= m
    BY <1>7
  <2>9. Framed(Beyond(r, Len(p)) \o rest, s, k + 1, m, 0)
    BY <1>8, <2>3, Zenon
  <2>10. Carries(Beyond(r, Len(p)), t, extra, s, l, m)
    BY <2>6, <2>7, <2>8, <2>9, Zenon DEF Carries
  <2> QED BY <2>3, <2>5, <2>10, Zenon
<1>15. ASSUME ~(Len(r) >= Announced(r) + 6) PROVE Carries(r, t, extra, s, rec, m)
  BY <1>1, <1>4, <1>5, Zenon DEF Carries
<1> QED BY <1>13, <1>14, <1>15

(* The next datagram of a thread that writes alone goes out. *)
LEMMA CarriesSendto ==
  ASSUME NEW b, NEW q \in Seq(Seq(Byte)), NEW o \in Seq(Seq(Byte)), o # << >>,
         NEW s, NEW rec, NEW m, Carries(b, q, o, s, rec, m)
  PROVE  Carries(b, Append(q, Head(o)), Tail(o), s, rec, m)
<1>1. PICK h \in Seq(Byte), t \in Seq(Seq(Byte)) : h = Head(o) /\ t = Tail(o) /\ o = <<h>> \o t
  <2>1. Head(o) \in Seq(Byte) /\ Tail(o) \in Seq(Seq(Byte))
    BY HeadTailProperties
  <2>2. o = <<Head(o)>> \o Tail(o)
    OBVIOUS
  <2> QED BY <2>1, <2>2, Zenon
<1>2. Append(q, h) \o t = q \o o
  <2>1. Append(q, h) = q \o <<h>>
    OBVIOUS
  <2>2. Regroups(q, <<h>>, t)
    <3>1. <<h>> \in Seq(Seq(Byte))
      OBVIOUS
    <3> QED BY <3>1, Regroup, Zenon
  <2> QED BY <1>1, <2>1, <2>2, Zenon DEF Regroups
<1> QED BY <1>1, <1>2, Zenon DEF Carries

(* Nothing of sender a changes. *)
Untouched(a) ==
  /\ net'[a] = net[a] /\ buffer'[a] = buffer[a] /\ sent'[a] = sent[a] /\ received'[a] = received[a]
  /\ \A w \in Writers : Address[w] = a => out'[w] = out[w]

LEMMA UntouchedDelivery ==
  ASSUME NEW a \in Addresses, Delivery(a), Untouched(a)
  PROVE  Delivery(a)'
<1>1. Active(a)' = Active(a)
  BY DEF Active, Untouched
<1>2. \A w \in Active(a) : out'[w] = out[w]
  BY DEF Active, Untouched
<1>3. PICK extra \in Seq(Seq(Byte)), m \in Nat :
        /\ Carries(buffer[a], net[a], extra, sent[a], received[a], m)
        /\ (\A v, u \in Active(a) : v = u) =>
             /\ m = Len(sent[a])
             /\ Active(a) = {} => extra = << >>
             /\ \A u \in Active(a) : extra = out[u]
  BY Zenon DEF Delivery
<1>4. Carries(buffer'[a], net'[a], extra, sent'[a], received'[a], m)
  BY <1>3, Zenon DEF Untouched
<1>5. (\A v, u \in Active(a)' : v = u) =>
        /\ m = Len(sent'[a])
        /\ Active(a)' = {} => extra = << >>
        /\ \A u \in Active(a)' : extra = out'[u]
  BY <1>1, <1>2, <1>3, Zenon DEF Untouched
<1> QED BY <1>4, <1>5, Zenon DEF Delivery

(* What a step can be to a sender that it does not disturb. *)
LEMMA StepOf ==
  ASSUME Types, [Next]_vars, NEW a \in Addresses \ disturbed'
  PROVE  \/ Untouched(a)
         \/ \E w \in Writers, p \in Packets : Address[w] = a /\ WritePacket(w, p)
         \/ \E w \in Writers : Address[w] = a /\ Sendto(w) /\ ~Overlaps(w)
         \/ \E s : Takes(a, s)
<1>1. ASSUME NEW w \in Writers, NEW p \in Packets, WritePacket(w, p), Address[w] # a
      PROVE  Untouched(a)
  BY <1>1 DEF WritePacket, Untouched, Types
<1>2. ASSUME NEW w \in Writers, Sendto(w), Address[w] # a PROVE Untouched(a)
  BY <1>2 DEF Sendto, Untouched, Types
<1>3. ASSUME NEW w \in Writers, Sendto(w), Address[w] = a PROVE ~Overlaps(w)
  BY <1>3, Zenon DEF Sendto
<1>4. ASSUME NEW w \in Writers, SendtoFails(w) PROVE Untouched(a)
  BY <1>4 DEF SendtoFails, Fault, Untouched, Types
<1>5. ASSUME NEW b \in Addresses, NEW i \in 1 .. Len(net[b]),
             Lose(b, i) \/ Duplicate(b, i) \/ Reorder(b, i)
      PROVE  Untouched(a)
  <2>1. PICK e : Garbled(b, e)
    BY <1>5, Garbling, Zenon
  <2> QED BY <2>1 DEF Garbled, Untouched, Types
<1>6. ASSUME NEW b \in Addresses, ReceiveDatagram(b), b # a PROVE Untouched(a)
  <2>1. PICK s : Takes(b, s)
    BY <1>6, Taking
  <2> QED BY SMTT(30), <1>6, <2>1 DEF Takes, Accepts, Untouched, Types
<1>7. CASE UNCHANGED vars
  BY <1>7 DEF vars, Untouched
<1> QED BY <1>1, <1>2, <1>3, <1>4, <1>5, <1>6, <1>7, Taking, Zenon DEF Next

LEMMA WriteDelivers ==
  ASSUME Types, NEW a \in Addresses, Delivery(a), NEW w \in Writers, NEW p \in Packets,
         Address[w] = a, WritePacket(w, p)
  PROVE  Delivery(a)'
<1>1. PICK extra \in Seq(Seq(Byte)), m \in Nat :
        /\ Carries(buffer[a], net[a], extra, sent[a], received[a], m)
        /\ (\A v, u \in Active(a) : v = u) =>
             /\ m = Len(sent[a])
             /\ Active(a) = {} => extra = << >>
             /\ \A u \in Active(a) : extra = out[u]
  BY Zenon DEF Delivery
<1>2. PICK d \in Seq(Seq(Byte)) : d = Datagrams(Frame(p)) /\ d # << >>
  <2>1. PICK f \in Seq(Byte) : f = Frame(p)
    BY FrameType
  <2>2. Datagrams(f) \in Seq(Seq(Byte)) /\ Len(Datagrams(f)) # 0
    BY DatagramsLen
  <2>3. Datagrams(f) # << >>
    BY <2>2, EmptySeq, Zenon
  <2> QED BY <2>1, <2>2, <2>3, Zenon
<1>3. /\ out[w] = << >> /\ out' = [out EXCEPT ![w] = d]
      /\ sent' = [sent EXCEPT ![a] = Append(sent[a], p)]
      /\ UNCHANGED <<net, buffer, received>>
  BY <1>2 DEF WritePacket
<1>4. Active(a)' = Active(a) \cup {w} /\ w \notin Active(a) /\ out'[w] = d
  BY SMTT(30), <1>2, <1>3 DEF Active, Types
<1>5. PICK b \in Seq(Byte), q \in Seq(Seq(Byte)), s \in Seq(Packets), rec \in Seq(Seq(Byte)) :
        b = buffer[a] /\ q = net[a] /\ s = sent[a] /\ rec = received[a]
  BY DEF Types
<1>6. buffer'[a] = b /\ net'[a] = q /\ sent'[a] = Append(s, p) /\ received'[a] = rec
  BY <1>3, <1>5 DEF Types
<1>7. CASE Active(a) = {}
  <2>1. Carries(b, q, << >>, s, rec, Len(s))
    BY <1>1, <1>5, <1>7, Zenon
  <2>2. Carries(b, q, d, Append(s, p), rec, Len(s) + 1)
    BY <1>2, <2>1, CarriesMore, Zenon
  <2>3. Len(Append(s, p)) = Len(s) + 1 /\ Len(s) + 1 \in Nat
    BY LenProperties, AppendProperties
  <2>4. Active(a)' = {w}
    BY <1>4, <1>7
  <2>5. Carries(buffer'[a], net'[a], d, sent'[a], received'[a], Len(s) + 1) /\ Len(s) + 1 = Len(sent'[a])
    BY <1>6, <2>2, <2>3, Zenon
  <2>6. Active(a)' # {} /\ \A v \in Active(a)' : d = out'[v]
    BY <1>4, <2>4, Zenon
  <2> QED BY <2>3, <2>5, <2>6, Zenon DEF Delivery
<1>8. CASE Active(a) # {}
  <2>1. Carries(b, q, extra, Append(s, p), rec, m)
    BY <1>1, <1>5, CarriesSent, Zenon
  <2>2. ~(\A v, u \in Active(a)' : v = u)
    BY <1>4, <1>8
  <2> QED BY <1>6, <2>1, <2>2, Zenon DEF Delivery
<1> QED BY <1>7, <1>8

LEMMA SendtoDelivers ==
  ASSUME Types, NEW a \in Addresses, Delivery(a), NEW w \in Writers, Address[w] = a,
         Sendto(w), ~Overlaps(w)
  PROVE  Delivery(a)'
<1>1. out[w] # << >> /\ Active(a) = {w}
  BY DEF Sendto, Overlaps, Active
<1>2. PICK m \in Nat :
        Carries(buffer[a], net[a], out[w], sent[a], received[a], m) /\ m = Len(sent[a])
  BY <1>1, Zenon DEF Delivery
<1>3. PICK q \in Seq(Seq(Byte)), o \in Seq(Seq(Byte)) : q = net[a] /\ o = out[w]
  BY DEF Types
<1>4. PICK n : n = Append(q, Head(o))
  BY Zenon
<1>5. PICK t \in Seq(Seq(Byte)) : t = Tail(o) /\ n = Append(q, Head(o))
  BY Zenon, <1>1, <1>3, <1>4, HeadTailProperties
<1>6. Carries(buffer[a], n, t, sent[a], received[a], m)
  BY <1>1, <1>2, <1>3, <1>5, CarriesSendto, Zenon
<1>7. /\ net' = [net EXCEPT ![a] = n] /\ out' = [out EXCEPT ![w] = t]
      /\ UNCHANGED <<buffer, sent, received>>
  BY <1>3, <1>5 DEF Sendto
<1>8. net'[a] = n /\ out'[w] = t
  BY <1>7 DEF Types
<1>9. Active(a)' = IF t = << >> THEN {} ELSE {w}
  BY <1>1, <1>7 DEF Active, Types
<1>10. Active(a)' = {} => t = << >>
  BY Zenon, <1>9
<1>11. \A v \in Active(a)' : t = out'[v]
  BY SMTT(30), <1>8, <1>9
<1> QED BY <1>2, <1>6, <1>7, <1>8, <1>10, <1>11, Zenon DEF Delivery

LEMMA TakeDelivers ==
  ASSUME Types, NEW a \in Addresses, Delivery(a), NEW d, Takes(a, d)
  PROVE  /\ Delivery(a)'
         /\ error' = error \/ error' = error \cup {"NOT_CONNECTED"}
<1>1. PICK extra \in Seq(Seq(Byte)), m \in Nat :
        /\ Carries(buffer[a], net[a], extra, sent[a], received[a], m)
        /\ (\A v, u \in Active(a) : v = u) =>
             /\ m = Len(sent[a])
             /\ Active(a) = {} => extra = << >>
             /\ \A u \in Active(a) : extra = out[u]
  BY Zenon DEF Delivery
<1>2. PICK b \in Seq(Byte), q \in Seq(Seq(Byte)), s \in Seq(Packets), rec \in Seq(Seq(Byte)) :
        b = buffer[a] /\ q = net[a] /\ s = sent[a] /\ rec = received[a]
  BY DEF Types
<1>3. PICK t : q # << >> /\ d = Head(q) /\ t = Tail(q) /\ net' = [net EXCEPT ![a] = t]
  BY <1>2, Zenon DEF Takes
<1>4. d \in Seq(Byte)
  BY <1>3, HeadTailProperties
<1>5. Len(rec) <= m /\ m <= Len(s) /\ \A n \in 1 .. Len(rec) : rec[n] = s[n]
  BY <1>1, <1>2, Zenon DEF Carries
<1>6. PICK rest \in Seq(Byte) :
        Joined(rest, t \o extra) /\ Framed(b \o (d \o rest), s, Len(rec), m, 0)
  <2>1. Carries(b, q, extra, s, rec, m)
    BY <1>1, <1>2, Zenon
  <2>2. q # << >>
    BY <1>3
  <2>3. Opens(b, Head(q), Tail(q), extra, s, rec, m)
    BY <2>1, <2>2, CarriesTake, Zenon
  <2> QED BY <1>3, <2>3, Zenon DEF Opens
<1>7. UNCHANGED <<out, sent>> /\ net'[a] = t /\ Active(a)' = Active(a)
  BY Zenon, <1>3 DEF Takes, Types, Active
<1>8. SUFFICES /\ Carries(buffer'[a], t, extra, s, received'[a], m)
               /\ error' = error \/ error' = error \cup {"NOT_CONNECTED"}
  <2>1. ASSUME Carries(buffer'[a], t, extra, s, received'[a], m) PROVE Delivery(a)'
    <3>1. Carries(buffer'[a], net'[a], extra, sent'[a], received'[a], m)
      BY <1>2, <1>7, <2>1, Zenon
    <3>2. (\A v, u \in Active(a)' : v = u) =>
            /\ m = Len(sent'[a])
            /\ Active(a)' = {} => extra = << >>
            /\ \A u \in Active(a)' : extra = out'[u]
      BY <1>1, <1>7, Zenon
    <3> QED BY <3>1, <3>2, Zenon DEF Delivery
  <2> QED BY <2>1
<1>9. CASE d = << >>
  <2>1. d \o rest = rest
    BY <1>9, ConcatEmptySeq, Zenon
  <2>2. Carries(b, t, extra, s, rec, m)
    BY <1>5, <1>6, <2>1, Zenon DEF Carries
  <2>3. UNCHANGED <<buffer, received>> /\ error' = error \cup {"NOT_CONNECTED"}
    BY <1>9, Zenon DEF Takes
  <2> QED BY <1>2, <2>2, <2>3, Zenon
<1>10. CASE d # << >>
  <2>1. PICK r : r = b \o d
    BY Zenon
  <2>2. /\ b = << >> => d[1] = Bar
        /\ Len(r) >= Announced(r) + 6 =>
             Carries(Beyond(r, Announced(r)), t, extra, s, Append(rec, Payload(r, Announced(r))), m)
        /\ ~(Len(r) >= Announced(r) + 6) => Carries(r, t, extra, s, rec, m)
    BY <1>4, <1>5, <1>6, <1>10, <2>1, CarriesAccept, Zenon
  <2>3. Accepts(a, r) /\ error' = error
    BY <1>2, <1>10, <2>1, <2>2, Zenon DEF Takes
  <2>4. CASE Len(r) >= Announced(r) + 6
    <3>1. PICK x, y : x = Append(rec, Payload(r, Announced(r))) /\ y = Beyond(r, Announced(r))
      BY Zenon
    <3>2. received' = [received EXCEPT ![a] = x] /\ buffer' = [buffer EXCEPT ![a] = y]
      BY <1>2, <2>3, <2>4, <3>1, Zenon DEF Accepts
    <3>3. received'[a] = x /\ buffer'[a] = y
      BY <3>2 DEF Types
    <3> QED BY <2>2, <2>3, <2>4, <3>1, <3>3, Zenon
  <2>5. CASE ~(Len(r) >= Announced(r) + 6)
    <3>1. received' = received /\ buffer' = [buffer EXCEPT ![a] = r]
      BY <2>3, <2>5, Zenon DEF Accepts
    <3>2. buffer'[a] = r
      BY <3>1 DEF Types
    <3> QED BY <1>2, <2>2, <2>3, <2>5, <3>1, <3>2, Zenon
  <2> QED BY <2>4, <2>5
<1> QED BY <1>9, <1>10

LEMMA UndisturbedStep ==
  Types /\ Undisturbed /\ [Next]_vars => Undisturbed'
<1> SUFFICES ASSUME Types, Undisturbed, [Next]_vars, NEW a \in Addresses \ disturbed'
             PROVE  Delivery(a)'
  BY Zenon DEF Undisturbed
<1>1. disturbed \subseteq disturbed'
  BY Zenon DEF Next, vars, WritePacket, Sendto, SendtoFails, Fault, Lose, Duplicate, Reorder,
     ReceiveDatagram
<1>2. a \in Addresses /\ Delivery(a)
  BY <1>1, Zenon DEF Undisturbed
<1> QED BY <1>2, StepOf, UntouchedDelivery, WriteDelivers, SendtoDelivers, TakeDelivers, Zenon

(* The framing check does not trip as long as nobody is disturbed. *)
UnknownCause == "UNKNOWN" \in error => disturbed # {}

LEMMA UnknownCauseStep ==
  Types /\ Undisturbed /\ UnknownCause /\ [Next]_vars => UnknownCause'
<1> SUFFICES ASSUME Types, Undisturbed, UnknownCause, [Next]_vars, "UNKNOWN" \in error'
             PROVE  disturbed' # {}
  BY DEF UnknownCause
<1>1. disturbed \subseteq disturbed'
  BY Zenon DEF Next, vars, WritePacket, Sendto, SendtoFails, Fault, Lose, Duplicate, Reorder,
     ReceiveDatagram
<1>2. CASE "UNKNOWN" \in error
  BY <1>1, <1>2 DEF UnknownCause
<1>3. CASE "UNKNOWN" \notin error
  <2>1. PICK a \in Addresses : ReceiveDatagram(a)
    BY <1>3, Zenon DEF Next, vars, WritePacket, Sendto, SendtoFails, Lose, Duplicate, Reorder
  <2>2. PICK d : Takes(a, d)
    BY <2>1, Taking
  <2>3. ~(error' = error \/ error' = error \cup {"NOT_CONNECTED"})
    BY <1>3
  <2>4. ~Delivery(a)
    BY <2>2, <2>3, TakeDelivers, Zenon
  <2> QED BY <1>1, <2>4, Zenon DEF Undisturbed
<1> QED BY <1>2, <1>3

-----------------------------------------------------------------------------
Inv == Types /\ EmptyCause /\ SmallWhole /\ Undisturbed /\ UnknownCause

LEMMA InitInv == Init => Inv
<1> SUFFICES ASSUME Init PROVE Inv
  OBVIOUS
<1>1. Types
  <2>1. << >> \in Seq(Seq(Byte)) /\ << >> \in Seq(Byte) /\ << >> \in Seq(Packets)
    BY EmptySeq
  <2> QED BY <2>1 DEF Init, Types
<1>2. \A X : \A a \in Addresses : PiecesIn(a, X)
  <2>1. \A X : << >> \in Seq(X)
    BY EmptySeq
  <2> QED BY <2>1 DEF Init, PiecesIn
<1>3. EmptyCause
  BY <1>2 DEF Init, EmptyCause
<1>4. SmallWhole
  <2>1. \A a \in Addresses : received[a] = << >> /\ sent[a] = << >> /\ buffer[a] = << >>
    BY DEF Init
  <2> QED BY <1>2, <2>1, Zenon DEF SmallWhole
<1>5. Undisturbed
  <2> SUFFICES ASSUME NEW a \in Addresses PROVE Delivery(a)
    BY DEF Undisturbed
  <2>1. /\ buffer[a] = << >> /\ net[a] = << >> /\ sent[a] = << >> /\ received[a] = << >>
        /\ Active(a) = {}
    BY DEF Init, Active
  <2>2. << >> \in Seq(Byte) /\ << >> \in Seq(Seq(Byte)) /\ Len(<< >>) = 0 /\ << >> \o << >> = << >>
    BY EmptySeq, ConcatEmptySeq
  <2>3. Framed(<< >>, << >>, 0, 0, 0)
    BY FramedNothing
  <2>4. Carries(<< >>, << >>, << >>, << >>, << >>, 0)
    <3>1. 1 .. 0 = {} /\ 0 <= 0
      OBVIOUS
    <3>2. PICK e : e = << >>
      OBVIOUS
    <3>3. Joined(e, e \o e) /\ Framed(e \o e, e, Len(e), 0, 0) /\ e \in Seq(Byte) /\ Len(e) = 0
      BY <2>2, <2>3, <3>2, JoinedNothing, Zenon
    <3> QED BY <3>1, <3>2, <3>3, Zenon DEF Carries
  <2> QED BY Zenon, <2>1, <2>2, <2>4 DEF Delivery
<1>6. UnknownCause
  BY DEF Init, UnknownCause
<1> QED BY <1>1, <1>3, <1>4, <1>5, <1>6 DEF Inv

(* The inductive invariant behind the three results below: what is in        *)
(* _buffer, under way and still to be sent are the frames of the packets     *)
(* that follow the received ones.                                            *)
THEOREM Invariance == Spec => []Inv
<1>1. Inv /\ [Next]_vars => Inv'
  BY TypesStep, EmptyCauseStep, SmallWholeStep, UndisturbedStep, UnknownCauseStep, Zenon DEF Inv
<1> QED BY <1>1, InitInv, PTL DEF Spec

(* "a packet being able to be completely received in one call of             *)
(* receivePacket" (UdpSocket.h:107), for any number of sockets, threads and   *)
(* packets and any size of a datagram: what receivePacket returns for a       *)
(* sender without faults and overlapping writes are the packets it wrote,     *)
(* whole and in order, whatever happens to the other senders.                 *)
THEOREM SenderIntactHolds == Spec => []SenderIntact
<1>1. Inv => SenderIntact
  <2> SUFFICES ASSUME Inv, NEW a \in Addresses \ disturbed
               PROVE  /\ Len(received[a]) <= Len(sent[a])
                      /\ \A n \in 1 .. Len(received[a]) : received[a][n] = sent[a][n]
    BY DEF SenderIntact
  <2>1. PICK r \in Seq(Seq(Byte)), s \in Seq(Packets) : r = received[a] /\ s = sent[a]
    BY DEF Inv, Types
  <2>2. PICK e \in Seq(Seq(Byte)), m \in Nat : Carries(buffer[a], net[a], e, s, r, m)
    BY <2>1, Zenon DEF Inv, Undisturbed, Delivery
  <2>3. Len(r) <= m /\ m <= Len(s) /\ \A n \in 1 .. Len(r) : r[n] = s[n]
    BY <2>2, Zenon DEF Carries
  <2>4. Len(r) \in Nat /\ Len(s) \in Nat
    BY LenProperties
  <2> QED BY <2>1, <2>3, <2>4
<1> QED BY <1>1, Invariance, PTL

(* A sender all of whose packets fit into a datagram cannot get one damaged, *)
(* whatever is lost, repeated, reordered or mixed: everything receivePacket  *)
(* returns for it was written by it.                                         *)
THEOREM SmallSurviveHolds == Spec => []SmallSurvive
<1>1. Inv => SmallSurvive
  BY Zenon DEF Inv, SmallWhole, Small, SmallSurvive
<1> QED BY <1>1, Invariance, PTL

(* The check for '|' at UdpSocket.cpp:214 can only trip after a fault or an  *)
(* overlapping write, and NOT_CONNECTED is returned only when a frame has    *)
(* filled its last datagram.                                                 *)
THEOREM ErrorCauseHolds == Spec => []ErrorCause
<1>1. Inv => ErrorCause
  BY Zenon DEF Inv, UnknownCause, EmptyCause, Multiple, ErrorCause
<1> QED BY <1>1, Invariance, PTL
=============================================================================
