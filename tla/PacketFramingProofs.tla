------------------------- MODULE PacketFramingProofs -------------------------
(***************************************************************************)
(* What the frame of PacketFraming is good for: a receiver that has the    *)
(* first five bytes of a frame knows the length of the packet, and cuts    *)
(* the packet out of any sequence of bytes that begins with its frame.     *)
(* The second half is about streams: bytes that are the frames of several  *)
(* packets (Framed), and bytes that arrive in several pieces (Joined).     *)
(***************************************************************************)
EXTENDS PacketFraming, Integers, SequenceTheorems, TLAPS

(* Facts with several sequences are stated by an operator each: the provers  *)
(* instantiate it without unfolding the concatenations in it.                *)
Regroups(a, b, c) == (a \o b) \o c = a \o (b \o c)

LEMMA Regroup ==
  ASSUME NEW S, NEW a \in Seq(S), NEW b \in Seq(S), NEW c \in Seq(S)
  PROVE  Regroups(a, b, c)
BY ConcatAssociative DEF Regroups

(* A sequence that begins with f, cut in two: r and w. *)
Splits(S, f, rest, r, w) ==
  r \o w = f \o rest =>
    /\ \A j \in 1 .. Len(f) : j <= Len(r) => r[j] = f[j]
    /\ Len(r \o w) = Len(f) + Len(rest)
    /\ Len(f) >= 1 => (r \o w)[1] = f[1]
    /\ Len(r) >= Len(f) =>
         /\ SubSeq(r, Len(f) + 1, Len(r)) \in Seq(S)
         /\ SubSeq(r, Len(f) + 1, Len(r)) \o w = rest

(* The part of r that is beyond f, and w, are what followed f. *)
LEMMA Split ==
  ASSUME NEW S, NEW f \in Seq(S), NEW rest \in Seq(S), NEW r \in Seq(S), NEW w \in Seq(S)
  PROVE  Splits(S, f, rest, r, w)
<1>1. Len(r) \in Nat /\ Len(f) \in Nat /\ Len(w) \in Nat /\ Len(rest) \in Nat
  BY LenProperties
<1>2. ASSUME r \o w = f \o rest, NEW j \in 1 .. Len(f), j <= Len(r) PROVE r[j] = f[j]
  <2>1. j \in 1 .. Len(r) + Len(w) /\ j \in 1 .. Len(f) + Len(rest) /\ j <= Len(f)
    BY <1>1, <1>2
  <2>2. (r \o w)[j] = r[j]
    BY <1>2, <2>1, ConcatProperties, Zenon
  <2>3. (f \o rest)[j] = f[j]
    BY <2>1, ConcatProperties, Zenon
  <2> QED BY <1>2, <2>2, <2>3
<1>3. ASSUME r \o w = f \o rest, Len(r) >= Len(f)
      PROVE  /\ SubSeq(r, Len(f) + 1, Len(r)) \in Seq(S)
             /\ SubSeq(r, Len(f) + 1, Len(r)) \o w = rest
  <2>1. PICK t : t = SubSeq(r, Len(f) + 1, Len(r))
    BY Zenon
  <2>2. SubSeq(r, 1, Len(f)) = f
    <3>1. \A i \in 1 .. Len(f) : r[i] \in S
      BY <1>1, <1>3, ElementOfSeq
    <3>2. /\ SubSeq(r, 1, Len(f)) \in Seq(S) /\ Len(SubSeq(r, 1, Len(f))) = Len(f)
          /\ \A i \in 1 .. Len(f) : SubSeq(r, 1, Len(f))[i] = r[i]
      BY <1>1, <3>1, SubSeqProperties
    <3>3. \A i \in 1 .. Len(f) : SubSeq(r, 1, Len(f))[i] = f[i]
      BY <1>1, <1>2, <1>3, <3>2
    <3> QED BY <3>2, <3>3, SeqEqual
  <2>3. t \in Seq(S)
    <3>1. \A i \in Len(f) + 1 .. Len(r) : r[i] \in S
      BY <1>1, ElementOfSeq
    <3> QED BY <1>1, <2>1, <3>1, SubSeqProperties
  <2>4. f \o t = r
    <3>1. /\ 1 \in 1 .. Len(r) + 1 /\ Len(f) \in 1 - 1 .. Len(r) /\ Len(r) \in Len(f) .. Len(r)
      BY <1>1, <1>3
    <3>2. SubSeq(r, 1, Len(f)) \o SubSeq(r, Len(f) + 1, Len(r)) = SubSeq(r, 1, Len(r))
      BY <3>1, ConcatAdjacentSubSeq, Zenon
    <3> QED BY <2>1, <2>2, <3>2, SubSeqFull, Zenon
  <2>5. f \o (t \o w) = f \o rest
    <3>1. (f \o t) \o w = f \o (t \o w)
      <4>1. Regroups(f, t, w)
        BY <2>3, Regroup, Zenon
      <4> QED BY <4>1 DEF Regroups
    <3> QED BY <1>3, <2>4, <3>1
  <2>6. t \o w \in Seq(S)
    BY <2>3, ConcatProperties
  <2>7. t \o w = rest
    BY Zenon, <2>5, <2>6, ConcatSimplifications
  <2> QED BY SMTT(30), <2>1, <2>3, <2>7
<1>4. Len(f \o rest) = Len(f) + Len(rest)
  BY ConcatProperties
<1>5. ASSUME Len(f) >= 1 PROVE (f \o rest)[1] = f[1]
  <2>1. 1 \in 1 .. Len(f) + Len(rest) /\ 1 <= Len(f)
    BY <1>1, <1>5
  <2> QED BY <2>1, ConcatProperties
<1> QED BY <1>2, <1>3, <1>4, <1>5, Zenon DEF Splits

USE FramingAssumption

(* Quotient and remainder are the only numbers that are what they are. *)
LEMMA Quotient ==
  ASSUME NEW n \in Nat, NEW d \in Nat \ {0}, NEW q \in Int, NEW r \in Int,
         n = d * q + r, 0 <= r, r < d
  PROVE  n \div d = q /\ n % d = r
<1> DEFINE q0 == n \div d
           r0 == n % d
           k == q - q0
<1>1. q0 \in Int /\ r0 \in Int /\ n = d * q0 + r0 /\ 0 <= r0 /\ r0 < d
  OBVIOUS
<1> HIDE DEF q0, r0
<1>2. k \in Int /\ d * k = r0 - r
  BY <1>1
<1>3. ~(k >= 1)
  <2> SUFFICES ASSUME k >= 1 PROVE FALSE
    OBVIOUS
  <2>1. d * k >= d
    BY <1>2
  <2> QED BY <1>1, <1>2, <2>1
<1>4. ~(k <= -1)
  <2> SUFFICES ASSUME k <= -1 PROVE FALSE
    OBVIOUS
  <2>1. d * k <= -d
    BY <1>2
  <2> QED BY <1>1, <1>2, <2>1
<1>5. k = 0
  BY <1>2, <1>3, <1>4
<1>6. q = q0
  BY <1>1, <1>5
<1>7. r = r0
  BY <1>1, <1>6
<1> QED BY <1>6, <1>7 DEF q0, r0

(* Dividing twice is dividing by the product. *)
LEMMA Division ==
  ASSUME NEW n \in Nat, NEW m \in Nat \ {0}, NEW d \in Nat \ {0}
  PROVE  n \div (m * d) = (n \div m) \div d
<1> DEFINE a == n \div m
           r == n % m
           b == a \div d
           s == a % d
<1>1. a \in Nat /\ r \in Nat /\ n = m * a + r /\ r < m
  OBVIOUS
<1> HIDE DEF a, r
<1>2. b \in Nat /\ s \in Nat /\ a = d * b + s /\ s < d
  BY <1>1
<1> HIDE DEF b, s
<1>3. m * d \in Nat \ {0}
  OBVIOUS
<1>4. n = (m * d) * b + (m * s + r)
  <2>1. m * a = m * (d * b) + m * s
    BY <1>1, <1>2
  <2>2. m * (d * b) = (m * d) * b
    BY <1>2
  <2>3. m * s \in Nat /\ (m * d) * b \in Nat
    BY <1>2
  <2> QED BY <1>1, <2>1, <2>2, <2>3
<1>5. m * s + r \in Nat /\ m * s + r < m * d
  <2>1. m * s \in Nat /\ m * (s + 1) <= m * d
    BY <1>2
  <2>2. m * (s + 1) = m * s + m
    BY <1>2
  <2>3. m * d \in Nat
    OBVIOUS
  <2> QED BY <1>1, <2>1, <2>2, <2>3
<1> DEFINE t == m * s + r
           e == m * d
<1>6. e \in Nat \ {0} /\ t \in Nat /\ t < e /\ n = e * b + t
  BY <1>3, <1>4, <1>5
<1> HIDE DEF t, e
<1>7. n \div e = b
  BY <1>2, <1>6, Quotient
<1> QED BY <1>7 DEF e, b, a

(* The four digits of a number below Base^4 in base Base make it up again. *)
LEMMA Digits ==
  ASSUME NEW n \in Nat, n < Base * Base * Base * Base
  PROVE  /\ (n \div (Base * Base * Base)) % Base \in Byte
         /\ (n \div (Base * Base)) % Base \in Byte
         /\ (n \div Base) % Base \in Byte
         /\ n % Base \in Byte
         /\ n = ((n \div (Base * Base * Base)) % Base) * Base * Base * Base
                  + ((n \div (Base * Base)) % Base) * Base * Base
                  + ((n \div Base) % Base) * Base + (n % Base)
<1> DEFINE q1 == n \div Base
           q2 == n \div (Base * Base)
           q3 == n \div (Base * Base * Base)
           d3 == q3 % Base
           d2 == q2 % Base
           d1 == q1 % Base
           d0 == n % Base
<1>1. Base * Base \in Nat \ {0} /\ Base * Base * Base \in Nat \ {0}
  <2>1. Base * Base \in Nat \ {0}
    OBVIOUS
  <2> DEFINE e == Base * Base
  <2> HIDE DEF e
  <2>2. e \in Nat \ {0} => e * Base \in Nat \ {0}
    OBVIOUS
  <2> QED BY <2>1, <2>2 DEF e
<1>2. q1 \in Nat /\ q2 \in Nat /\ q3 \in Nat
  <2>1. ASSUME NEW e \in Nat \ {0} PROVE n \div e \in Nat
    OBVIOUS
  <2> QED BY <1>1, <2>1
<1>3. q2 = q1 \div Base
  BY Zenon, Division
<1>4. q3 = q2 \div Base
  BY <1>1, Division
<1> DEFINE f == Base * Base * Base
<1>5. f \in Nat \ {0} /\ q3 = n \div f /\ n < f * Base
  BY <1>1
<1>6. q3 < Base
  <2> HIDE DEF f, q3
  <2>1. q3 \in Nat /\ f * q3 <= n
    BY <1>5
  <2> SUFFICES ASSUME q3 >= Base PROVE FALSE
    BY <2>1
  <2>2. f * q3 >= f * Base
    BY <1>5, <2>1
  <2>3. f * q3 \in Nat /\ f * Base \in Nat
    BY <1>5, <2>1
  <2> QED BY <1>5, <2>1, <2>2, <2>3
<1> HIDE DEF q1, q2, q3, f
<1>7. d3 = q3
  BY <1>2, <1>6
<1>8. d0 \in Byte /\ d1 \in Byte /\ d2 \in Byte /\ d3 \in Byte
  BY <1>2 DEF Byte
<1>9. n = Base * q1 + d0 /\ q1 = Base * q2 + d1 /\ q2 = Base * q3 + d2
  BY <1>2, <1>3, <1>4 DEF q1
<1>10. n = d3 * Base * Base * Base + d2 * Base * Base + d1 * Base + d0
  <2> HIDE DEF d0, d1, d2, d3
  <2>1. /\ d0 \in Nat /\ d1 \in Nat /\ d2 \in Nat /\ d3 \in Nat
    BY <1>8 DEF Byte
  <2>2. q2 = d3 * Base + d2
    BY <1>7, <1>9, <2>1
  <2>3. q1 = (d3 * Base + d2) * Base + d1
    <3>1. q1 = q2 * Base + d1
      BY <1>2, <1>9, <2>1
    <3> QED BY <2>2, <3>1
  <2>4. q1 = d3 * Base * Base + d2 * Base + d1
    BY <2>1, <2>3
  <2>5. n = (d3 * Base * Base + d2 * Base + d1) * Base + d0
    <3>1. n = q1 * Base + d0
      BY <1>2, <1>9, <2>1
    <3> QED BY <2>4, <3>1
  <2> QED BY <2>1, <2>5
<1> QED BY Zenon, <1>8, <1>10 DEF q1, q2, q3

(* A frame byte by byte. *)
LEMMA FrameBytes ==
  ASSUME NEW p \in Seq(Byte), Len(p) < Base * Base * Base * Base
  PROVE  /\ Frame(p) \in Seq(Byte) /\ Len(Frame(p)) = Len(p) + 6
         /\ Frame(p)[1] = Bar
         /\ FrameLength(Frame(p)) = Len(p)
         /\ \A j \in 1 .. Len(p) : Frame(p)[j + 5] = p[j]
<1> DEFINE n == Len(p)
           d3 == (n \div (Base * Base * Base)) % Base
           d2 == (n \div (Base * Base)) % Base
           d1 == (n \div Base) % Base
           d0 == n % Base
           h == <<Bar>> \o <<d3, d2, d1, d0>>
           c == h \o p
<1>1. n \in Nat
  BY LenProperties
<1>2. /\ d3 \in Byte /\ d2 \in Byte /\ d1 \in Byte /\ d0 \in Byte
      /\ n = d3 * Base * Base * Base + d2 * Base * Base + d1 * Base + d0
  BY Zenon, <1>1, Digits
<1>3. Frame(p) = c \o <<Bar>>
  BY DEF Frame
<1>4. Len(p) = n
  OBVIOUS
<1> HIDE DEF n, d3, d2, d1, d0
<1>5. <<Bar>> \in Seq(Byte) /\ Len(<<Bar>>) = 1 /\ <<Bar>>[1] = Bar
  OBVIOUS
<1>6. /\ <<d3, d2, d1, d0>> \in Seq(Byte) /\ Len(<<d3, d2, d1, d0>>) = 4
      /\ <<d3, d2, d1, d0>>[1] = d3 /\ <<d3, d2, d1, d0>>[2] = d2
      /\ <<d3, d2, d1, d0>>[3] = d1 /\ <<d3, d2, d1, d0>>[4] = d0
  BY <1>2
<1>7. /\ h \in Seq(Byte) /\ Len(h) = 5
      /\ h[1] = Bar /\ h[2] = d3 /\ h[3] = d2 /\ h[4] = d1 /\ h[5] = d0
  BY <1>5, <1>6, ConcatProperties
<1> HIDE DEF h
<1>8. /\ c \in Seq(Byte) /\ Len(c) = n + 5
      /\ \A i \in 1 .. 5 : c[i] = h[i]
      /\ \A j \in 1 .. n : c[j + 5] = p[j]
  <2>1. /\ h \o p \in Seq(Byte) /\ Len(h \o p) = Len(h) + Len(p)
        /\ \A i \in 1 .. Len(h) + Len(p) :
             (h \o p)[i] = IF i <= Len(h) THEN h[i] ELSE p[i - Len(h)]
    BY <1>7, ConcatProperties, Zenon
  <2>2. \A i \in 1 .. 5 + n : c[i] = IF i <= 5 THEN h[i] ELSE p[i - 5]
    BY <1>7, <1>4, <2>1, Zenon
  <2>3. c \in Seq(Byte) /\ Len(c) = 5 + n
    BY <1>7, <1>4, <2>1, Zenon
  <2> HIDE DEF c
  <2>4. ASSUME NEW j \in 1 .. n PROVE c[j + 5] = p[j]
    <3>1. j + 5 \in 1 .. 5 + n /\ ~(j + 5 <= 5) /\ (j + 5) - 5 = j
      BY <1>1
    <3> QED BY <2>2, <3>1
  <2> QED BY <1>1, <2>2, <2>3, <2>4
<1> HIDE DEF c
<1>9. /\ Frame(p) \in Seq(Byte) /\ Len(Frame(p)) = n + 6
      /\ \A i \in 1 .. n + 5 : Frame(p)[i] = c[i]
  <2>1. \A i \in 1 .. (n + 5) + 1 : (c \o <<Bar>>)[i] = IF i <= n + 5 THEN c[i] ELSE <<Bar>>[i - (n + 5)]
    BY <1>5, <1>8, ConcatProperties
  <2>2. c \o <<Bar>> \in Seq(Byte) /\ Len(c \o <<Bar>>) = (n + 5) + 1
    BY <1>5, <1>8, ConcatProperties
  <2>3. \A i \in 1 .. n + 5 : (c \o <<Bar>>)[i] = c[i]
    <3> TAKE i \in 1 .. n + 5
    <3>1. i \in 1 .. (n + 5) + 1 /\ i <= n + 5
      BY <1>1
    <3> QED BY <2>1, <3>1, Zenon
  <2> QED BY <1>1, <1>3, <2>2, <2>3
<1>10. /\ Frame(p)[1] = Bar /\ Frame(p)[2] = d3 /\ Frame(p)[3] = d2
      /\ Frame(p)[4] = d1 /\ Frame(p)[5] = d0
  BY <1>1, <1>7, <1>8, <1>9
<1>11. FrameLength(Frame(p)) = n
  BY <1>2, <1>10 DEF FrameLength
<1>12. ASSUME NEW j \in 1 .. n PROVE Frame(p)[j + 5] = p[j]
  <2>1. j + 5 \in 1 .. n + 5
    BY <1>1
  <2>2. Frame(p)[j + 5] = c[j + 5]
    BY <1>9, <2>1, Zenon
  <2>3. c[j + 5] = p[j]
    BY <1>8, Zenon
  <2> QED BY <2>2, <2>3, Zenon
<1> QED BY <1>9, <1>10, <1>11, <1>12 DEF n

(* receivePacket finds the length in any sequence that begins like the      *)
(* frame, and the packet in any that begins with the whole frame.           *)
LEMMA FrameFound ==
  ASSUME NEW p \in Seq(Byte), Len(p) < Base * Base * Base * Base, NEW r \in Seq(Byte),
         Len(r) >= 5, \A j \in 1 .. Len(Frame(p)) : j <= Len(r) => r[j] = Frame(p)[j]
  PROVE  /\ FrameLength(r) = Len(p)
         /\ Len(r) >= Len(p) + 6 => Payload(r, Len(p)) = p
<1>1. Len(p) \in Nat /\ Len(r) \in Nat
  BY LenProperties
<1>2. FrameLength(r) = Len(p)
  <2>1. r[2] = Frame(p)[2] /\ r[3] = Frame(p)[3] /\ r[4] = Frame(p)[4] /\ r[5] = Frame(p)[5]
    <3>1. ASSUME NEW j \in 2 .. 5 PROVE r[j] = Frame(p)[j]
      <4>1. j \in 1 .. Len(Frame(p)) /\ j <= Len(r)
        BY <1>1, FrameBytes
      <4> QED BY <4>1
    <3>2. 2 \in 2 .. 5 /\ 3 \in 2 .. 5 /\ 4 \in 2 .. 5 /\ 5 \in 2 .. 5
      OBVIOUS
    <3> QED BY <3>1, <3>2, Zenon
  <2>2. FrameLength(r) = FrameLength(Frame(p))
    BY <2>1 DEF FrameLength
  <2> QED BY <2>2, FrameBytes
<1>3. ASSUME Len(r) >= Len(p) + 6 PROVE Payload(r, Len(p)) = p
  <2>1. \A i \in 6 .. 5 + Len(p) : r[i] \in Byte
    BY <1>1, <1>3, ElementOfSeq
  <2>2. /\ Payload(r, Len(p)) \in Seq(Byte) /\ Len(Payload(r, Len(p))) = Len(p)
        /\ \A i \in 1 .. Len(p) : Payload(r, Len(p))[i] = r[6 + i - 1]
    BY <1>1, <2>1, SubSeqProperties DEF Payload
  <2>3. ASSUME NEW i \in 1 .. Len(p) PROVE Payload(r, Len(p))[i] = p[i]
    <3>1. i + 5 \in 1 .. Len(Frame(p)) /\ i + 5 <= Len(r) /\ 6 + i - 1 = i + 5
      BY <1>1, <1>3, FrameBytes
    <3>2. r[i + 5] = Frame(p)[i + 5] /\ Frame(p)[i + 5] = p[i]
      BY <3>1, FrameBytes
    <3> QED BY <2>2, <3>1, <3>2
  <2> QED BY SMTT(30), <2>2, <2>3, SeqEqual
<1> QED BY <1>2, <1>3

-----------------------------------------------------------------------------
(* The packets that have a frame. *)
Framable == {p \in Seq(Byte) : Len(p) < Base * Base * Base * Base}

(* receivePacket's view of a stream that begins with the frame of p: once    *)
(* five bytes r are read the length is right, and once the whole frame is    *)
(* read the packet and what is left of the stream are right.                 *)
Cuts(p, rest, r, w) ==
  r \o w = Frame(p) \o rest =>
    /\ Len(r) >= 5 => FrameLength(r) = Len(p)
    /\ Len(r) >= Len(p) + 6 => /\ Payload(r, Len(p)) = p
                               /\ Beyond(r, Len(p)) \in Seq(Byte)
                               /\ Beyond(r, Len(p)) \o w = rest
    /\ Len(r \o w) >= Len(p) + 6
    /\ (r \o w)[1] = Bar

(* The framing of writePacket is sound for every base and every packet whose *)
(* length fits the four bytes: wherever the stream is cut, receivePacket     *)
(* (TcpSocket.cpp:437-494, UdpSocket.cpp:188-245) takes out the packet that  *)
(* was put in, and loses nothing of the next one.                            *)
THEOREM Cut ==
  ASSUME NEW p \in Framable, NEW rest \in Seq(Byte), NEW r \in Seq(Byte), NEW w \in Seq(Byte)
  PROVE  Cuts(p, rest, r, w)
<1>1. p \in Seq(Byte) /\ Len(p) < Base * Base * Base * Base
  BY DEF Framable
<1>2. PICK f : f = Frame(p)
  OBVIOUS
<1>3. /\ f \in Seq(Byte) /\ Len(f) = Len(p) + 6 /\ f[1] = Bar
  BY <1>2, <1>1, FrameBytes
<1>4. r \o w = Frame(p) \o rest => r \o w = f \o rest
  BY <1>2
<1>5. Splits(Byte, f, rest, r, w)
  BY <1>3, Split, Zenon
<1>6. Len(p) \in Nat /\ Len(r) \in Nat /\ Len(rest) \in Nat
  BY <1>1, LenProperties
<1>7. r \o w = f \o rest => \A j \in 1 .. Len(f) : j <= Len(r) => r[j] = f[j]
  BY <1>5 DEF Splits
<1>8. r \o w = f \o rest /\ Len(r) >= 5 => FrameLength(r) = Len(p)
  BY <1>2, <1>1, <1>7, FrameFound
<1>9. ASSUME r \o w = f \o rest, Len(r) >= Len(p) + 6
      PROVE  /\ Payload(r, Len(p)) = p
             /\ Beyond(r, Len(p)) \in Seq(Byte)
             /\ Beyond(r, Len(p)) \o w = rest
  <2>1. Len(r) >= 5 /\ (Len(p) + 6) + 1 = Len(p) + 7
    BY <1>6, <1>9
  <2>2. Payload(r, Len(p)) = p
    BY SMTT(30), <1>2, <1>1, <1>7, <1>9, <2>1, FrameFound
  <2>3. Len(r) >= Len(f)
    BY <1>3, <1>9
  <2>4. /\ SubSeq(r, Len(f) + 1, Len(r)) \in Seq(Byte)
        /\ SubSeq(r, Len(f) + 1, Len(r)) \o w = rest
    BY <1>9, <1>5, <2>3, Zenon DEF Splits
  <2> QED BY <1>3, <2>1, <2>2, <2>4, Zenon DEF Beyond
<1>10. r \o w = f \o rest => Len(r \o w) >= Len(p) + 6 /\ (r \o w)[1] = Bar
  <2>1. 1 <= Len(f)
    BY <1>3, <1>6
  <2> QED BY <1>3, <1>6, <1>5, <2>1 DEF Splits
<1> QED BY <1>8, <1>9, <1>10, <1>4, Zenon DEF Cuts

(* The length that receivePacket's loop knows after reading r. *)
Announced(r) == IF Len(r) >= 5 THEN FrameLength(r) ELSE 0

LEMMA AnnouncedType ==
  ASSUME NEW r \in Seq(Byte)
  PROVE  Announced(r) \in Nat
<1>1. CASE Len(r) >= 5
  <2>1. Len(r) \in Nat
    BY LenProperties
  <2>2. r[2] \in Byte /\ r[3] \in Byte /\ r[4] \in Byte /\ r[5] \in Byte
    BY <1>1, <2>1, ElementOfSeq
  <2>3. \A x \in Byte : x \in Nat
    BY DEF Byte
  <2>4. Base \in Nat /\ \A x, y \in Nat : x * y \in Nat
    BY FramingAssumption
  <2>5. /\ r[2] * Base * Base * Base \in Nat /\ r[3] * Base * Base \in Nat
        /\ r[4] * Base \in Nat /\ r[5] \in Nat
    BY <2>2, <2>3, <2>4, Zenon
  <2>6. \A x, y \in Nat : x + y \in Nat
    OBVIOUS
  <2>7. FrameLength(r) \in Nat
    BY Zenon, <2>5, <2>6 DEF FrameLength
  <2> QED BY Zenon, <1>1, <2>7 DEF Announced
<1>2. CASE ~(Len(r) >= 5)
  BY <1>2 DEF Announced
<1> QED BY <1>1, <1>2

(* A complete result is a packet and what lies beyond it. *)
LEMMA CompleteTypes ==
  ASSUME NEW r \in Seq(Byte), NEW n \in Nat, Len(r) >= n + 6
  PROVE  Payload(r, n) \in Seq(Byte) /\ Beyond(r, n) \in Seq(Byte)
<1>1. Len(r) \in Nat
  BY LenProperties
<1>2. \A i \in 6 .. 5 + n : r[i] \in Byte
  BY <1>1, ElementOfSeq
<1>3. \A i \in n + 7 .. Len(r) : r[i] \in Byte
  BY <1>1, ElementOfSeq
<1> QED BY <1>1, <1>2, <1>3, SubSeqProperties DEF Payload, Beyond

-----------------------------------------------------------------------------
(* stream is the frames of the packets s[k + 1] .. s[w], one after the other, *)
(* and nothing more if z = 0: rest[i] is what follows the frame of s[i].      *)
Follows(rest, stream, s, k, w, z) ==
  /\ rest \in [Nat -> Seq(Byte)] /\ rest[k] = stream
  /\ \A i \in k .. w - 1 : rest[i] = Frame(s[i + 1]) \o rest[i + 1]
  /\ z = 0 => rest[w] = << >>

Framed(stream, s, k, w, z) == \E rest : Follows(rest, stream, s, k, w, z)

(* Before anything is written. *)
LEMMA FramedNothing ==
  ASSUME NEW s, NEW k \in Nat
  PROVE  Framed(<< >>, s, k, k, 0)
<1> DEFINE none == [i \in Nat |-> << >>]
<1>1. none \in [Nat -> Seq(Byte)] /\ none[k] = << >>
  BY EmptySeq
<1>2. k .. k - 1 = {}
  OBVIOUS
<1> HIDE DEF none
<1>3. Follows(none, << >>, s, k, k, 0)
  BY <1>1, <1>2, Zenon DEF Follows
<1> QED BY <1>3, Zenon DEF Framed

(* After everything is read. *)
LEMMA FramedEnd ==
  ASSUME NEW s, NEW k \in Nat, NEW stream, Framed(stream, s, k, k, 0)
  PROVE  stream = << >>
BY DEF Framed, Follows

(* The frame of one more packet is written. *)
LEMMA FramedMore ==
  ASSUME NEW s \in Seq(Framable), NEW p \in Framable, NEW k \in Nat, k <= Len(s),
         NEW stream, Framed(stream, s, k, Len(s), 0)
  PROVE  Framed(stream \o Frame(p), Append(s, p), k, Len(s) + 1, 0)
<1>1. PICK rest : Follows(rest, stream, s, k, Len(s), 0)
  BY DEF Framed
<1> DEFINE longer == [i \in Nat |-> IF i <= Len(s) THEN rest[i] \o Frame(p) ELSE << >>]
<1>2. Len(s) \in Nat
  BY LenProperties
<1>3. Frame(p) \in Seq(Byte)
  BY FrameBytes DEF Framable
<1>4. \A i \in Nat : rest[i] \in Seq(Byte)
  BY <1>1 DEF Follows
<1>5. longer \in [Nat -> Seq(Byte)]
  <2>1. \A i \in Nat : rest[i] \o Frame(p) \in Seq(Byte)
    BY <1>3, <1>4, ConcatProperties
  <2> QED BY <2>1, EmptySeq
<1>6. longer[k] = stream \o Frame(p)
  BY Zenon, <1>1 DEF Follows
<1>7. ASSUME NEW i \in k .. (Len(s) + 1) - 1
      PROVE  longer[i] = Frame(Append(s, p)[i + 1]) \o longer[i + 1]
  <2>1. CASE i = Len(s)
    <3>1. i \in Nat /\ i + 1 \in Nat /\ i <= Len(s) /\ ~(i + 1 <= Len(s))
      BY <1>2, <2>1
    <3>2. rest[i] = << >>
      BY <1>1, <2>1 DEF Follows
    <3>3. longer[i] = << >> \o Frame(p) /\ longer[i + 1] = << >>
      BY <3>1, <3>2, Zenon
    <3>4. Append(s, p)[i + 1] = p
      BY <2>1, AppendProperties
    <3>5. << >> \o Frame(p) = Frame(p) /\ Frame(p) \o << >> = Frame(p)
      BY <1>3, ConcatEmptySeq, Zenon
    <3> QED BY <3>3, <3>4, <3>5, Zenon
  <2>2. CASE i # Len(s)
    <3>1. /\ i \in Nat /\ i + 1 \in Nat /\ i \in k .. Len(s) - 1 /\ i + 1 \in 1 .. Len(s)
          /\ i <= Len(s) /\ i + 1 <= Len(s)
      BY <1>2, <2>2
    <3>2. Append(s, p)[i + 1] = s[i + 1] /\ s[i + 1] \in Framable
      BY <3>1, AppendProperties, ElementOfSeq
    <3>3. Frame(s[i + 1]) \in Seq(Byte)
      BY Zenon, <3>2, FrameBytes DEF Framable
    <3>4. rest[i] = Frame(s[i + 1]) \o rest[i + 1]
      BY Zenon, <1>1, <3>1 DEF Follows
    <3>5. Regroups(Frame(s[i + 1]), rest[i + 1], Frame(p))
      BY <1>3, <1>4, <3>1, <3>3, Regroup, Zenon
    <3>6. longer[i] = rest[i] \o Frame(p) /\ longer[i + 1] = rest[i + 1] \o Frame(p)
      BY Zenon, <3>1
    <3> QED BY <3>2, <3>4, <3>5, <3>6, Zenon DEF Regroups
  <2> QED BY Zenon, <2>1, <2>2
<1>8. longer[Len(s) + 1] = << >>
  BY <1>2
<1> HIDE DEF longer
<1>9. Follows(longer, stream \o Frame(p), Append(s, p), k, Len(s) + 1, 0)
  BY Zenon, <1>5, <1>6, <1>7, <1>8 DEF Follows
<1> QED BY <1>9 DEF Framed

(* Anything else arrives behind the frames. *)
LEMMA FramedTrailing ==
  ASSUME NEW s \in Seq(Framable), NEW p \in Framable, NEW k \in Nat, NEW w \in Nat, w <= Len(s),
         NEW z, NEW y, y # 0, NEW x \in Seq(Byte), NEW stream, Framed(stream, s, k, w, z)
  PROVE  Framed(stream \o x, Append(s, p), k, w, y)
<1>1. PICK rest : Follows(rest, stream, s, k, w, z)
  BY DEF Framed
<1> DEFINE longer == [i \in Nat |-> rest[i] \o x]
<1>2. Len(s) \in Nat
  BY LenProperties
<1>3. \A i \in Nat : rest[i] \in Seq(Byte)
  BY <1>1 DEF Follows
<1>4. longer \in [Nat -> Seq(Byte)]
  BY <1>3, ConcatProperties
<1>5. longer[k] = stream \o x
  BY Zenon, <1>1 DEF Follows
<1>6. ASSUME NEW i \in k .. w - 1
      PROVE  longer[i] = Frame(Append(s, p)[i + 1]) \o longer[i + 1]
  <2>1. i \in Nat /\ i + 1 \in Nat /\ i + 1 \in 1 .. Len(s)
    BY <1>2
  <2>2. Append(s, p)[i + 1] = s[i + 1] /\ s[i + 1] \in Framable
    BY <2>1, AppendProperties, ElementOfSeq
  <2>3. Frame(s[i + 1]) \in Seq(Byte)
    BY Zenon, <2>2, FrameBytes DEF Framable
  <2>4. rest[i] = Frame(s[i + 1]) \o rest[i + 1]
    BY Zenon, <1>1 DEF Follows
  <2>5. Regroups(Frame(s[i + 1]), rest[i + 1], x)
    BY <1>3, <2>1, <2>3, Regroup, Zenon
  <2>6. longer[i] = rest[i] \o x /\ longer[i + 1] = rest[i + 1] \o x
    BY Zenon, <2>1
  <2> QED BY <2>2, <2>4, <2>5, <2>6, Zenon DEF Regroups
<1> HIDE DEF longer
<1>7. Follows(longer, stream \o x, Append(s, p), k, w, y)
  BY Zenon, <1>4, <1>5, <1>6 DEF Follows
<1> QED BY <1>7 DEF Framed

(* The next frame is at the front. *)
LEMMA FramedNext ==
  ASSUME NEW s, NEW k \in Nat, NEW w \in Nat, k < w, NEW z, NEW stream, Framed(stream, s, k, w, z)
  PROVE  \E rest \in Seq(Byte) : /\ stream = Frame(s[k + 1]) \o rest
                                 /\ Framed(rest, s, k + 1, w, z)
<1>1. PICK rest : Follows(rest, stream, s, k, w, z)
  BY DEF Framed
<1>2. /\ k \in k .. w - 1 /\ k + 1 \in Nat
      /\ \A i \in (k + 1) .. w - 1 : i \in k .. w - 1
  OBVIOUS
<1>3. rest[k + 1] \in Seq(Byte) /\ stream = Frame(s[k + 1]) \o rest[k + 1]
  BY Zenon, <1>1, <1>2 DEF Follows
<1>4. Follows(rest, rest[k + 1], s, k + 1, w, z)
  BY <1>1, <1>2, Zenon DEF Follows
<1> QED BY <1>3, <1>4, Zenon DEF Framed

(* The frames in s need not be the last ones. *)
LEMMA FramedSent ==
  ASSUME NEW s \in Seq(Framable), NEW p \in Framable, NEW k \in Nat, NEW w \in Nat, w <= Len(s),
         NEW stream, Framed(stream, s, k, w, 0)
  PROVE  Framed(stream, Append(s, p), k, w, 0)
<1>1. PICK rest : Follows(rest, stream, s, k, w, 0)
  BY DEF Framed
<1>2. \A i \in k .. w - 1 : Append(s, p)[i + 1] = s[i + 1]
  <2>1. TAKE i \in k .. w - 1
  <2>2. i + 1 \in 1 .. Len(s)
    BY LenProperties
  <2> QED BY <2>2, AppendProperties
<1>3. Follows(rest, stream, Append(s, p), k, w, 0)
  BY <1>1, <1>2, Zenon DEF Follows
<1> QED BY <1>3 DEF Framed

-----------------------------------------------------------------------------
(* stream is the pieces q, one after the other: tails[i] is what follows the  *)
(* i-th of them.                                                              *)
Chain(tails, stream, q) ==
  /\ tails \in [Nat -> Seq(Byte)] /\ tails[0] = stream
  /\ \A i \in 1 .. Len(q) : tails[i - 1] = q[i] \o tails[i]
  /\ tails[Len(q)] = << >>

Joined(stream, q) == \E tails : Chain(tails, stream, q)

LEMMA JoinedType ==
  ASSUME NEW stream, NEW q, Joined(stream, q)
  PROVE  stream \in Seq(Byte)
BY DEF Joined, Chain

LEMMA JoinedNothing == Joined(<< >>, << >>)
<1> DEFINE none == [i \in Nat |-> << >>]
<1>1. none \in [Nat -> Seq(Byte)] /\ none[0] = << >>
  BY EmptySeq
<1>2. 1 .. Len(<< >>) = {} /\ Len(<< >>) = 0
  BY EmptySeq
<1> HIDE DEF none
<1>3. Chain(none, << >>, << >>)
  BY <1>1, <1>2, Zenon DEF Chain
<1> QED BY <1>3, Zenon DEF Joined

(* The first piece is taken away. *)
LEMMA JoinedHead ==
  ASSUME NEW q \in Seq(Seq(Byte)), q # << >>, NEW stream, Joined(stream, q)
  PROVE  \E rest \in Seq(Byte) : stream = Head(q) \o rest /\ Joined(rest, Tail(q))
<1>1. PICK tails : Chain(tails, stream, q)
  BY DEF Joined
<1> DEFINE later == [i \in Nat |-> tails[i + 1]]
<1>2. Len(q) \in Nat \ {0} /\ Head(q) = q[1]
  BY EmptySeq
<1>3. PICK t : t = Tail(q)
  BY Zenon
<1>4. /\ Len(t) = Len(q) - 1
      /\ \A i \in 1 .. Len(t) : t[i] = q[i + 1]
  BY <1>3, HeadTailProperties, Zenon
<1>5. later \in [Nat -> Seq(Byte)] /\ later[0] = tails[1] /\ tails[1] \in Seq(Byte)
  BY <1>1 DEF Chain
<1>6. \A i \in 1 .. Len(t) : later[i - 1] = t[i] \o later[i]
  <2>1. TAKE i \in 1 .. Len(t)
  <2>2. i \in Nat /\ i - 1 \in Nat /\ i + 1 \in 1 .. Len(q) /\ (i + 1) - 1 = i /\ (i - 1) + 1 = i
    BY <1>2, <1>4
  <2>3. tails[i] = q[i + 1] \o tails[i + 1]
    BY <1>1, <2>2, Zenon DEF Chain
  <2>4. later[i - 1] = tails[i] /\ later[i] = tails[i + 1]
    BY <2>2
  <2> QED BY <1>4, <2>3, <2>4, Zenon
<1>7. later[Len(t)] = << >>
  BY <1>1, <1>2, <1>4 DEF Chain
<1> HIDE DEF later
<1>8. Chain(later, tails[1], t)
  BY <1>5, <1>6, <1>7, Zenon DEF Chain
<1>9. stream = q[1] \o tails[1]
  <2>1. 1 \in 1 .. Len(q) /\ 1 - 1 = 0
    BY <1>2
  <2> QED BY Zenon, <1>1, <2>1 DEF Chain
<1> QED BY <1>2, <1>3, <1>5, <1>8, <1>9, Zenon DEF Joined

(* More pieces follow. *)
LEMMA JoinedMore ==
  ASSUME NEW q \in Seq(Seq(Byte)), NEW e \in Seq(Seq(Byte)), NEW stream, NEW more,
         Joined(stream, q), Joined(more, e)
  PROVE  Joined(stream \o more, q \o e)
<1>1. PICK tails : Chain(tails, stream, q)
  BY DEF Joined
<1>2. PICK ends : Chain(ends, more, e)
  BY DEF Joined
<1>3. PICK n \in Nat, m \in Nat : n = Len(q) /\ m = Len(e)
  BY LenProperties
<1> DEFINE all == [i \in Nat |-> IF i <= n THEN tails[i] \o more ELSE ends[i - n]]
<1>4. PICK c : c = q \o e
  BY Zenon
<1>5. /\ Len(c) = n + m
      /\ \A i \in 1 .. n + m : c[i] = IF i <= n THEN q[i] ELSE e[i - n]
  <2>1. /\ Len(q \o e) = Len(q) + Len(e)
        /\ \A i \in 1 .. Len(q) + Len(e) : (q \o e)[i] = IF i <= Len(q) THEN q[i] ELSE e[i - Len(q)]
    BY ConcatProperties, Zenon
  <2> QED BY <1>3, <1>4, <2>1, Zenon
<1>6. /\ \A i \in Nat : tails[i] \in Seq(Byte) /\ ends[i] \in Seq(Byte)
      /\ more \in Seq(Byte) /\ stream \in Seq(Byte)
  BY Zenon, <1>1, <1>2 DEF Chain
<1>7. all \in [Nat -> Seq(Byte)]
  <2>1. ASSUME NEW i \in Nat PROVE (IF i <= n THEN tails[i] \o more ELSE ends[i - n]) \in Seq(Byte)
    <3>1. tails[i] \o more \in Seq(Byte)
      BY <1>6, ConcatProperties
    <3>2. ~(i <= n) => i - n \in Nat
      OBVIOUS
    <3> QED BY <1>6, <3>1, <3>2, Zenon
  <2> QED BY <2>1, Zenon
<1>8. all[0] = stream \o more
  <2>1. 0 \in Nat /\ 0 <= n
    OBVIOUS
  <2>2. all[0] = tails[0] \o more
    BY <2>1, Zenon
  <2> QED BY <1>1, <2>2, Zenon DEF Chain
<1>9. \A i \in n .. n + m : all[i] = ends[i - n]
  <2>1. TAKE i \in n .. n + m
  <2>2. CASE i = n
    <3>1. all[n] = << >> \o more
      <4>1. n \in Nat /\ n <= n
        OBVIOUS
      <4>2. all[n] = tails[n] \o more
        BY <4>1, Zenon
      <4> QED BY <1>1, <1>3, <4>2, Zenon DEF Chain
    <3>2. << >> \o more = more
      BY <1>6, ConcatEmptySeq
    <3>3. ends[i - n] = more
      BY <1>2, <2>2 DEF Chain
    <3> QED BY <2>2, <3>1, <3>2, <3>3
  <2>3. CASE i # n
    BY <2>3
  <2> QED BY <2>2, <2>3
<1>10. \A i \in 1 .. n + m : all[i - 1] = c[i] \o all[i]
  <2>1. TAKE i \in 1 .. n + m
  <2>2. CASE i <= n
    <3>1. i \in 1 .. Len(q) /\ i - 1 \in Nat /\ i \in Nat /\ i - 1 <= n
      BY <1>3, <2>2
    <3>2. tails[i - 1] = q[i] \o tails[i] /\ q[i] \in Seq(Byte)
      BY Zenon, <1>1, <3>1, ElementOfSeq DEF Chain
    <3>3. Regroups(q[i], tails[i], more)
      BY <1>6, <3>1, <3>2, Regroup, Zenon
    <3>4. all[i - 1] = tails[i - 1] \o more /\ all[i] = tails[i] \o more /\ c[i] = q[i]
      BY Zenon, <1>5, <2>2, <3>1
    <3> QED BY <3>2, <3>3, <3>4, Zenon DEF Regroups
  <2>3. CASE ~(i <= n)
    <3>1. i - n \in 1 .. m /\ (i - n) - 1 = (i - 1) - n /\ i - 1 \in n .. n + m /\ i \in n .. n + m
      BY <2>3
    <3>2. ends[(i - n) - 1] = e[i - n] \o ends[i - n]
      BY Zenon, <1>2, <1>3, <3>1 DEF Chain
    <3>3. all[i - 1] = ends[(i - n) - 1] /\ all[i] = ends[i - n] /\ c[i] = e[i - n]
      BY Zenon, <1>5, <1>9, <2>3, <3>1
    <3> QED BY Zenon, <3>2, <3>3
  <2> QED BY Zenon, <2>2, <2>3
<1>11. all[n + m] = << >>
  <2>1. n + m \in n .. n + m /\ (n + m) - n = m
    OBVIOUS
  <2> QED BY Zenon, <1>2, <1>3, <1>9, <2>1 DEF Chain
<1> HIDE DEF all
<1>12. Chain(all, stream \o more, c)
  BY Zenon, <1>5, <1>7, <1>8, <1>10, <1>11 DEF Chain
<1> QED BY <1>4, <1>12 DEF Joined
=============================================================================
