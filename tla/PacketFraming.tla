---------------------------- MODULE PacketFraming ----------------------------
(***************************************************************************)
(* The frame that TcpSocket::writePacket and UdpSocket::writePacket put    *)
(* around a packet, and that receivePacket of both takes off again.        *)
(***************************************************************************)
EXTENDS Naturals, Sequences

CONSTANTS Base,          \* the values of a byte: 0 .. Base - 1 (256 in the code)
          Bar            \* the byte '|', which payloads may contain too

Byte == 0 .. Base - 1

ASSUME FramingAssumption == Base \in Nat \ {0} /\ Bar \in Byte

(* writePacket's buffer: | + size + str + | *)
Frame(p) ==
  <<Bar>>
    \o <<(Len(p) \div (Base * Base * Base)) % Base, (Len(p) \div (Base * Base)) % Base,
         (Len(p) \div Base) % Base, Len(p) % Base>>
    \o p \o <<Bar>>

(* The length that the first five bytes of a frame announce. *)
FrameLength(r) == r[2] * Base * Base * Base + r[3] * Base * Base + r[4] * Base + r[5]

(* A mistake: the payload is cut one byte too late. *)
PayloadWithBar(r, len) == SubSeq(r, 6, 6 + len)

Payload(r, len) == SubSeq(r, 6, 5 + len)

(* A mistake: what was read beyond the packet is thrown away. *)
BeyondDropped(r, len) == << >>

Beyond(r, len) == SubSeq(r, len + 7, Len(r))
=============================================================================
