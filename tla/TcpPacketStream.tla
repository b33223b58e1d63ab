--------------------------- MODULE TcpPacketStream ---------------------------
(***************************************************************************)
(* Packets over a TCP byte stream, libs/sockets/src/TcpSocket.cpp:         *)
(* writePacket frames a packet as '|', four length bytes, the payload and  *)
(* '|'; receivePacket cuts the packets out of the stream again, however    *)
(* TCP splits it, and keeps what it read too much of in _buffer.  The peer *)
(* writes, this socket receives; one iteration of receivePacket's loop is  *)
(* one step.                                                               *)
(***************************************************************************)
EXTENDS PacketFraming

CONSTANTS Packets,       \* the payloads that are written
          ReadSize,      \* how much one recv asks for (256 in the code)
          MaxPackets,    \* bound on packets per connection
          MaxConnections,\* bound on connections of the one object
          MaxInterrupts  \* bound on calls of send and recv that a signal interrupts

ASSUME StreamAssumption ==
  /\ Packets \subseteq Seq(Byte)
  /\ \A p \in Packets : Len(p) < Base * Base * Base * Base
  /\ ReadSize \in Nat \ {0}
  /\ MaxPackets \in Nat /\ MaxConnections \in Nat /\ MaxInterrupts \in Nat

VARIABLES wire,       \* bytes the peer sent and this socket has not read
          peerOpen,   \* the peer has not closed the connection
          buffer,     \* _buffer
          result, length, skipFirstRead,  \* locals of receivePacket
          receiving,  \* a call of receivePacket is in progress
          sent, received,  \* history: packets written to, and received on, this connection
          failed,     \* history: a call on this connection failed for good
          short,      \* history: which packet was the first sent in part, 0 if none
          clean,      \* history: no byte was dropped in, or carried into, this connection
          connection, interrupts

call == <<result, length, skipFirstRead, receiving>>
vars == <<wire, peerOpen, buffer, call, sent, received, failed, short, clean, connection,
          interrupts>>

Init ==
  /\ wire = << >> /\ peerOpen = TRUE
  /\ buffer = << >>
  /\ result = << >> /\ length = 0 /\ skipFirstRead = FALSE /\ receiving = FALSE
  /\ sent = << >> /\ received = << >> /\ failed = FALSE /\ short = 0 /\ clean = TRUE
  /\ connection = 1 /\ interrupts = 0

WritePacket(p) ==
  /\ peerOpen /\ Len(sent) < MaxPackets
  /\ wire' = wire \o Frame(p)
  /\ sent' = Append(sent, p)
  /\ UNCHANGED <<peerOpen, buffer, call, received, failed, short, clean, connection, interrupts>>

(* A signal interrupts send when n bytes are sent; write does not look at how *)
(* many and returns SUCCESS.                                                  *)
WritePacketShort(p) ==
  /\ peerOpen /\ Len(sent) < MaxPackets
  /\ interrupts < MaxInterrupts
  /\ interrupts' = interrupts + 1
  /\ \E n \in 1 .. Len(Frame(p)) - 1 : wire' = wire \o SubSeq(Frame(p), 1, n)
  /\ sent' = Append(sent, p)
  /\ short' = IF short = 0 THEN Len(sent') ELSE short
  /\ UNCHANGED <<peerOpen, buffer, call, received, failed, clean, connection>>

PeerClose ==
  /\ peerOpen
  /\ peerOpen' = FALSE
  /\ UNCHANGED <<wire, buffer, call, sent, received, failed, short, clean, connection, interrupts>>

-----------------------------------------------------------------------------
(* receivePacket *)

(* A mistake: the first iteration reads although _buffer holds a packet. *)
LooksFirstNever == FALSE

LooksFirst == buffer # << >>

ReceiveBegin ==
  /\ ~receiving
  /\ receiving' = TRUE
  /\ result' = buffer
  /\ skipFirstRead' = LooksFirst
  /\ length' = 0
  /\ UNCHANGED <<wire, peerOpen, buffer, sent, received, failed, short, clean, connection, interrupts>>

(* The call returns; its locals go out of scope. *)
ReceiveReturn ==
  receiving' = FALSE /\ result' = << >> /\ length' = 0 /\ skipFirstRead' = FALSE

(* An error other than NOT_READY is returned; what was read is dropped. *)
ReceiveError == ReceiveReturn /\ failed' = TRUE /\ UNCHANGED <<buffer, received>>

(* What the loop does once result has grown to r. *)
Accept(r) ==
  LET len == IF length = 0 /\ Len(r) >= 5 THEN FrameLength(r) ELSE length
  IN \/ /\ Len(r) >= len + 6
        /\ received' = Append(received, Payload(r, len))
        /\ buffer' = Beyond(r, len)
        /\ ReceiveReturn
        /\ UNCHANGED failed
     \/ /\ Len(r) < len + 6
        /\ result' = r /\ length' = len /\ skipFirstRead' = FALSE
        /\ UNCHANGED <<receiving, buffer, received, failed>>

(* The first iteration looks at what the last call left in _buffer. *)
ReceiveLeftover ==
  /\ receiving /\ skipFirstRead
  /\ Accept(result)
  /\ UNCHANGED <<wire, peerOpen, sent, short, clean, connection, interrupts>>

(* recv delivers some of the bytes that have arrived. *)
ReceiveChunk ==
  /\ receiving /\ ~skipFirstRead
  /\ \E n \in 1 .. ReadSize :
       /\ n <= Len(wire)
       /\ wire' = SubSeq(wire, n + 1, Len(wire))
       /\ IF result = << >> /\ wire[1] # Bar THEN ReceiveError
          ELSE Accept(result \o SubSeq(wire, 1, n))
  /\ UNCHANGED <<peerOpen, sent, short, clean, connection, interrupts>>

(* recv returns 0: the peer has closed and everything is read. *)
ReceiveEnd ==
  /\ receiving /\ ~skipFirstRead
  /\ ~peerOpen /\ wire = << >>
  /\ ReceiveError
  /\ UNCHANGED <<wire, peerOpen, sent, short, clean, connection, interrupts>>

(* recv fails with EINTR, which getLastError turns into NOT_READY: the call  *)
(* returns and the bytes it has read so far are gone.                        *)
ReceiveInterrupted ==
  /\ receiving /\ ~skipFirstRead
  /\ interrupts < MaxInterrupts
  /\ interrupts' = interrupts + 1
  /\ clean' = (clean /\ result = buffer)
  /\ ReceiveReturn
  /\ UNCHANGED <<wire, peerOpen, buffer, sent, received, failed, short, connection>>

(* close() and connect() between two calls: neither of them touches _buffer. *)
Reconnect ==
  /\ ~receiving /\ connection < MaxConnections
  /\ connection' = connection + 1
  /\ wire' = << >> /\ peerOpen' = TRUE
  /\ sent' = << >> /\ received' = << >> /\ failed' = FALSE /\ short' = 0
  /\ clean' = (buffer = << >>)
  /\ UNCHANGED <<buffer, call, interrupts>>

-----------------------------------------------------------------------------
Receive == ReceiveBegin \/ ReceiveLeftover \/ ReceiveChunk \/ ReceiveEnd

Next ==
  \/ \E p \in Packets : WritePacket(p) \/ WritePacketShort(p)
  \/ PeerClose \/ Receive \/ ReceiveInterrupted \/ Reconnect

Spec == Init /\ [][Next]_vars

(* A receiver that calls receivePacket again and again, as receiveCallback's *)
(* thread does; TCP delivers what was sent.                                  *)
FairSpec == Spec /\ WF_vars(Receive)

-----------------------------------------------------------------------------
(* The packets on this connection that were sent before the first short one. *)
Whole == IF short = 0 THEN Len(sent) ELSE short - 1

(* "A single packet is received as a single packet" (TcpSocket.h:74): the   *)
(* packets received are the packets sent, whole, in order and none twice,    *)
(* wherever TCP cuts the stream, up to the first that send cut short         *)
(* (TcpSocket.cpp:504), unless an interrupted call dropped bytes or          *)
(* a reconnect carried some over (TcpSocket.cpp:320-340, 437-494).           *)
PacketsIntact ==
  clean =>
    /\ \A n \in 1 .. Len(received) : n <= Whole => received[n] = sent[n]
    /\ short = 0 => Len(received) <= Len(sent)

(* Under the same condition receivePacket fails only when the peer has       *)
(* closed and every whole packet was delivered, or after a short one: the    *)
(* framing check at TcpSocket.cpp:465 never trips before.                    *)
ErrorMeansEnd ==
  clean /\ failed => Len(received) >= Whole /\ (peerOpen => short # 0)

(* Every packet sent is eventually received as long as the connection lasts: *)
(* a packet that arrived together with the previous one does not stay in     *)
(* _buffer waiting for a next one (TcpSocket.cpp:444-454).                   *)
EverySentIsReceived ==
  \A n \in 1 .. MaxPackets, c \in 1 .. MaxConnections :
    (connection = c /\ Whole >= n)
      ~> (connection # c \/ Len(received) >= n \/ ~clean)
=============================================================================
