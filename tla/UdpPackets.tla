----------------------------- MODULE UdpPackets -----------------------------
(***************************************************************************)
(* Packets over UDP, libs/sockets/src/UdpSocket.cpp: writePacket frames a  *)
(* packet, write cuts the frame into datagrams, and receivePacket puts     *)
(* them together again in _buffer, one buffer per sender.  Several threads *)
(* (the user's and the socket's worker) may write on one socket, which is  *)
(* one sender address.  The network may lose, duplicate and reorder.  One  *)
(* sendto, and one iteration of receivePacket's loop, is one step; between *)
(* two iterations receivePacket keeps nothing but _buffer.                 *)
(***************************************************************************)
EXTENDS PacketFraming, FiniteSetsExt, Functions

CONSTANTS Writers,         \* threads that write packets
          Address,         \* [Writers -> addresses]: the socket a thread writes on
          Packets,         \* the payloads that are written
          MAX_PACKET_SIZE, \* bytes in a datagram (32 * 1024 in the code)
          MaxPackets,      \* bound on packets per writer
          MaxFaults        \* bound on faults of the network and of sendto

Addresses == {Address[w] : w \in Writers}

ASSUME UdpAssumption ==
  /\ Packets \subseteq Seq(Byte)
  /\ \A p \in Packets : Len(p) < Base * Base * Base * Base
  /\ MAX_PACKET_SIZE \in Nat \ {0} /\ MaxPackets \in Nat /\ MaxFaults \in Nat

VARIABLES out,       \* per writer: the datagrams its call of write has still to send
          net,       \* per sender: datagrams under way, in the order of sending
          buffer,    \* _buffer of the receiving socket
          sent, received, \* history, per sender: packets written, packets received
          error,     \* history: the errors receivePacket has returned
          disturbed, \* history: senders with a fault or with overlapping writes
          writes, faults

vars == <<out, net, buffer, sent, received, error, disturbed, writes, faults>>

Init ==
  /\ out = [w \in Writers |-> << >>]
  /\ net = [a \in Addresses |-> << >>]
  /\ buffer = [a \in Addresses |-> << >>]
  /\ sent = [a \in Addresses |-> << >>] /\ received = [a \in Addresses |-> << >>]
  /\ error = {} /\ disturbed = {}
  /\ writes = [w \in Writers |-> 0] /\ faults = 0

-----------------------------------------------------------------------------
(* writePacket and write *)

(* A mistake: a last datagram that is not full is forgotten. *)
DatagramsOnlyFull(f) ==
  [i \in 1 .. (Len(f) \div MAX_PACKET_SIZE) |->
     SubSeq(f, (i - 1) * MAX_PACKET_SIZE + 1, i * MAX_PACKET_SIZE)]

(* The datagrams of write's loop.  The last one takes the rest, and is empty  *)
(* when the length is a multiple of MAX_PACKET_SIZE.                          *)
Datagrams(f) ==
  [i \in 1 .. (Len(f) \div MAX_PACKET_SIZE + 1) |->
     SubSeq(f, (i - 1) * MAX_PACKET_SIZE + 1, Min({i * MAX_PACKET_SIZE, Len(f)}))]

WritePacket(w, p) ==
  /\ out[w] = << >> /\ writes[w] < MaxPackets
  /\ writes' = [writes EXCEPT ![w] = @ + 1]
  /\ out' = [out EXCEPT ![w] = Datagrams(Frame(p))]
  /\ sent' = [sent EXCEPT ![Address[w]] = Append(@, p)]
  /\ UNCHANGED <<net, buffer, received, error, disturbed, faults>>

(* No lock keeps the datagrams of two writers on the same socket apart. *)
Overlaps(w) == \E v \in Writers \ {w} : Address[v] = Address[w] /\ out[v] # << >>

Sendto(w) ==
  /\ out[w] # << >>
  /\ net' = [net EXCEPT ![Address[w]] = Append(@, Head(out[w]))]
  /\ out' = [out EXCEPT ![w] = Tail(@)]
  /\ disturbed' = disturbed \cup (IF Overlaps(w) THEN {Address[w]} ELSE {})
  /\ UNCHANGED <<buffer, sent, received, error, writes, faults>>

Fault(a) ==
  /\ faults < MaxFaults
  /\ faults' = faults + 1
  /\ disturbed' = disturbed \cup {a}

(* sendto fails: write returns the error, the rest is not sent. *)
SendtoFails(w) ==
  /\ out[w] # << >>
  /\ Fault(Address[w])
  /\ out' = [out EXCEPT ![w] = << >>]
  /\ UNCHANGED <<net, buffer, sent, received, error, writes>>

-----------------------------------------------------------------------------
(* The network *)

Lose(a, i) ==
  /\ Fault(a)
  /\ net' = [net EXCEPT ![a] = SubSeq(@, 1, i - 1) \o SubSeq(@, i + 1, Len(@))]
  /\ UNCHANGED <<out, buffer, sent, received, error, writes>>

Duplicate(a, i) ==
  /\ Fault(a)
  /\ net' = [net EXCEPT ![a] = SubSeq(@, 1, i) \o SubSeq(@, i, Len(@))]
  /\ UNCHANGED <<out, buffer, sent, received, error, writes>>

(* A datagram is overtaken by the one sent after it. *)
Reorder(a, i) ==
  /\ i < Len(net[a])
  /\ Fault(a)
  /\ net' = [net EXCEPT ![a] = [@ EXCEPT ![i] = net[a][i + 1], ![i + 1] = net[a][i]]]
  /\ UNCHANGED <<out, buffer, sent, received, error, writes>>

-----------------------------------------------------------------------------
(* receivePacket *)

(* A mistake: an incomplete packet is not kept. *)
KeptNot(a, r) == buffer[a]

Kept(a, r) == r

(* What the loop does with result = r from sender a: the packet is complete   *)
(* and the call returns, or it is kept and the loop goes on.                  *)
Accept(a, r) ==
  LET length == IF Len(r) >= 5 THEN FrameLength(r) ELSE 0
  IN IF Len(r) >= length + 6
     THEN /\ received' = [received EXCEPT ![a] = Append(@, Payload(r, length))]
          /\ buffer' = [buffer EXCEPT ![a] = Beyond(r, length)]
     ELSE buffer' = [buffer EXCEPT ![a] = Kept(a, r)] /\ UNCHANGED received

(* recvfrom in read: one datagram of any sender, whole. *)
Read(a) ==
  /\ net[a] # << >>
  /\ net' = [net EXCEPT ![a] = Tail(@)]

(* A mistake: the pieces of all senders are kept under one of them. *)
SenderAny(a) == CHOOSE x \in Addresses : TRUE

Sender(a) == a

(* read returns a datagram.  An empty one is NOT_CONNECTED to it; a first     *)
(* piece that does not begin with '|' is UNKNOWN to receivePacket.  The pieces *)
(* are kept under the sender's address.                                       *)
ReceiveDatagram(a) ==
  LET s == Head(net[a])
      b == Sender(a)
  IN /\ Read(a)
     /\ \/ s = << >> /\ error' = error \cup {"NOT_CONNECTED"} /\ UNCHANGED <<buffer, received>>
        \/ /\ s # << >> /\ buffer[b] = << >> /\ s[1] # Bar
           /\ error' = error \cup {"UNKNOWN"} /\ UNCHANGED <<buffer, received>>
        \/ /\ s # << >> /\ (buffer[b] # << >> \/ s[1] = Bar)
           /\ Accept(b, buffer[b] \o s) /\ UNCHANGED error
     /\ UNCHANGED <<out, sent, disturbed, writes, faults>>

-----------------------------------------------------------------------------
Next ==
  \/ \E w \in Writers : (\E p \in Packets : WritePacket(w, p)) \/ Sendto(w) \/ SendtoFails(w)
  \/ \E a \in Addresses :
       \/ \E i \in 1 .. Len(net[a]) : Lose(a, i) \/ Duplicate(a, i) \/ Reorder(a, i)
       \/ ReceiveDatagram(a)

Spec == Init /\ [][Next]_vars

(* A call of write goes on; the receiver calls receivePacket again and again, *)
(* also after an error, and sees every sender's datagrams.                    *)
FairSpec ==
  /\ Spec
  /\ \A w \in Writers : WF_vars(Sendto(w))
  /\ \A a \in Addresses : WF_vars(ReceiveDatagram(a))

-----------------------------------------------------------------------------
(* "a packet being able to be completely received in one call of             *)
(* receivePacket" (UdpSocket.h:107): the packets received from a sender are   *)
(* the packets it wrote, whole and in order, whatever the datagrams of other *)
(* senders suffer, unless its own were lost, repeated, reordered or mixed.   *)
SenderIntact ==
  \A a \in Addresses \ disturbed :
    /\ Len(received[a]) <= Len(sent[a])
    /\ \A n \in 1 .. Len(received[a]) : received[a][n] = sent[a][n]

(* Packets that fit into one datagram are never damaged: if a sender writes  *)
(* only such packets, all that is received from it was written by it, faults *)
(* and overlapping writes included.                                          *)
SmallSurvive ==
  \A a \in Addresses :
    (\A p \in Range(sent[a]) : Len(p) + 6 <= MAX_PACKET_SIZE) =>
      Range(received[a]) \subseteq Range(sent[a])

(* The framing check at UdpSocket.cpp:214 trips only after a fault, and      *)
(* NOT_CONNECTED means that a sender wrote a frame of a whole number of      *)
(* datagrams.                                                                *)
ErrorCause ==
  /\ "UNKNOWN" \in error => disturbed # {}
  /\ "NOT_CONNECTED" \in error =>
       \E a \in Addresses : \E p \in Range(sent[a]) : (Len(p) + 6) % MAX_PACKET_SIZE = 0

(* Every packet is received in the end, unless its sender's datagrams met     *)
(* with a fault: none stays in _buffer waiting for a next one.                *)
EverySentIsReceived ==
  \A a \in Addresses : \A n \in 1 .. 2 * MaxPackets :
    (Len(sent[a]) >= n) ~> (Len(received[a]) >= n \/ a \in disturbed)
=============================================================================
