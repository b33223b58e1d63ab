-------------------------- MODULE MCTcpPacketStream --------------------------
(* Instances of TcpPacketStream for TLC: payloads of one bit per byte. *)
EXTENDS TcpPacketStream
TwoPackets == {<< >>, <<1>>}
=============================================================================
