---------------------------- MODULE MCUdpPackets ----------------------------
(* Instances of UdpPackets for TLC.  With datagrams of 8 bytes the frames of *)
(* the three payloads fit into one, fill one exactly and need two.           *)
EXTENDS UdpPackets

CONSTANTS w1, w2, w3

TwoSockets == [w \in {w1, w2, w3} |-> IF w = w3 THEN "b" ELSE "a"]
ThreePackets == {<<1>>, <<1, 0>>, <<0, 1, 1, 0>>}
=============================================================================
