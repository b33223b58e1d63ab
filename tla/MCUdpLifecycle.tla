--------------------------- MODULE MCUdpLifecycle ---------------------------
(* Instances of UdpLifecycle for TLC. *)
EXTENDS UdpLifecycle
=============================================================================
