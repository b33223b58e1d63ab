--------------------------- MODULE MCTcpLifecycle ---------------------------
(* Instances of TcpLifecycle for TLC. *)
EXTENDS TcpLifecycle
=============================================================================
