--------------------------- MODULE MCTcpAsyncWrite ---------------------------
(* Instances of TcpAsyncWrite for TLC. *)
EXTENDS TcpAsyncWrite
=============================================================================
