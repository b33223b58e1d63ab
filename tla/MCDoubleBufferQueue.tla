------------------------- MODULE MCDoubleBufferQueue -------------------------
(* Instances of DoubleBufferQueue for TLC. *)
EXTENDS DoubleBufferQueueRefinement

=============================================================================
