------------------------------ MODULE MCHuffman ------------------------------
(* Four characters whose bytes have two bits; the table has one frequent, one *)
(* less frequent and two rare characters.                                     *)
EXTENDS Huffman

MCpreVec == [c \in 0 .. 3 |-> <<1, 3, 2, 1>>[c + 1]]
=============================================================================
