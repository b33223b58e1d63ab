------------------------------- MODULE Huffman -------------------------------
(***************************************************************************)
(* Huffman compression, libs/compression/src/algorithm: HuffmanGeneric     *)
(* puts the frequencies of the text in front of the compressed text,       *)
(* HuffmanFixed uses one table for all texts and fills its code table in   *)
(* the first call.  A byte has ByteBits bits (8 in the code), a length     *)
(* LengthBytes bytes (4); a character is a byte.  Between compress and     *)
(* decompress the compressed string may lose bytes at its end or get one   *)
(* too many.                                                               *)
(***************************************************************************)
EXTENDS Integers, Sequences, SequencesExt

CONSTANTS ByteBits, LengthBytes,
          preVec,   \* the frequencies HuffmanFixed uses for every text
          MaxText   \* bound on the length of a text

Base == 2 ^ ByteBits
Byte == 0 .. Base - 1

(* What the table has to fulfil: every character has a leaf. *)
CompleteTable(h) == \A c \in Byte : h[c] \in Byte \ {0}

ASSUME HuffmanAssumption ==
  /\ ByteBits \in Nat \ {0} /\ LengthBytes \in Nat \ {0}
  /\ CompleteTable(preVec)
  /\ MaxText < Base ^ LengthBytes

VARIABLES pc,
          algorithm,   \* of the last compress
          text,        \* what compress was given
          compressed,  \* what it returned, and what became of it
          damaged,     \* history: compressed is not what compress returned
          error, decompressed,  \* what decompress returned
          mappings     \* HuffmanFixed::mappings, empty until the first compress

vars == <<pc, algorithm, text, compressed, damaged, error, decompressed, mappings>>

NoMapping == [c \in Byte |-> << >>]

Init ==
  /\ pc = "idle" /\ algorithm = "fixed" /\ text = << >> /\ compressed = << >>
  /\ damaged = FALSE /\ error = "SUCCESS" /\ decompressed = << >>
  /\ mappings = NoMapping

-----------------------------------------------------------------------------
(* HuffmanBase *)

Leaf(c, value) == [value |-> value, c |-> c, children |-> << >>]
Combine(left, right) == [value |-> left.value + right.value, c |-> 0, children |-> <<left, right>>]

(* The place of the node priority_queue::top returns: a smallest value.  The *)
(* library decides between equal values, the same way in every call.        *)
Top(queue) ==
  CHOOSE i \in DOMAIN queue :
    \A j \in DOMAIN queue : queue[i].value < queue[j].value \/ (queue[i].value = queue[j].value /\ i <= j)

RECURSIVE CombineAll(_)
CombineAll(queue) ==
  IF Len(queue) = 1 THEN queue[1]
  ELSE LET left == Top(queue)
           rest == RemoveAt(queue, left)
           right == Top(rest)
       IN CombineAll(Append(RemoveAt(rest, right), Combine(queue[left], rest[right])))

buildTree(header) ==
  LET used == SetToSortSeq({c \in Byte : header[c] # 0}, <)
  IN CombineAll([i \in DOMAIN used |-> Leaf(used[i], header[used[i]])])

RECURSIVE generateMapping(_, _, _)
generateMapping(node, bitSeq, mapping) ==
  IF node.children = << >> THEN [mapping EXCEPT ![node.c] = bitSeq]
  ELSE generateMapping(node.children[2], Append(bitSeq, 0),
         generateMapping(node.children[1], Append(bitSeq, 1), mapping))

(* One character read from bit p on: the leaf reached, the bit after it, and *)
(* whether the bits ran out.  The byte behind the end of a std::string is 0. *)
RECURSIVE Descend(_, _, _)
Descend(node, p, bytes) ==
  LET at == p \div ByteBits
      byte == IF at < Len(bytes) THEN bytes[at + 1] ELSE 0
      bit == (byte \div 2 ^ (ByteBits - 1 - (p % ByteBits))) % 2
  IN IF node.children = << >> THEN [c |-> node.c, next |-> p, ended |-> FALSE]
     ELSE IF at > 0 /\ at >= Len(bytes) THEN [c |-> 0, next |-> p, ended |-> TRUE]
     ELSE Descend(node.children[2 - bit], p + 1, bytes)

(* A mistake: bytes that are left over go unnoticed. *)
AllConsumedOrMore(p, bytes) == p \div ByteBits < Len(bytes)

(* The last byte is the one the next bit would be in.  length() - 1 is a     *)
(* huge number for the empty string and equals no index.                     *)
AllConsumed(p, bytes) == p \div ByteBits = Len(bytes) - 1

(* decompress made the result as long as the text: what is not read stays 0. *)
RECURSIVE getChar(_, _, _, _, _)
getChar(bytes, root, length, p, result) ==
  IF length = 0
  THEN [error |-> IF AllConsumed(p, bytes) THEN "SUCCESS" ELSE "INVALID_ARGUMENT", text |-> result]
  ELSE LET leaf == Descend(root, p, bytes)
       IN IF leaf.ended
          THEN [error |-> "INVALID_ARGUMENT", text |-> result \o [i \in 1 .. length |-> 0]]
          ELSE getChar(bytes, root, length - 1, leaf.next, Append(result, leaf.c))

-----------------------------------------------------------------------------
(* convert *)

(* A mistake: no byte is spent when the bits end with a byte. *)
BytesRounded(bits) == (bits + ByteBits - 1) \div ByteBits

BytesFor(bits) == bits \div ByteBits + 1

(* The bytes appended to the length, which ends on a byte boundary. *)
convert(t, mapping) ==
  LET bits == FlattenSeq([i \in DOMAIN t |-> mapping[t[i]]])
      Weight(i) == IF i <= Len(bits) /\ bits[i] = 1 THEN 2 ^ ((-i) % ByteBits) ELSE 0
      ByteAt(b) == FoldLeft(LAMBDA sum, i : sum + Weight(i), 0,
                            [k \in 1 .. ByteBits |-> (b - 1) * ByteBits + k])
  IN IF t = << >> THEN << >> ELSE [b \in 1 .. BytesFor(Len(bits)) |-> ByteAt(b)]

lengthBytes(n) == [i \in 1 .. LengthBytes |-> (n \div Base ^ (LengthBytes - i)) % Base]
lengthOf(bytes) == FoldLeft(LAMBDA len, b : len * Base + b, 0, bytes)

-----------------------------------------------------------------------------
(* HuffmanGeneric::calcFrequencies, of a text that is not empty and in exact *)
(* arithmetic: the code scales with doubles, and cuts off.                   *)

Occurrences(t, c) == Len(SelectSeq(t, LAMBDA d : d = c))

calcFrequencies(t) ==
  LET max == CHOOSE n \in 1 .. Len(t) :
               /\ \E c \in Byte : Occurrences(t, c) = n
               /\ \A c \in Byte : Occurrences(t, c) <= n
      Scaled(c) == (Occurrences(t, c) * (Base - 1)) \div max
  IN [c \in Byte |-> IF Occurrences(t, c) > 0 /\ Scaled(c) = 0 THEN 1 ELSE Scaled(c)]

(* The header as it stands in the string, character 0 first. *)
HeaderBytes(h) == [i \in 1 .. Base |-> h[i - 1]]
HeaderOf(bytes) == [c \in Byte |-> bytes[c + 1]]

-----------------------------------------------------------------------------
Compressed(a, t, result) ==
  /\ pc' = "compressed" /\ algorithm' = a /\ text' = t /\ compressed' = result
  /\ UNCHANGED <<damaged, error, decompressed>>

(* The first convert of HuffmanFixed fills the table of all of them. *)
FilledMappings ==
  IF mappings[0] = << >> THEN generateMapping(buildTree(preVec), << >>, mappings) ELSE mappings

(* HuffmanFixed::compress; a text longer than the largest length is refused *)
(* and changes nothing.                                                     *)
CompressFixed(t) ==
  /\ mappings' = FilledMappings
  /\ Compressed("fixed", t, lengthBytes(Len(t)) \o convert(t, mappings'))

CompressGeneric(t) ==
  LET header == calcFrequencies(t)
      mapping == generateMapping(buildTree(header), << >>, NoMapping)
  IN /\ t # << >>
     /\ Compressed("generic", t, HeaderBytes(header) \o lengthBytes(Len(t)) \o convert(t, mapping))
     /\ UNCHANGED mappings

(* The empty text has no frequencies: 0 / 0.0 is converted to a byte, which  *)
(* gives 0 on the usual targets, and top() is called on the empty queue.     *)
CompressGenericEmpty ==
  /\ pc' = "crashed" /\ algorithm' = "generic" /\ text' = << >>
  /\ UNCHANGED <<compressed, damaged, error, decompressed, mappings>>

Compress ==
  /\ pc = "idle"
  /\ \/ \E n \in 0 .. MaxText : \E t \in [1 .. n -> Byte] : CompressFixed(t) \/ CompressGeneric(t)
     \/ CompressGenericEmpty

(* The string is cut off, or a byte is appended, on its way. *)
Damage ==
  /\ pc = "compressed" /\ ~damaged
  /\ damaged' = TRUE
  /\ \/ \E n \in 0 .. Len(compressed) - 1 : compressed' = SubSeq(compressed, 1, n)
     \/ \E b \in Byte : compressed' = Append(compressed, b)
  /\ UNCHANGED <<pc, algorithm, text, error, decompressed, mappings>>

(* decompress, of a string whose first skip bytes hold the header. *)
Decompress(root, skip) ==
  LET first == skip + LengthBytes
      answer == getChar(SubSeq(compressed, first + 1, Len(compressed)), root,
                        lengthOf(SubSeq(compressed, skip + 1, first)), 0, << >>)
  IN /\ pc' = "decompressed"
     /\ \/ /\ Len(compressed) < first
           /\ error' = "INVALID_ARGUMENT" /\ UNCHANGED decompressed
        \/ /\ Len(compressed) >= first
           /\ error' = answer.error /\ decompressed' = answer.text
     /\ UNCHANGED <<algorithm, text, compressed, damaged, mappings>>

DecompressFixed == pc = "compressed" /\ algorithm = "fixed" /\ Decompress(buildTree(preVec), 0)
DecompressGeneric == pc = "compressed" /\ algorithm = "generic" /\ Decompress(buildTree(HeaderOf(compressed)), Base)

(* The caller goes on to the next text. *)
Again ==
  /\ pc = "decompressed"
  /\ pc' = "idle" /\ algorithm' = "fixed" /\ text' = << >> /\ compressed' = << >>
  /\ damaged' = FALSE /\ error' = "SUCCESS" /\ decompressed' = << >>
  /\ UNCHANGED mappings

Next == Compress \/ Damage \/ DecompressFixed \/ DecompressGeneric \/ Again

Spec == Init /\ [][Next]_vars

-----------------------------------------------------------------------------
(* What was compressed decompresses to the same text with either algorithm,  *)
(* one symbol or many, whether or not the bits fill the last byte; only the  *)
(* empty text, of which HuffmanFixed writes no bits, is refused              *)
(* (HuffmanFixed.cpp:63-123, HuffmanGeneric.cpp:30-118).                     *)
RoundTrip ==
  pc = "decompressed" /\ ~damaged =>
    IF text = << >> THEN error = "INVALID_ARGUMENT"
    ELSE error = "SUCCESS" /\ decompressed = text

(* A compressed string that lost any number of bytes at its end, or got a    *)
(* byte too many, is never taken for a text; the empty one, to which         *)
(* HuffmanFixed adds no byte, is even read back once a byte was appended     *)
(* (HuffmanBase.cpp:85-116).                                                 *)
DamageDetected ==
  pc = "decompressed" /\ damaged /\ error = "SUCCESS" => text = << >> /\ decompressed = << >>
=============================================================================
