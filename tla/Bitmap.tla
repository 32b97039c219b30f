-------------------------------- MODULE Bitmap --------------------------------
(***************************************************************************)
(* utils/bitmap.cpp and bitstrings.cpp: bitmaps of any size in an array of *)
(* words.  A word is the set of its bits that are set.                     *)
(***************************************************************************)
EXTENDS Integers, Sequences

CONSTANT ElemSize  \* ELEM_SIZE, the bits of a word: 64 in the code

ASSUME ElemSizeAssumption == ElemSize \in Nat \ {0}

Word == 0 .. ElemSize - 1

Length(size) == (size + ElemSize - 1) \div ElemSize

\* The bits of the last word that lie behind the end are set from the start.
NewBitmap(size) ==
  LET upper == size % ElemSize
  IN  [size |-> size,
       bits |-> [i \in 0 .. Length(size) - 1 |->
                   IF upper # 0 /\ i = Length(size) - 1 THEN upper .. ElemSize - 1 ELSE {}]]

\* setBit() with a value other than 0, which throws when the offset is too large
SetBit(map, offset) ==
  [map EXCEPT !.bits[offset \div ElemSize] = @ \cup {offset % ElemSize}]

Bit(map, offset) == offset % ElemSize \in map.bits[offset \div ElemSize]

All(map) == \A i \in DOMAIN map.bits : map.bits[i] = Word

\* How many bits str() prints: all of each word but the last, and of that one the bits
\* up to the end - none at all when the last word is full.
Printed(map) ==
  (IF Length(map.size) > 1 THEN (Length(map.size) - 1) * ElemSize ELSE 0)
    + (map.size % ElemSize)

Str(map) == [i \in 1 .. Printed(map) |-> Bit(map, i - 1)]

\* printBitString(): the most significant of length bits first
BitString(bits, length) == [o \in 1 .. length |-> (bits \div 2 ^ (length - o)) % 2]
=============================================================================
