------------------------------ MODULE FastLanes ------------------------------
(***************************************************************************)
(* Where FastLanes puts things (internal/encoding, numeric.go and          *)
(* temporal_delta.go).  A block of 1024 numbers of `bits` bits is worked   *)
(* on by 1024 / bits lanes, each of `bits` rows; the numbers of a row are  *)
(* next to each other for the sake of vector registers, and the order of   *)
(* rows is such that one layout serves all widths.                         *)
(***************************************************************************)
EXTENDS Integers

Widths == {8, 16, 32, 64}

\* order
Order(k) ==
  CASE k = 0 -> 0 [] k = 1 -> 4 [] k = 2 -> 2 [] k = 3 -> 6
    [] k = 4 -> 1 [] k = 5 -> 5 [] k = 6 -> 3 [] k = 7 -> 7

Lanes(bits) == 1024 \div bits

\* The place in its block of what a lane holds in a row.
Index(row, lane) == Order(row \div 8) * 16 + (row % 8) * 128 + lane

\* The number of a place when those of each lane follow each other.
Transpose(idx) == (idx % 16) * 64 + Order((idx \div 16) % 8) * 8 + idx \div 128

\* bitpacked: the lane and the row of a place.
Lane(position, bits) == position % Lanes(bits)
Stripe(position) == position \div 128
Permuted(position, bits) == (position - Stripe(position) * 128 - Lane(position, bits)) \div 16
Row(position, bits) == Order(Permuted(position, bits)) * 8 + Stripe(position)

-----------------------------------------------------------------------------
(* Numbers packed into bw bits each.  A lane is a stream of bits, in words *)
(* of `bits` bits that alternate with those of the other lanes.            *)

BlockStart(block, bw) == block * bw * 1024
WordStart(word, lane, bits) == (word * Lanes(bits) + lane) * bits

StartBit(row, bw) == row * bw
Word(row, bits, bw) == StartBit(row, bw) \div bits
Shift(row, bits, bw) == StartBit(row, bw) % bits
Remain(row, bits, bw) == bits - Shift(row, bits, bw)

\* A plausible bug: the rest of a number is looked for in the next lane.
NextOf(word, lane, bits) == WordStart(word, lane, bits) + bits

\* The next word of the same lane.
NextWord(word, lane, bits) == WordStart(word + 1, lane, bits)

\* Which bit of the buffer becomes bit j of the number at a place of a block.
BitRead(block, position, j, bits, bw) ==
  LET lane == Lane(position, bits)
      row == Row(position, bits)
      word == Word(row, bits, bw)
      remain == Remain(row, bits, bw)
  IN  BlockStart(block, bw) +
        IF j < remain
        THEN WordStart(word, lane, bits) + Shift(row, bits, bw) + j
        ELSE NextWord(word, lane, bits) + (j - remain)
=============================================================================
