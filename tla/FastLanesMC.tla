----------------------------- MODULE FastLanesMC -----------------------------
(***************************************************************************)
(* All widths of packed numbers, and slices of arrays of up to two blocks  *)
(* and a tail, that begin and end on either side of a block.               *)
(***************************************************************************)
EXTENDS FastLanesDecode

Packed(bits, bw, off, length, count) ==
  [enc |-> "bitpacked", bits |-> bits, bw |-> bw, off |-> off, length |-> length,
   count |-> count, nullable |-> FALSE]

Deltas(bits, off, length, count, nullable) ==
  [enc |-> "delta", bits |-> bits, bw |-> 0, off |-> off, length |-> length,
   count |-> count, nullable |-> nullable]

MCInputs ==
  {Packed(bits, bw, 0, 1024, 1024) : bits \in Widths, bw \in 0..64}
    \cup {Packed(bits, bw, 1000, 40, count) : bits \in Widths, bw \in {1, 7, 13, 64}, count \in {1024, 2048}}
    \cup {Packed(8, 3, 1024, 1, 2048), Packed(8, 3, 0, 0, 0), Packed(8, 0, 7, 1, 2048)}
    \cup {Deltas(bits, s[1], s[2], s[3], b) :
            bits \in Widths, b \in BOOLEAN,
            s \in {<<0, 1024, 1024>>, <<1, 1023, 1024>>, <<1, 1024, 1024>>, <<1000, 40, 2048>>,
                   <<1023, 4, 1030>>, <<0, 5, 5>>, <<3, 3, 5>>, <<1024, 0, 1030>>, <<0, 0, 0>>}}

MCBase == [k \in 0..256 |-> (k * 97 + 3) % Modulus]
MCDelta == [i \in 0..2047 |-> (i * i * 37 + i * 11 + 5) % Modulus]
MCDeltaValid == [i \in 0..2047 |-> i % 3 # 1]

=============================================================================
