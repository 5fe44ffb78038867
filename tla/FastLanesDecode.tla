--------------------------- MODULE FastLanesDecode ---------------------------
(***************************************************************************)
(* Unpacking numbers and summing deltas, block by block (bitpacked in      *)
(* numeric.go, delta in temporal_delta.go).  Both work on a slice of an    *)
(* array whose blocks are whole, the first row of the slice inside the     *)
(* first block.  The scratch block of delta is used for one block after    *)
(* the other.                                                              *)
(*                                                                         *)
(* An unpacked number is the places of its bits in the buffer.  Deltas and *)
(* bases are numbers below Modulus, which stands for 2^bits.               *)
(***************************************************************************)
EXTENDS FastLanes

CONSTANTS Inputs,  \* encoded arrays: encoding, bits, bw, count, off, length, nullable
          Modulus,
          Base, Delta, DeltaValid  \* what the children of a delta array hold

ASSUME InputsAssumption ==
  Inputs \subseteq [enc : {"bitpacked", "delta"}, bits : Widths, bw : Nat, count : Nat,
                    off : Nat, length : Nat, nullable : BOOLEAN]

\* A base for each lane of the blocks of a delta array, and one for its tail.
BasesCount(x) ==
  (x.count \div 1024) * Lanes(x.bits) + (IF x.count % 1024 # 0 THEN 1 ELSE 0)

ASSUME ChildrenAssumption ==
  /\ Modulus \in Nat \ {0}
  /\ \A x \in {y \in Inputs : y.enc = "delta"} :
       /\ \A k \in 0..(BasesCount(x) - 1) : Base[k] \in Int
       /\ \A i \in 0..(x.count - 1) : Delta[i] \in Int

VARIABLES input,
          pc,     \* "start", "lanes", "copy", "tail", "done" or "refused"
          chunk, lane,
          block,  \* the scratch block of delta
          out, valid

vars == <<input, pc, chunk, lane, block, out, valid>>

Length == input.length
Off == input.off
Chunks == input.count \div 1024
Remainder == input.count % 1024 # 0

Rows == 0..(input.bits - 1)

Start(enc) == pc = "start" /\ input.enc = enc

\* The buffer has the size the slice calls for; patches come later.
Unpack ==
  /\ Start("bitpacked")
  /\ IF \/ input.bw > input.bits \/ Off >= 1024
        \/ input.count * input.bw # ((Length + Off + 1023) \div 1024) * 1024 * input.bw
     THEN pc' = "refused" /\ UNCHANGED out
     ELSE /\ pc' = "done"
          /\ out' = [i \in 0..(Length - 1) |->
               LET at == Off + i
               IN  [j \in 0..(input.bw - 1) |->
                      BitRead(at \div 1024, at % 1024, j, input.bits, input.bw)]]
  /\ UNCHANGED <<input, chunk, lane, block, valid>>

DeltaBegins ==
  /\ Start("delta")
  /\ IF Off >= 1024 \/ Off + Length > input.count
     THEN pc' = "refused" /\ UNCHANGED <<out, valid>>
     ELSE /\ pc' = IF Chunks > 0 THEN "lanes" ELSE "tail"
          /\ out' = [i \in 0..(Length - 1) |-> 0]
          /\ valid' = [i \in IF input.nullable THEN 0..(Length - 1) ELSE {} |-> TRUE]
  /\ UNCHANGED <<input, chunk, lane, block>>

\* What becomes of a base as one delta after another is added to it.
Running(base, deltas) ==
  LET prev[i \in DOMAIN deltas] ==
        ((IF i = 0 THEN base ELSE prev[i - 1]) + deltas[i]) % Modulus
  IN  prev

\* An array after some of its elements are assigned.
Overwritten(f, new) == [x \in DOMAIN f |-> IF x \in DOMAIN new THEN new[x] ELSE f[x]]

\* A plausible bug: a lane goes on from where the one before it ended.
FirstBase == Base[lane]

\* The base of a lane of this block.
LaneBase == Base[chunk * Lanes(input.bits) + lane]

\* One lane: the sums of its rows, each stored where it belongs.
DeltaLane ==
  /\ pc = "lanes"
  /\ LET target == [row \in Rows |-> Transpose(Index(row, lane))]
         sum == Running(LaneBase, [row \in Rows |-> Delta[chunk * 1024 + Index(row, lane)]])
         stored == [t \in {target[row] : row \in Rows} |->
                      sum[CHOOSE row \in Rows : target[row] = t]]
     IN  block' = Overwritten(block, stored)
  /\ lane' = (lane + 1) % Lanes(input.bits)
  /\ pc' = IF lane' = 0 THEN "copy" ELSE "lanes"
  /\ UNCHANGED <<input, chunk, out, valid>>

\* Rows of the slice that lie in rows first to last - 1 of the array.
Within(first, last) == {i \in 0..(Length - 1) : Off + i >= first /\ Off + i < last}

DeltaCopy ==
  /\ pc = "copy"
  /\ LET rows == Within(chunk * 1024, (chunk + 1) * 1024)
         logical(i) == Off + i - chunk * 1024
     IN  /\ out' = Overwritten(out, [i \in rows |-> block[logical(i)]])
         /\ valid' = Overwritten(valid,
                        [i \in rows |-> DeltaValid[chunk * 1024 + Transpose(logical(i))]])
  /\ chunk' = chunk + 1
  /\ pc' = IF chunk' < Chunks THEN "lanes" ELSE "tail"
  /\ UNCHANGED <<input, lane, block>>

\* Rows past the last whole block are not transposed, and have one base.
DeltaTail ==
  /\ pc = "tail"
  /\ LET first == Chunks * 1024
         rows == Within(first, input.count)
         sum == Running(Base[BasesCount(input) - 1],
                        [k \in 0..((input.count % 1024) - 1) |-> Delta[first + k]])
     IN  IF Remainder
         THEN /\ out' = Overwritten(out, [i \in rows |-> sum[Off + i - first]])
              /\ valid' = Overwritten(valid, [i \in rows |-> DeltaValid[Off + i]])
         ELSE UNCHANGED <<out, valid>>
  /\ pc' = "done"
  /\ UNCHANGED <<input, chunk, lane, block>>

Init ==
  /\ input \in Inputs
  /\ pc = "start"
  /\ chunk = 0
  /\ lane = 0
  /\ block = [t \in 0..1023 |-> 0]
  /\ out = <<>>
  /\ valid = <<>>

Next == Unpack \/ DeltaBegins \/ DeltaLane \/ DeltaCopy \/ DeltaTail

Spec == Init /\ [][Next]_vars

-----------------------------------------------------------------------------
\* Where a packer puts bit j of what a lane has in a row of a block: a lane's
\* numbers follow each other in the lane's words, every Lanes-th of the block.
BitWritten(b, row, l, j, bits, bw) ==
  LET s == row * bw + j
  IN  b * bw * 1024 + ((s \div bits) * (1024 \div bits) + l) * bits + (s % bits)

Blocks == 0..((Off + Length) \div 1024)

(* Each number of the slice is made of the bits that were written for it,   *)
(* in their order, for every width of the type and every width in bits,     *)
(* also when a number continues in another word.                            *)
UnpacksWhatWasPacked ==
  input.enc = "bitpacked" /\ pc = "done" =>
    \A b \in Blocks, row \in Rows, l \in 0..(Lanes(input.bits) - 1) :
      LET i == b * 1024 + Index(row, l) - Off
      IN  i \in 0..(Length - 1) =>
            \A j \in 0..(input.bw - 1) :
              out[i][j] = BitWritten(b, row, l, j, input.bits, input.bw)

-----------------------------------------------------------------------------
\* The place of the delta of a row of a block.
Place == [r \in 0..1023 |-> CHOOSE idx \in 0..1023 : Transpose(idx) = r]

\* A base and all of some deltas.
Total(base, deltas) ==
  LET upTo[i \in DOMAIN deltas] == (IF i = 0 THEN base ELSE upTo[i - 1]) + deltas[i]
  IN  upTo

\* The value of row r of the array: a run of rows, as many as a number has
\* bits, starts from a base, and so does the tail.
RowValue(r) ==
  LET b == r \div 1024
      whole == b < Chunks
      first == IF whole THEN r - (r % input.bits) ELSE Chunks * 1024
      at(k) == IF whole THEN b * 1024 + Place[k % 1024] ELSE k
      base == IF whole THEN Base[b * Lanes(input.bits) + Place[first % 1024]]
              ELSE Base[Chunks * Lanes(input.bits)]
  IN  Total(base, [k \in 0..(r - first) |-> Delta[at(first + k)]])[r - first] % Modulus

RowValid(r) == DeltaValid[IF r \div 1024 < Chunks THEN (r \div 1024) * 1024 + Transpose(r % 1024) ELSE r]

(* A row of a slice is the sum of the deltas of the rows before it in its   *)
(* run, although lanes are decoded across the block and the block's scratch *)
(* is reused; it is the same row in every slice that has it; and each row's *)
(* validity is the one stored for it.                                       *)
SumsItsRun ==
  input.enc = "delta" /\ pc = "done" =>
    /\ \A i \in 0..(Length - 1) : out[i] = RowValue(Off + i)
    /\ \A i \in DOMAIN valid : valid[i] = RowValid(Off + i)
=============================================================================
