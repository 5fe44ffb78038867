----------------------------- MODULE CodecProofs -----------------------------
(***************************************************************************)
(* Two codecs, whatever they decode.                                       *)
(*                                                                         *)
(* The FastLanes layout is a layout: each place of a block is in one lane  *)
(* and one row, the transposition is one to one and stores each lane's     *)
(* rows one after the other, and unpacking reads, for any array and any    *)
(* slice, the bits that were written.  Deltas add up along the runs of     *)
(* rows that a reader of the array is promised, although they are decoded  *)
(* by lanes, a block at a time.                                            *)
(*                                                                         *)
(* The entropy decoder of Pcodec, in the second half, stays in its table:  *)
(* bins that fill a table of a power of two take each of its places once,  *)
(* and each place leads back to one with any bits that follow.             *)
(***************************************************************************)
EXTENDS FastLanesDecode, Pcodec, FiniteSetTheorems, WellFoundedInduction, TLAPS

\* The order of the rows is its own inverse: it reverses three bits.
LEMMA OrderType == \A k \in 0..7 : Order(k) \in 0..7 /\ Order(Order(k)) = k
  BY SMT DEF Order

\* How many lanes there are of each width.
LEMMA LanesOf == Lanes(8) = 128 /\ Lanes(16) = 64 /\ Lanes(32) = 32 /\ Lanes(64) = 16
  BY SMT DEF Lanes

\* The groups of eight rows that a lane has.
LEMMA Groups ==
  ASSUME NEW bits \in Widths, NEW row \in 0..(bits - 1), NEW l \in 0..(Lanes(bits) - 1)
  PROVE  /\ row \div 8 \in 0..7 /\ row % 8 \in 0..7 /\ row = (row \div 8) * 8 + (row % 8)
         /\ Order(row \div 8) * 16 + l \in 0..127
         /\ (Order(row \div 8) * 16 + l) % Lanes(bits) = l
<1>1. CASE bits = 8
  BY <1>1, LanesOf, SMT DEF Order
<1>2. CASE bits = 16
  <2>1. row \in 0..15 /\ l \in 0..63
    BY <1>2, LanesOf
  <2>2. CASE row < 8
    BY <2>1, <2>2, <1>2, LanesOf, SMT DEF Order
  <2>3. CASE row >= 8
    BY <2>1, <2>3, <1>2, LanesOf, SMT DEF Order
  <2> QED
    BY <2>1, <2>2, <2>3
<1>3. CASE bits = 32
  BY <1>3, LanesOf, SMT DEF Order
<1>4. CASE bits = 64
  BY <1>4, LanesOf, SMT DEF Order
<1> QED
  BY <1>1, <1>2, <1>3, <1>4 DEF Widths

(* Unpacking finds the lane and the row of a place again, for every width:  *)
(* the arithmetic bitpacked does on a position inverts the layout.          *)
THEOREM PlaceOfRowAndLane ==
  ASSUME NEW bits \in Widths, NEW row \in 0..(bits - 1), NEW l \in 0..(Lanes(bits) - 1)
  PROVE  /\ Index(row, l) \in 0..1023
         /\ Lane(Index(row, l), bits) = l
         /\ Row(Index(row, l), bits) = row
<1> DEFINE low == Order(row \div 8) * 16 + l
           k == row % 8
<1>1. /\ row \div 8 \in 0..7 /\ k \in 0..7 /\ row = (row \div 8) * 8 + k
      /\ low \in 0..127 /\ low % Lanes(bits) = l
  BY Groups
<1>2. /\ Order(row \div 8) \in 0..7
      /\ Order(Order(row \div 8)) = row \div 8
  BY <1>1, OrderType
<1>3. l \in Int
  BY LanesOf DEF Widths
<1>4. Index(row, l) = low + k * 128
  BY <1>1, <1>2, <1>3 DEF Index
<1>5. Lane(Index(row, l), bits) = l
  BY <1>1, <1>4, LanesOf, SMT DEF Lane, Widths
<1>6. Stripe(Index(row, l)) = k
  BY <1>1, <1>4, SMT DEF Stripe
<1>7. Permuted(Index(row, l), bits) = Order(row \div 8)
  BY <1>1, <1>2, <1>3, <1>4, <1>5, <1>6, SMT DEF Permuted
<1>8. Row(Index(row, l), bits) = row
  BY <1>1, <1>2, <1>6, <1>7 DEF Row
<1> QED
  BY <1>1, <1>4, <1>5, <1>8

-----------------------------------------------------------------------------
\* Where the delta of the row stored at place t of a finished block is.
Source(t) == (t % 8) * 128 + Order((t \div 8) % 8) * 16 + t \div 64

\* The places of a block.
Places == 0..1023

\* A row of a block and the place of its delta.
IsPlace(row, idx) == row \in Places /\ idx \in Places /\ Source(row) = idx /\ Transpose(idx) = row

\* A place in its three digits.
LEMMA Digits ==
  ASSUME NEW a \in 0..7, NEW b \in 0..7, NEW c \in 0..15
  PROVE  /\ Source(c * 64 + b * 8 + a) = a * 128 + Order(b) * 16 + c
         /\ Transpose(a * 128 + b * 16 + c) = c * 64 + Order(b) * 8 + a
<1>1. /\ (c * 64 + b * 8 + a) % 8 = a
      /\ ((c * 64 + b * 8 + a) \div 8) % 8 = b
      /\ (c * 64 + b * 8 + a) \div 64 = c
  BY SMT
<1>2. /\ (a * 128 + b * 16 + c) % 16 = c
      /\ ((a * 128 + b * 16 + c) \div 16) % 8 = b
      /\ (a * 128 + b * 16 + c) \div 128 = a
  BY SMT
<1> QED
  BY <1>1, <1>2, OrderType DEF Source, Transpose

(* Decoding a block of deltas writes every place of the scratch block, each *)
(* from one delta: nothing of the block before it is left.                  *)
THEOREM TransposeOneToOne ==
  ASSUME NEW t \in Places
  PROVE  IsPlace(t, Source(t)) /\ IsPlace(Transpose(t), t)
<1>1. \A b \in 0..7 : Order(b) \in 0..7 /\ Order(Order(b)) = b
  BY OrderType
<1>4. t \in 0..1023
  BY DEF Places
<1>2. IsPlace(t, Source(t))
  <2>1. PICK a \in 0..7, b \in 0..7, c \in 0..15 : t = c * 64 + b * 8 + a
    <3>1. t % 8 \in 0..7 /\ (t \div 8) % 8 \in 0..7 /\ t \div 64 \in 0..15
          /\ t = (t \div 64) * 64 + ((t \div 8) % 8) * 8 + (t % 8)
      BY <1>4, SMT
    <3> QED
      BY <3>1
  <2>2. PICK o \in 0..7 : o = Order(b) /\ Order(o) = b
    BY <1>1
  <2>3. Source(c * 64 + b * 8 + a) = a * 128 + Order(b) * 16 + c
    BY Digits
  <2>4. Transpose(a * 128 + o * 16 + c) = c * 64 + Order(o) * 8 + a
    BY Digits
  <2>5. a * 128 + o * 16 + c \in Places
    BY DEF Places
  <2> QED
    BY <2>1, <2>2, <2>3, <2>4, <2>5 DEF IsPlace
<1>3. IsPlace(Transpose(t), t)
  <2>1. PICK a \in 0..7, b \in 0..7, c \in 0..15 : t = a * 128 + b * 16 + c
    <3>1. t \div 128 \in 0..7 /\ (t \div 16) % 8 \in 0..7 /\ t % 16 \in 0..15
          /\ t = (t \div 128) * 128 + ((t \div 16) % 8) * 16 + (t % 16)
      BY <1>4, SMTT(30)
    <3> QED
      BY <3>1
  <2>2. PICK o \in 0..7 : o = Order(b) /\ Order(o) = b
    BY <1>1
  <2>3. Transpose(a * 128 + b * 16 + c) = c * 64 + Order(b) * 8 + a
    BY Digits
  <2>4. Source(c * 64 + o * 8 + a) = a * 128 + Order(o) * 16 + c
    BY Digits
  <2>5. c * 64 + o * 8 + a \in Places
    BY DEF Places
  <2> QED
    BY <2>1, <2>2, <2>3, <2>4, <2>5 DEF IsPlace
<1> QED
  BY <1>2, <1>3

(* What a lane of deltas adds up is stored in consecutive places, so that   *)
(* rows come out in order although lanes are summed one by one.             *)
THEOREM LaneStoredInOrder ==
  ASSUME NEW bits \in Widths, NEW row \in 0..(bits - 2), NEW l \in 0..(Lanes(bits) - 1)
  PROVE  Transpose(Index(row + 1, l)) = Transpose(Index(row, l)) + 1
<1>1. ASSUME NEW r \in 0..(bits - 1)
      PROVE  /\ r \div 8 \in 0..7 /\ r % 8 \in 0..7
             /\ (Order(r \div 8) + l \div 16) \in 0..7
             /\ Transpose(Index(r, l))
                  = (l % 16) * 64 + Order(Order(r \div 8) + l \div 16) * 8 + (r % 8)
  <2> DEFINE group == Order(r \div 8)
             k == r % 8
             c == l \div 16
             f == l % 16
  <2>1. r \div 8 \in 0..7 /\ k \in 0..7 /\ group * 16 + l \in 0..127
    BY Groups
  <2>2. group \in 0..7
    BY <2>1, OrderType
  <2>3. l \in Nat /\ f \in 0..15 /\ c \in Nat /\ l = c * 16 + f
    BY LanesOf, SMT DEF Widths
  <2>4. Index(r, l) = group * 16 + k * 128 + l
    BY DEF Index
  <2> HIDE DEF group, k, c, f
  <2>5. group + c \in 0..7
    BY <2>1, <2>2, <2>3, SMT
  <2>6. Index(r, l) = k * 128 + (group + c) * 16 + f
    BY <2>1, <2>2, <2>3, <2>4
  <2>7. ASSUME NEW g \in 0..7
        PROVE  /\ (k * 128 + g * 16 + f) % 16 = f
               /\ ((k * 128 + g * 16 + f) \div 16) % 8 = g
               /\ (k * 128 + g * 16 + f) \div 128 = k
    BY <2>1, <2>3, SMT
  <2>8. Transpose(Index(r, l)) = f * 64 + Order(group + c) * 8 + k
    BY <2>5, <2>6, <2>7 DEF Transpose
  <2> QED
    BY <2>1, <2>5, <2>8 DEF group, k, c, f
<1>2. row \in 0..(bits - 1) /\ row + 1 \in 0..(bits - 1)
  BY DEF Widths
<1>3. CASE row % 8 # 7
  <2>1. (row + 1) \div 8 = row \div 8 /\ (row + 1) % 8 = (row % 8) + 1
    BY <1>3, SMT DEF Widths
  <2> QED
    BY <1>1, <1>2, <2>1, OrderType
<1>4. CASE row % 8 = 7
  <2>1. (row + 1) \div 8 = (row \div 8) + 1 /\ (row + 1) % 8 = 0
    BY <1>4, SMT DEF Widths
  <2>2. Order(Order((row \div 8) + 1) + l \div 16) = Order(Order(row \div 8) + l \div 16) + 1
    BY <1>4, LanesOf, SMT DEF Order, Widths
  <2>3. Order(Order(row \div 8) + l \div 16) \in 0..7
    BY <1>1, <1>2, OrderType
  <2>4. l % 16 \in Int
    BY LanesOf, SMT DEF Widths
  <2>5. /\ Transpose(Index(row + 1, l))
             = (l % 16) * 64 + Order(Order((row + 1) \div 8) + l \div 16) * 8 + ((row + 1) % 8)
        /\ Transpose(Index(row, l))
             = (l % 16) * 64 + Order(Order(row \div 8) + l \div 16) * 8 + (row % 8)
    BY <1>1, <1>2
  <2>6. /\ Transpose(Index(row + 1, l))
             = (l % 16) * 64 + (Order(Order(row \div 8) + l \div 16) + 1) * 8
        /\ Transpose(Index(row, l))
             = (l % 16) * 64 + Order(Order(row \div 8) + l \div 16) * 8 + 7
    BY <1>4, <2>1, <2>2, <2>3, <2>4, <2>5
  <2> QED
    BY <2>3, <2>4, <2>6
<1> QED
  BY <1>3, <1>4

-----------------------------------------------------------------------------
\* A number of at most `bits` bits lies in one word or two that follow.
LEMMA WithinTwoWords ==
  ASSUME NEW bits \in Widths, NEW s \in Nat, NEW j \in Nat, j < bits
  PROVE  /\ s \div bits \in Nat /\ s % bits \in 0..(bits - 1)
         /\ j < bits - (s % bits) =>
              (s + j) \div bits = s \div bits /\ (s + j) % bits = (s % bits) + j
         /\ j >= bits - (s % bits) =>
              /\ (s + j) \div bits = (s \div bits) + 1
              /\ (s + j) % bits = j - (bits - (s % bits))
<1>1. CASE bits = 8
  BY <1>1, SMT
<1>2. CASE bits = 16
  BY <1>2, SMT
<1>3. CASE bits = 32
  BY <1>3, SMT
<1>4. CASE bits = 64
  BY <1>4, SMT
<1> QED
  BY <1>1, <1>2, <1>3, <1>4 DEF Widths

(* Unpacking takes each bit of a number from where a packer puts it, also   *)
(* when the number goes on in the lane's next word.                         *)
THEOREM ReadsTheBitWritten ==
  ASSUME NEW bits \in Widths, NEW row \in 0..(bits - 1), NEW l \in 0..(Lanes(bits) - 1),
         NEW b \in Nat, NEW bw \in 0..bits, NEW j \in 0..(bw - 1)
  PROVE  BitRead(b, Index(row, l), j, bits, bw) = BitWritten(b, row, l, j, bits, bw)
<1> DEFINE s == row * bw
           w == s \div bits
           r == s % bits
           first == b * bw * 1024
<1>1. bits \in Nat /\ j \in Nat /\ j < bits /\ s \in Nat
  BY SMT DEF Widths
<1>2. /\ w \in Nat /\ r \in 0..(bits - 1)
      /\ j < bits - r => (s + j) \div bits = w /\ (s + j) % bits = r + j
      /\ j >= bits - r => (s + j) \div bits = w + 1 /\ (s + j) % bits = j - (bits - r)
  BY <1>1, WithinTwoWords
<1>3. Lane(Index(row, l), bits) = l /\ Row(Index(row, l), bits) = row
  BY PlaceOfRowAndLane
<1>4. BitRead(b, Index(row, l), j, bits, bw)
        = first + IF j < bits - r THEN WordStart(w, l, bits) + r + j
                  ELSE WordStart(w + 1, l, bits) + (j - (bits - r))
  BY <1>3 DEF BitRead, BlockStart, NextWord, Word, Remain, Shift, StartBit
<1>5. BitWritten(b, row, l, j, bits, bw)
        = first + WordStart((s + j) \div bits, l, bits) + ((s + j) % bits)
  BY DEF BitWritten, WordStart, Lanes
<1>6. /\ first \in Int /\ l \in Int
      /\ \A k \in Nat : WordStart(k, l, bits) \in Int
  BY <1>1, LanesOf DEF Widths, WordStart
<1> HIDE DEF s, w, r, first
<1> QED
  BY <1>1, <1>2, <1>4, <1>5, <1>6

(* The steps of a bitpacked array, and what has been unpacked at the end.   *)
Unpacking ==
  /\ input \in Inputs
  /\ input.enc = "bitpacked" => pc \in {"start", "done", "refused"}
  /\ input.enc = "bitpacked" /\ pc = "done" =>
       /\ input.bw <= input.bits
       /\ out = [i \in 0..(Length - 1) |->
                   LET at == Off + i
                   IN  [j \in 0..(input.bw - 1) |->
                          BitRead(at \div 1024, at % 1024, j, input.bits, input.bw)]]

LEMMA UnpackingHolds == Spec => []Unpacking
<1>1. Init => Unpacking
  BY DEF Init, Unpacking
<1>2. Unpacking /\ [Next]_vars => Unpacking'
  <2> SUFFICES ASSUME Unpacking, [Next]_vars PROVE Unpacking'
    OBVIOUS
  <2>1. CASE Unpack
    <3>1. CASE pc' = "refused"
      BY <2>1, <3>1 DEF Unpack, Unpacking, Start
    <3>2. CASE pc' # "refused"
      <4>1. input \in [enc : {"bitpacked", "delta"}, bits : Widths, bw : Nat, count : Nat,
                       off : Nat, length : Nat, nullable : BOOLEAN]
        BY InputsAssumption DEF Unpacking
      <4>2. input.bits \in Int /\ input.bw \in Int
        BY <4>1 DEF Widths
      <4>3. ~(input.bw > input.bits) /\ pc' = "done" /\ input' = input
        BY <2>1, <3>2 DEF Unpack
      <4>4. out' = [i \in 0..(Length - 1) |->
                      LET at == Off + i
                      IN  [j \in 0..(input.bw - 1) |->
                             BitRead(at \div 1024, at % 1024, j, input.bits, input.bw)]]
        BY <2>1, <3>2 DEF Unpack
      <4> QED
        BY <4>2, <4>3, <4>4 DEF Unpacking, Length, Off
    <3> QED
      BY <3>1, <3>2
  <2>2. CASE DeltaBegins
    BY <2>2 DEF DeltaBegins, Unpacking, Start
  <2>3. CASE DeltaLane
    BY <2>3 DEF DeltaLane, Unpacking
  <2>4. CASE DeltaCopy
    BY <2>4 DEF DeltaCopy, Unpacking
  <2>5. CASE DeltaTail
    BY <2>5 DEF DeltaTail, Unpacking
  <2>6. CASE UNCHANGED vars
    BY <2>6 DEF vars, Unpacking, Length, Off
  <2> QED
    BY <2>1, <2>2, <2>3, <2>4, <2>5, <2>6 DEF Next
<1> QED
  BY <1>1, <1>2, PTL DEF Spec

LEMMA IndexInBlock ==
  \A bits \in Widths : \A row \in 0..(bits - 1) : \A l \in 0..(Lanes(bits) - 1) :
    Index(row, l) \in Places
<1> SUFFICES ASSUME NEW bits \in Widths, NEW row \in 0..(bits - 1), NEW l \in 0..(Lanes(bits) - 1)
             PROVE  Index(row, l) \in Places
  OBVIOUS
<1> QED
  BY PlaceOfRowAndLane, SMTT(60) DEF Places

LEMMA UnpackedBit ==
  ASSUME Unpacking, input.enc = "bitpacked", pc = "done",
         NEW i \in 0..(Length - 1), NEW j \in 0..(input.bw - 1)
  PROVE  out[i][j] = BitRead((Off + i) \div 1024, (Off + i) % 1024, j, input.bits, input.bw)
<1>1. out = [k \in 0..(Length - 1) |->
               [m \in 0..(input.bw - 1) |->
                  BitRead((Off + k) \div 1024, (Off + k) % 1024, m, input.bits, input.bw)]]
  BY DEF Unpacking
<1>2. out[i] = [m \in 0..(input.bw - 1) |->
                  BitRead((Off + i) \div 1024, (Off + i) % 1024, m, input.bits, input.bw)]
  BY <1>1
<1> QED
  BY <1>2

LEMMA UnpackingUnpacks == Unpacking => UnpacksWhatWasPacked
<1> SUFFICES ASSUME Unpacking, input.enc = "bitpacked", pc = "done",
                    NEW b \in Blocks, NEW row \in Rows, NEW l \in 0..(Lanes(input.bits) - 1),
                    b * 1024 + Index(row, l) - Off \in 0..(Length - 1),
                    NEW j \in 0..(input.bw - 1)
             PROVE  out[b * 1024 + Index(row, l) - Off][j]
                      = BitWritten(b, row, l, j, input.bits, input.bw)
  BY DEF UnpacksWhatWasPacked
<1> DEFINE i == b * 1024 + Index(row, l) - Off
           at == Off + i
<1>1. /\ input.bits \in Widths /\ input.bw \in Nat /\ Off \in Nat /\ Length \in Nat
      /\ input.bw <= input.bits
  BY InputsAssumption DEF Unpacking, Off, Length
<1>2. b \in Nat /\ row \in 0..(input.bits - 1) /\ input.bw \in 0..input.bits
  BY <1>1 DEF Blocks, Rows, Widths
<1>3. Index(row, l) \in Places
  BY <1>1, <1>2, IndexInBlock, SMTT(60)
<1>4. at \div 1024 = b /\ at % 1024 = Index(row, l)
  BY <1>1, <1>2, <1>3, SMT DEF Places
<1>5. out[i][j] = BitRead(at \div 1024, at % 1024, j, input.bits, input.bw)
  BY UnpackedBit
<1>6. BitRead(b, Index(row, l), j, input.bits, input.bw) = BitWritten(b, row, l, j, input.bits, input.bw)
  BY <1>1, <1>2, ReadsTheBitWritten
<1> QED
  BY <1>4, <1>5, <1>6

(* A decoder of packed numbers yields each number of its slice bit by bit   *)
(* as it was written, for arrays of any size and every bit width.           *)
THEOREM Unpacks == Spec => []UnpacksWhatWasPacked
  BY UnpackingHolds, UnpackingUnpacks, PTL

-----------------------------------------------------------------------------
(* Sums.  Adding deltas one after the other, each time modulo the range of *)
(* the type, gives the sum of all of them, modulo that range.              *)

LEMMA Induct ==
  ASSUME NEW S \in SUBSET Nat, 0 \in S, \A n \in S : n + 1 \in S
  PROVE  S = Nat
<1> SUFFICES ASSUME Nat \ S # {} PROVE FALSE
  OBVIOUS
<1> DEFINE R == OpToRel(<, Nat)
<1>1. IsWellFoundedOn(R, Nat)
  BY NatLessThanWellFounded
<1>2. \E n \in Nat \ S : \A m \in Nat \ S : ~(<<m, n>> \in R)
  <2> HIDE DEF R
  <2> QED BY <1>1, WFMin
<1>3. \A m, n \in Nat : <<m, n>> \in R <=> m < n
  BY DEF OpToRel
<1> HIDE DEF R
<1>4. PICK n \in Nat \ S : \A m \in Nat \ S : ~(m < n)
  BY <1>2, <1>3
<1>5. n # 0 /\ n - 1 \in Nat /\ n - 1 < n
  BY <1>4
<1>6. n - 1 \in S
  BY <1>4, <1>5
<1> QED BY <1>4, <1>5, <1>6

\* What a sum of n deltas and more is defined to be.
IsTotal(f, base, deltas, n) ==
  f = [i \in 0..n |-> (IF i = 0 THEN base ELSE f[i - 1]) + deltas[i]]

IsRunning(f, base, deltas, n) ==
  f = [i \in 0..n |-> ((IF i = 0 THEN base ELSE f[i - 1]) + deltas[i]) % Modulus]

LEMMA TotalExists ==
  ASSUME NEW base, NEW deltas, NEW n \in Nat
  PROVE  \E f : IsTotal(f, base, deltas, n)
<1> DEFINE S == {k \in Nat : \E f : IsTotal(f, base, deltas, k)}
<1>1. 0 \in S
  <2> DEFINE f == [i \in 0..0 |-> base + deltas[0]]
  <2>1. f = [i \in 0..0 |-> (IF i = 0 THEN base ELSE f[i - 1]) + deltas[i]]
    OBVIOUS
  <2> HIDE DEF f
  <2> QED BY <2>1 DEF IsTotal
<1>2. ASSUME NEW k \in S PROVE k + 1 \in S
  <2>1. PICK f : IsTotal(f, base, deltas, k)
    OBVIOUS
  <2> DEFINE new == f[k] + deltas[k + 1]
             g == [i \in 0..(k + 1) |-> IF i = k + 1 THEN new ELSE f[i]]
  <2>2. ASSUME NEW i \in 0..(k + 1)
        PROVE  g[i] = (IF i = 0 THEN base ELSE g[i - 1]) + deltas[i]
    <3>1. CASE i = k + 1
      BY <3>1
    <3>2. CASE i # k + 1
      <4>1. f[i] = (IF i = 0 THEN base ELSE f[i - 1]) + deltas[i]
        BY <2>1, <3>2 DEF IsTotal
      <4> QED BY <3>2, <4>1
    <3> QED BY <3>1, <3>2
  <2>3. g = [i \in 0..(k + 1) |-> g[i]]
    OBVIOUS
  <2> HIDE DEF g
  <2>4. IsTotal(g, base, deltas, k + 1)
    BY <2>2, <2>3 DEF IsTotal
  <2> QED BY <2>4
<1> HIDE DEF S
<1>3. S = Nat
  BY <1>1, <1>2, Induct, S \in SUBSET Nat DEF S
<1> QED BY <1>3 DEF S

LEMMA RunningExists ==
  ASSUME NEW base, NEW deltas, NEW n \in Nat
  PROVE  \E f : IsRunning(f, base, deltas, n)
<1> DEFINE S == {k \in Nat : \E f : IsRunning(f, base, deltas, k)}
<1>1. 0 \in S
  <2> DEFINE f == [i \in 0..0 |-> (base + deltas[0]) % Modulus]
  <2>1. f = [i \in 0..0 |-> ((IF i = 0 THEN base ELSE f[i - 1]) + deltas[i]) % Modulus]
    OBVIOUS
  <2> HIDE DEF f
  <2> QED BY <2>1 DEF IsRunning
<1>2. ASSUME NEW k \in S PROVE k + 1 \in S
  <2>1. PICK f : IsRunning(f, base, deltas, k)
    OBVIOUS
  <2> DEFINE new == (f[k] + deltas[k + 1]) % Modulus
             g == [i \in 0..(k + 1) |-> IF i = k + 1 THEN new ELSE f[i]]
  <2>2. ASSUME NEW i \in 0..(k + 1)
        PROVE  g[i] = ((IF i = 0 THEN base ELSE g[i - 1]) + deltas[i]) % Modulus
    <3>1. CASE i = k + 1
      BY <3>1
    <3>2. CASE i # k + 1
      <4>1. f[i] = ((IF i = 0 THEN base ELSE f[i - 1]) + deltas[i]) % Modulus
        BY <2>1, <3>2 DEF IsRunning
      <4> QED BY <3>2, <4>1
    <3> QED BY <3>1, <3>2
  <2>3. g = [i \in 0..(k + 1) |-> g[i]]
    OBVIOUS
  <2> HIDE DEF g
  <2>4. IsRunning(g, base, deltas, k + 1)
    BY <2>2, <2>3 DEF IsRunning
  <2> QED BY <2>4
<1> HIDE DEF S
<1>3. S = Nat
  BY <1>1, <1>2, Induct, S \in SUBSET Nat DEF S
<1> QED BY <1>3 DEF S

LEMMA TotalIs ==
  ASSUME NEW base, NEW n \in Nat, NEW deltas, DOMAIN deltas = 0..n
  PROVE  IsTotal(Total(base, deltas), base, deltas, n)
<1> DEFINE g == CHOOSE f : f = [i \in 0..n |-> (IF i = 0 THEN base ELSE f[i - 1]) + deltas[i]]
<1>1. Total(base, deltas) = g
  BY DEF Total
<1>2. \E f : f = [i \in 0..n |-> (IF i = 0 THEN base ELSE f[i - 1]) + deltas[i]]
  <2>1. \E f : IsTotal(f, base, deltas, n)
    BY TotalExists
  <2> QED BY <2>1 DEF IsTotal
<1>3. g = [i \in 0..n |-> (IF i = 0 THEN base ELSE g[i - 1]) + deltas[i]]
  BY <1>2
<1> HIDE DEF g
<1> QED BY <1>1, <1>3 DEF IsTotal

LEMMA RunningIs ==
  ASSUME NEW base, NEW n \in Nat, NEW deltas, DOMAIN deltas = 0..n
  PROVE  IsRunning(Running(base, deltas), base, deltas, n)
<1> DEFINE g == CHOOSE f : f = [i \in 0..n |->
                  ((IF i = 0 THEN base ELSE f[i - 1]) + deltas[i]) % Modulus]
<1>1. Running(base, deltas) = g
  BY DEF Running
<1>2. \E f : f = [i \in 0..n |-> ((IF i = 0 THEN base ELSE f[i - 1]) + deltas[i]) % Modulus]
  <2>1. \E f : IsRunning(f, base, deltas, n)
    BY RunningExists
  <2> QED BY <2>1 DEF IsRunning
<1>3. g = [i \in 0..n |-> ((IF i = 0 THEN base ELSE g[i - 1]) + deltas[i]) % Modulus]
  BY <1>2
<1> HIDE DEF g
<1> QED BY <1>1, <1>3 DEF IsRunning

LEMMA RemainderUnique ==
  ASSUME NEW M \in Nat \ {0}, NEW q \in Int, NEW p \in Int,
         NEW r \in 0..(M - 1), NEW s \in 0..(M - 1), M * q + r = M * p + s
  PROVE  r = s
<1>1. ASSUME NEW a \in Int, NEW b \in Int, a < b
      PROVE  M * a + M <= M * b
  <2>1. M * (a + 1) <= M * b
    BY <1>1, SMT
  <2> QED BY <2>1, SMT
<1>2. ~(q < p)
  <2> SUFFICES ASSUME q < p PROVE FALSE
    OBVIOUS
  <2>1. M * q + M <= M * p
    BY <1>1
  <2> QED BY <2>1, SMT
<1>3. ~(p < q)
  <2> SUFFICES ASSUME p < q PROVE FALSE
    OBVIOUS
  <2>1. M * p + M <= M * q
    BY <1>1
  <2> QED BY <2>1, SMT
<1>4. q = p
  BY <1>2, <1>3
<1> QED BY <1>4, SMT

\* A number may be reduced before another is added to it.
LEMMA ReduceTwice ==
  ASSUME NEW M \in Nat \ {0}, NEW a \in Int, NEW b \in Int
  PROVE  ((a % M) + b) % M = (a + b) % M
<1> DEFINE r == a % M
<1>1. PICK q \in Int : r \in 0..(M - 1) /\ a = M * q + r
  <2>1. a \div M \in Int /\ r \in 0..(M - 1) /\ a = M * (a \div M) + r
    BY SMT
  <2> QED BY <2>1
<1> HIDE DEF r
<1>2. PICK p \in Int : (r + b) % M \in 0..(M - 1) /\ r + b = M * p + ((r + b) % M)
  <2>1. /\ (r + b) \div M \in Int /\ (r + b) % M \in 0..(M - 1)
        /\ r + b = M * ((r + b) \div M) + ((r + b) % M)
    BY <1>1, SMT
  <2> QED BY <2>1
<1>3. PICK o \in Int : (a + b) % M \in 0..(M - 1) /\ a + b = M * o + ((a + b) % M)
  <2>1. /\ (a + b) \div M \in Int /\ (a + b) % M \in 0..(M - 1)
        /\ a + b = M * ((a + b) \div M) + ((a + b) % M)
    BY SMT
  <2> QED BY <2>1
<1>4. M * (q + p) + ((r + b) % M) = M * o + ((a + b) % M)
  <2>1. M * (q + p) = M * q + M * p
    BY SMT
  <2>2. a + b = M * q + M * p + ((r + b) % M)
    <3> DEFINE x == M * q
               y == M * p
               z == (r + b) % M
    <3>1. x \in Int /\ y \in Int /\ z \in Int /\ a = x + r /\ r + b = y + z /\ r \in Int
      BY <1>1, <1>2
    <3> HIDE DEF x, y, z
    <3>2. a + b = x + y + z
      BY <3>1
    <3> QED BY <3>2 DEF x, y, z
  <2> QED BY <1>3, <2>1, <2>2
<1>5. (r + b) % M = (a + b) % M
  <2>1. q + p \in Int
    OBVIOUS
  <2> QED BY <1>2, <1>3, <1>4, <2>1, RemainderUnique
<1> QED BY <1>5 DEF r

\* The first of two rows of deltas may be longer than what is summed of it.
LEMMA RunningIsTotal ==
  ASSUME NEW base \in Int, NEW n \in Nat, NEW m \in 0..n, NEW d, NEW e,
         DOMAIN d = 0..n, DOMAIN e = 0..m,
         \A i \in 0..n : d[i] \in Int, \A i \in 0..m : e[i] = d[i]
  PROVE  Running(base, d)[m] = Total(base, e)[m] % Modulus
<1> DEFINE running == Running(base, d)
           total == Total(base, e)
<1>1. \A i \in 0..n : running[i] = ((IF i = 0 THEN base ELSE running[i - 1]) + d[i]) % Modulus
  <2>1. IsRunning(running, base, d, n)
    BY RunningIs
  <2> HIDE DEF running
  <2> QED BY <2>1 DEF IsRunning
<1>2. \A i \in 0..m : total[i] = (IF i = 0 THEN base ELSE total[i - 1]) + d[i]
  <2>1. IsTotal(total, base, e, m)
    BY TotalIs
  <2> HIDE DEF total
  <2> QED BY <2>1 DEF IsTotal
<1> HIDE DEF running, total
<1> DEFINE S == {k \in Nat : k <= m => total[k] \in Int /\ running[k] = total[k] % Modulus}
<1>3. 0 \in S
  <2>1. total[0] = base + d[0] /\ running[0] = (base + d[0]) % Modulus
    BY <1>1, <1>2
  <2> QED BY <2>1
<1>4. ASSUME NEW k \in S PROVE k + 1 \in S
  <2> SUFFICES ASSUME k + 1 <= m
               PROVE  total[k + 1] \in Int /\ running[k + 1] = total[k + 1] % Modulus
    OBVIOUS
  <2>1. /\ total[k + 1] = total[k] + d[k + 1]
        /\ running[k + 1] = (running[k] + d[k + 1]) % Modulus
    <3>1. k \in Nat /\ k + 1 \in 0..m /\ k + 1 \in 0..n /\ k + 1 # 0 /\ (k + 1) - 1 = k
      OBVIOUS
    <3> QED BY <1>1, <1>2, <3>1
  <2>2. total[k] \in Int /\ running[k] = total[k] % Modulus /\ d[k + 1] \in Int
    OBVIOUS
  <2>3. Modulus \in Nat \ {0}
    BY ChildrenAssumption
  <2>4. ((total[k] % Modulus) + d[k + 1]) % Modulus = (total[k] + d[k + 1]) % Modulus
    BY <2>2, <2>3, ReduceTwice
  <2>5. total[k] + d[k + 1] \in Int
    BY <2>2
  <2> QED BY <2>1, <2>2, <2>4, <2>5
<1>5. S \in SUBSET Nat
  OBVIOUS
<1> HIDE DEF S
<1>6. m \in S
  <2>1. S = Nat
    BY <1>3, <1>4, <1>5, Induct
  <2> QED BY <2>1
<1> QED BY <1>6 DEF S, running, total

-----------------------------------------------------------------------------
(* The rows of a lane are a run: they follow each other in the block, from  *)
(* a multiple of the number of bits on.                                     *)

LEMMA BeginsRun ==
  ASSUME NEW bits \in Widths, NEW l \in 0..(Lanes(bits) - 1)
  PROVE  /\ Index(0, l) = l /\ l \in 0..127
         /\ Transpose(l) \in 0..1023 /\ Transpose(l) % bits = 0
<1>1. l \in 0..127
  BY LanesOf DEF Widths
<1>2. Index(0, l) = l
  BY <1>1, SMT DEF Index, Order
<1>3. Transpose(l) \in 0..1023
  <2>1. IsPlace(Transpose(l), l)
    <3>1. l \in Places
      BY <1>1 DEF Places
    <3> QED BY <3>1, TransposeOneToOne
  <2> QED BY <2>1 DEF IsPlace, Places
<1>4. Transpose(l) = (l % 16) * 64 + Order(l \div 16) * 8
  <2>1. (l \div 16) % 8 = l \div 16 /\ l \div 128 = 0 /\ l \div 16 \in 0..7 /\ l % 16 \in 0..15
    BY <1>1, SMT
  <2>2. Order(l \div 16) \in 0..7
    BY <2>1, OrderType
  <2> QED BY <2>1, <2>2 DEF Transpose
<1>5. Transpose(l) % bits = 0
  <2>1. CASE bits = 8
    BY <1>1, <1>4, <2>1, SMT DEF Order
  <2>2. CASE bits = 16
    BY <1>4, <2>2, LanesOf, SMT DEF Order
  <2>3. CASE bits = 32
    BY <1>4, <2>3, LanesOf, SMT DEF Order
  <2>4. CASE bits = 64
    BY <1>4, <2>4, LanesOf, SMT DEF Order
  <2> QED BY <2>1, <2>2, <2>3, <2>4 DEF Widths
<1> QED BY <1>1, <1>2, <1>3, <1>5

LEMMA LaneIsRun ==
  ASSUME NEW bits \in Widths, NEW l \in 0..(Lanes(bits) - 1), NEW row \in 0..(bits - 1)
  PROVE  Transpose(Index(row, l)) = Transpose(l) + row
<1> DEFINE S == {k \in Nat : k < bits => Transpose(Index(k, l)) = Transpose(l) + k}
<1>1. bits \in Nat /\ Transpose(l) \in Nat
  <2>1. Transpose(l) \in 0..1023
    BY BeginsRun
  <2> QED BY <2>1 DEF Widths
<1>2. 0 \in S
  <2>1. Transpose(Index(0, l)) = Transpose(l)
    BY BeginsRun
  <2> QED BY <1>1, <2>1
<1>3. ASSUME NEW k \in S PROVE k + 1 \in S
  <2> SUFFICES ASSUME k + 1 < bits
               PROVE  Transpose(Index(k + 1, l)) = Transpose(l) + (k + 1)
    OBVIOUS
  <2>1. k \in 0..(bits - 2) /\ Transpose(Index(k, l)) = Transpose(l) + k
    BY <1>1
  <2>2. Transpose(Index(k + 1, l)) = Transpose(Index(k, l)) + 1
    BY <2>1, LaneStoredInOrder
  <2> QED BY <1>1, <2>1, <2>2
<1>4. S \in SUBSET Nat
  OBVIOUS
<1> HIDE DEF S
<1>5. S = Nat
  BY <1>2, <1>3, <1>4, Induct
<1>6. row \in S
  BY <1>1, <1>5
<1> QED BY <1>1, <1>6 DEF S

InPlace(idx) == Transpose(idx) \in Places /\ Place[Transpose(idx)] = idx

LEMMA PlaceIs ==
  ASSUME NEW idx \in Places
  PROVE  InPlace(idx)
<1> DEFINE t == Transpose(idx)
           p == CHOOSE i \in Places : Transpose(i) = t
<1>1. t \in Places
  <2>1. IsPlace(t, idx)
    BY TransposeOneToOne
  <2> QED BY <2>1 DEF IsPlace
<1>2. Place[t] = p
  BY <1>1, ZenonT(40) DEF Place, Places
<1>3. p \in Places /\ Transpose(p) = t
  OBVIOUS
<1> HIDE DEF p
<1>4. p = idx
  <2>1. IsPlace(Transpose(p), p) /\ IsPlace(t, idx)
    BY <1>3, TransposeOneToOne
  <2>2. Source(t) = p /\ Source(t) = idx
    <3> HIDE DEF t
    <3> QED BY <1>3, <2>1 DEF IsPlace
  <2> QED BY <2>2
<1> QED BY <1>1, <1>2, <1>4 DEF InPlace

\* Each place of a block is stored by a lane, from one of its rows.
IsStored(t, bits) ==
  \E l \in 0..(Lanes(bits) - 1), row \in 0..(bits - 1) : Transpose(Index(row, l)) = t

LEMMA StoredByLane ==
  ASSUME NEW bits \in Widths, NEW t \in Places
  PROVE  IsStored(t, bits)
<1> DEFINE p == Source(t)
           l == Lane(p, bits)
           row == Row(p, bits)
<1>1. p \in Places /\ Transpose(p) = t
  <2>1. IsPlace(t, p)
    BY TransposeOneToOne
  <2> HIDE DEF p
  <2> QED BY <2>1 DEF IsPlace
<1> HIDE DEF p
<1>2. PICK s \in 0..7, q \in 0..127 : p = s * 128 + q
  <2>1. p \div 128 \in 0..7 /\ p % 128 \in 0..127 /\ p = (p \div 128) * 128 + (p % 128)
    <3>1. p \in 0..1023
      BY <1>1 DEF Places
    <3> QED BY <3>1, SMT
  <2> QED BY <2>1
<1>3. Stripe(p) = s
  BY <1>2, SMT DEF Stripe
<1>4. l = q % Lanes(bits)
  <2>1. /\ (s * 128 + q) % 128 = q % 128 /\ (s * 128 + q) % 64 = q % 64
        /\ (s * 128 + q) % 32 = q % 32 /\ (s * 128 + q) % 16 = q % 16
    BY <1>2, SMT
  <2> QED BY <1>2, <2>1, LanesOf DEF Lane, Widths
<1>11. row = Order(Permuted(p, bits)) * 8 + Stripe(p)
  BY DEF Row
<1> HIDE DEF l, row
<1>5. /\ l \in 0..(Lanes(bits) - 1)
      /\ (q - l) \div 16 \in 0..7 /\ ((q - l) \div 16) * 16 + l = q
      /\ Order((q - l) \div 16) * 8 + s \in 0..(bits - 1)
  <2>1. CASE bits = 8
    <3>1. Lanes(bits) = 128 /\ l \in 0..127 /\ q \div 128 \in 0..0 /\ q = 128 * (q \div 128) + l
      BY <1>2, <1>4, <2>1, LanesOf, SMT
    <3>2. (q - l) \div 16 = 8 * (q \div 128)
      BY <3>1, SMT
    <3>3. Order(8 * (q \div 128)) * 8 + s \in 0..7
      BY <1>2, <3>1, SMT DEF Order
    <3> QED BY <1>2, <2>1, <3>1, <3>2, <3>3
  <2>2. CASE bits = 16
    <3>1. Lanes(bits) = 64 /\ l \in 0..63 /\ q \div 64 \in 0..1 /\ q = 64 * (q \div 64) + l
      BY <1>2, <1>4, <2>2, LanesOf, SMT
    <3>2. (q - l) \div 16 = 4 * (q \div 64)
      BY <3>1, SMT
    <3>3. Order(4 * (q \div 64)) * 8 + s \in 0..15
      BY <1>2, <3>1, SMT DEF Order
    <3> QED BY <1>2, <2>2, <3>1, <3>2, <3>3
  <2>3. CASE bits = 32
    <3>1. Lanes(bits) = 32 /\ l \in 0..31 /\ q \div 32 \in 0..3 /\ q = 32 * (q \div 32) + l
      BY <1>2, <1>4, <2>3, LanesOf, SMT
    <3>2. (q - l) \div 16 = 2 * (q \div 32)
      BY <3>1, SMT
    <3>3. Order(2 * (q \div 32)) * 8 + s \in 0..31
      BY <1>2, <3>1, SMT DEF Order
    <3> QED BY <1>2, <2>3, <3>1, <3>2, <3>3
  <2>4. CASE bits = 64
    <3>1. Lanes(bits) = 16 /\ l \in 0..15 /\ q \div 16 \in 0..7 /\ q = 16 * (q \div 16) + l
      <4>1. Lanes(bits) = 16 /\ l = q % 16
        BY <1>4, <2>4, LanesOf
      <4> QED BY <1>2, <4>1, SMT
    <3>2. (q - l) \div 16 = (q \div 16)
      BY <3>1, SMT
    <3>3. Order((q \div 16)) * 8 + s \in 0..63
      BY <1>2, <3>1, SMT DEF Order
    <3> QED BY <1>2, <2>4, <3>1, <3>2, <3>3
  <2> QED BY <2>1, <2>2, <2>3, <2>4 DEF Widths
<1> DEFINE g == (q - l) \div 16
<1>6. Permuted(p, bits) = g
  BY <1>2, <1>3, <1>5 DEF Permuted, l
<1>7. row = Order(g) * 8 + s
  BY <1>3, <1>6, <1>11
<1>8. Index(row, l) = p
  <2>1. Order(g) \in 0..7 /\ Order(Order(g)) = g
    BY <1>5, OrderType
  <2>2. row \div 8 = Order(g) /\ row % 8 = s
    <3> DEFINE o == Order(g)
    <3>1. o \in 0..7 /\ row = o * 8 + s
      BY <1>7, <2>1
    <3> HIDE DEF o
    <3>2. row \div 8 = o /\ row % 8 = s
      BY <3>1, SMT
    <3> QED BY <3>2 DEF o
  <2>3. Index(row, l) = g * 16 + s * 128 + l
    BY <2>1, <2>2 DEF Index
  <2>4. g \in 0..7 /\ g * 16 + l = q /\ l \in Int
    BY <1>5, LanesOf DEF Widths
  <2> HIDE DEF g
  <2> QED BY <1>2, <2>3, <2>4
<1>9. row \in 0..(bits - 1)
  BY <1>5, <1>7
<1> QED BY <1>1, <1>5, <1>8, <1>9 DEF IsStored

-----------------------------------------------------------------------------
(* What the property asks of a row, as the decoder computes it.            *)

InputFacts ==
  /\ input \in Inputs /\ input.enc = "delta"
  /\ input.bits \in Widths /\ input.count \in Nat /\ Off \in Nat /\ Length \in Nat
  /\ input.bits \in 1..1024 /\ Lanes(input.bits) \in 1..128 /\ Chunks \in Nat
  /\ input.count % 1024 = input.count - Chunks * 1024 /\ input.count % 1024 \in 0..1023
  /\ Modulus \in Nat \ {0}
  /\ \A k \in 0..(BasesCount(input) - 1) : Base[k] \in Int
  /\ \A i \in 0..(input.count - 1) : Delta[i] \in Int

LEMMA InputsAre ==
  ASSUME input \in Inputs, input.enc = "delta"
  PROVE  InputFacts
<1>1. /\ input.bits \in Widths /\ input.count \in Nat /\ Off \in Nat /\ Length \in Nat
  BY InputsAssumption DEF Off, Length
<1>2. input.bits \in 1..1024 /\ Lanes(input.bits) \in 1..128
  BY <1>1, LanesOf DEF Widths
<1>3. /\ Chunks \in Nat /\ input.count % 1024 \in 0..1023
      /\ input.count % 1024 = input.count - Chunks * 1024
  <2>1. /\ Chunks \in Nat /\ input.count % 1024 \in 0..1023
        /\ Chunks * 1024 + (input.count % 1024) = input.count
    BY <1>1, SMT DEF Chunks
  <2> DEFINE total == Chunks
             rest == input.count % 1024
             count == input.count
  <2>2. total \in Nat /\ rest \in 0..1023 /\ count \in Nat /\ total * 1024 + rest = count
    BY <1>1, <2>1
  <2> HIDE DEF total, rest, count
  <2>3. rest = count - total * 1024
    BY <2>2
  <2> QED BY <2>1, <2>3 DEF total, rest, count
<1>4. /\ Modulus \in Nat \ {0}
      /\ \A k \in 0..(BasesCount(input) - 1) : Base[k] \in Int
      /\ \A i \in 0..(input.count - 1) : Delta[i] \in Int
  BY ChildrenAssumption
<1> QED BY <1>1, <1>2, <1>3, <1>4 DEF InputFacts

\* Row r is in block c; it is row x of its run.
InBlock(r, c) == r \div 1024 = c /\ r % 1024 = r - c * 1024
IsRowOfRun(r, bits, x) == r % bits = x

LEMMA BlockOfRow ==
  ASSUME NEW r \in Nat, NEW c \in Nat, c * 1024 <= r, r < c * 1024 + 1024
  PROVE  InBlock(r, c)
BY SMT DEF InBlock

LEMMA InRun ==
  ASSUME NEW bits \in Widths, NEW c \in Nat, NEW first \in Nat, first % bits = 0,
         NEW row \in 0..(bits - 1)
  PROVE  IsRowOfRun(c * 1024 + first + row, bits, row)
<1>1. CASE bits = 8
  <2>1. PICK j \in Nat : first = 8 * j
    <3>1. first = 8 * (first \div 8) /\ first \div 8 \in Nat
      BY <1>1, SMT
    <3> QED BY <3>1
  <2>2. row \in 0..7 /\ c * 1024 + first + row = 8 * (c * 128 + j) + row
    BY <1>1, <2>1
  <2> QED BY <1>1, <2>2, SMT DEF IsRowOfRun
<1>2. CASE bits = 16
  <2>1. PICK j \in Nat : first = 16 * j
    <3>1. first = 16 * (first \div 16) /\ first \div 16 \in Nat
      BY <1>2, SMT
    <3> QED BY <3>1
  <2>2. row \in 0..15 /\ c * 1024 + first + row = 16 * (c * 64 + j) + row
    BY <1>2, <2>1
  <2> QED BY <1>2, <2>2, SMT DEF IsRowOfRun
<1>3. CASE bits = 32
  <2>1. PICK j \in Nat : first = 32 * j
    <3>1. first = 32 * (first \div 32) /\ first \div 32 \in Nat
      BY <1>3, SMT
    <3> QED BY <3>1
  <2>2. row \in 0..31 /\ c * 1024 + first + row = 32 * (c * 32 + j) + row
    BY <1>3, <2>1
  <2> QED BY <1>3, <2>2, SMT DEF IsRowOfRun
<1>4. CASE bits = 64
  <2>1. PICK j \in Nat : first = 64 * j
    <3>1. first = 64 * (first \div 64) /\ first \div 64 \in Nat
      BY <1>4, SMT
    <3> QED BY <3>1
  <2>2. row \in 0..63 /\ c * 1024 + first + row = 64 * (c * 16 + j) + row
    BY <1>4, <2>1
  <2> QED BY <1>4, <2>2, SMT DEF IsRowOfRun
<1> QED BY <1>1, <1>2, <1>3, <1>4 DEF Widths, IsRowOfRun

\* The sums of a lane of a block.
LaneSums(c, l) ==
  Running(Base[c * Lanes(input.bits) + l],
          [row \in Rows |-> Delta[c * 1024 + Index(row, l)]])

\* A row of a lane is the sum of its run.
LEMMA LaneIsRowValue ==
  ASSUME InputFacts, NEW c \in 0..(Chunks - 1), NEW l \in 0..(Lanes(input.bits) - 1), NEW row \in Rows
  PROVE  RowValue(c * 1024 + Transpose(Index(row, l))) = LaneSums(c, l)[row]
<1> DEFINE bits == input.bits
           n == bits - 1
           first == Transpose(l)
           r == c * 1024 + Transpose(Index(row, l))
           base == Base[c * Lanes(bits) + l]
           d == [k \in Rows |-> Delta[c * 1024 + Index(k, l)]]
           e == [k \in 0..(r - (r - (r % bits))) |->
                   Delta[(r \div 1024) * 1024 + Place[((r - (r % bits)) + k) % 1024]]]
<1>1. /\ bits \in Widths /\ bits \in 1..1024 /\ n \in Nat /\ Rows = 0..n /\ row \in 0..n
      /\ Chunks \in Nat /\ c \in Nat /\ Modulus \in Nat \ {0}
  <2>1. bits \in 1..1024 /\ Chunks \in Nat /\ Modulus \in Nat \ {0} /\ bits \in Widths
    BY DEF InputFacts
  <2>2. Rows = 0..n
    BY DEF Rows
  <2>3. row \in 0..n
    BY <2>2
  <2>4. n \in Nat
    <3>1. \A x \in 1..1024 : x - 1 \in Nat
      OBVIOUS
    <3> QED BY <2>1, <3>1, ZenonT(40)
  <2>5. c \in Nat
    BY <2>1
  <2> QED BY <2>1, <2>2, <2>3, <2>4, <2>5, ZenonT(40)
<1>2. ASSUME NEW k \in 0..n
       PROVE  Index(k, l) \in Places
  <2>1. k \in 0..(bits - 1)
    OBVIOUS
  <2>2. bits \in Widths
    BY <1>1
  <2> QED BY <2>1, <2>2, IndexInBlock, SMTT(60)
<1>3. /\ first \in 0..1023 /\ first % bits = 0 /\ Index(0, l) = l
      /\ \A k \in 0..n : Transpose(Index(k, l)) = first + k
      /\ \A k \in 0..n : Index(k, l) \in Places /\ Place[first + k] = Index(k, l) /\ first + k \in 0..1023
  <2>1. first \in 0..1023 /\ first % bits = 0 /\ Index(0, l) = l
    BY <1>1, BeginsRun
  <2>2. ASSUME NEW k \in 0..n
        PROVE  Transpose(Index(k, l)) = first + k
    BY <1>1, LaneIsRun
  <2>4. ASSUME NEW k \in 0..n
        PROVE  Index(k, l) \in Places /\ Place[first + k] = Index(k, l) /\ first + k \in 0..1023
    <3> DEFINE i == Index(k, l)
    <3>1. i \in Places
      BY <1>2
    <3>2. Transpose(i) = first + k
      BY <2>2
    <3> HIDE DEF i
    <3>3. InPlace(i)
      BY <3>1, PlaceIs
    <3>4. Place[first + k] = i /\ first + k \in Places
      BY <3>2, <3>3 DEF InPlace
    <3>5. first + k \in 0..1023
      BY <3>4 DEF Places
    <3> QED BY <3>1, <3>4, <3>5 DEF i
  <2> HIDE DEF first, n
  <2>5. \A k \in 0..n : Transpose(Index(k, l)) = first + k
    BY <2>2, Zenon
  <2>6. \A k \in 0..n : Index(k, l) \in Places /\ Place[first + k] = Index(k, l) /\ first + k \in 0..1023
    BY <2>4, Zenon
  <2> QED BY <2>1, <2>5, <2>6, Zenon
<1> HIDE DEF first
<1>4. r = c * 1024 + first + row /\ first + row \in 0..1023
  BY <1>1, <1>3
<1>5. r \div 1024 = c /\ r % 1024 = first + row
  <2>1. r = c * 1024 + (first + row)
    BY <1>1, <1>3, <1>4
  <2> HIDE DEF r
  <2>2. (c * 1024 + (first + row)) \div 1024 = c /\ (c * 1024 + (first + row)) % 1024 = first + row
    <3>1. first + row \in 0..1023 /\ c \in Nat
      BY <1>1, <1>4
    <3> DEFINE s == c * 1024 + (first + row)
    <3>2. s \in Nat /\ c * 1024 <= s /\ s < c * 1024 + 1024 /\ s - c * 1024 = first + row
      <4> DEFINE x == first + row
      <4>1. x \in 0..1023 /\ c \in Nat
        BY <3>1
      <4> HIDE DEF x
      <4>2. /\ c * 1024 + x \in Nat /\ c * 1024 <= c * 1024 + x /\ c * 1024 + x < c * 1024 + 1024
            /\ (c * 1024 + x) - c * 1024 = x
        BY <4>1
      <4> QED BY <4>2 DEF x
    <3> HIDE DEF s
    <3>3. InBlock(s, c)
      BY <3>1, <3>2, BlockOfRow
    <3> QED BY <3>2, <3>3 DEF InBlock, s
  <2> QED BY <2>1, <2>2
<1>6. r % bits = row
  <2> HIDE DEF r
  <2>1. first \in Nat /\ row \in 0..(bits - 1)
    BY <1>1, <1>3
  <2>2. (c * 1024 + first + row) % bits = row
    <3>1. bits \in Widths /\ c \in Nat /\ first % bits = 0
      BY <1>1, <1>3
    <3>2. IsRowOfRun(c * 1024 + first + row, bits, row)
      BY <2>1, <3>1, InRun
    <3> QED BY <3>2 DEF IsRowOfRun
  <2> QED BY <1>4, <2>2
<1>7. r - row = c * 1024 + first /\ r - (r - row) = row /\ r \in Nat
  BY <1>1, <1>3, <1>4
<1>8. (c * 1024 + first) % 1024 = first
  <2>1. first \in 0..1023 /\ c \in Nat
    BY <1>1, <1>3
  <2> DEFINE s == c * 1024 + first
  <2>2. s \in Nat /\ c * 1024 <= s /\ s < c * 1024 + 1024 /\ s - c * 1024 = first
    BY <2>1
  <2> HIDE DEF s
  <2>3. InBlock(s, c)
    BY <2>1, <2>2, BlockOfRow
  <2> QED BY <2>2, <2>3 DEF InBlock, s
<1>9. RowValue(r) = Total(base, e)[row] % Modulus
  <2> HIDE DEF r
  <2>1. r \div 1024 < Chunks
    BY <1>1, <1>5
  <2>2. Place[(r - (r % bits)) % 1024] = l
    <3>1. (r - (r % bits)) % 1024 = first
      BY <1>6, <1>7, <1>8
    <3> QED BY <1>1, <1>3, <3>1
  <2> QED BY <1>5, <1>6, <1>7, <2>1, <2>2 DEF RowValue
<1>10. DOMAIN e = 0..row /\ \A k \in 0..row : e[k] = d[k]
  <2>1. DOMAIN e = 0..row
    BY <1>6, <1>7
  <2>2. ASSUME NEW k \in 0..row PROVE e[k] = d[k]
    <3>1. k \in 0..n
      BY <1>1
    <3>2. ((r - (r % bits)) + k) % 1024 = first + k
      <4>1. (r - (r % bits)) + k = c * 1024 + (first + k)
        BY <1>1, <1>3, <1>6, <1>7, <3>1
      <4>2. (c * 1024 + (first + k)) % 1024 = first + k
        <5>1. first + k \in 0..1023
          BY <1>3, <3>1
        <5> DEFINE x == first + k
                   s == c * 1024 + x
        <5>2. x \in 0..1023 /\ c \in Nat
          BY <1>1, <5>1
        <5> HIDE DEF x
        <5>3. s \in Nat /\ c * 1024 <= s /\ s < c * 1024 + 1024 /\ s - c * 1024 = x
          BY <5>2
        <5> HIDE DEF s
        <5>4. InBlock(s, c)
          BY <5>2, <5>3, BlockOfRow
        <5> QED BY <5>3, <5>4 DEF InBlock, s, x
      <4> QED BY <4>1, <4>2
    <3>3. e[k] = Delta[(r \div 1024) * 1024 + Place[((r - (r % bits)) + k) % 1024]]
      BY <1>6, <1>7
    <3>4. Place[first + k] = Index(k, l)
      BY <1>3, <3>1
    <3>5. d[k] = Delta[c * 1024 + Index(k, l)]
      BY <1>1, <3>1
    <3> HIDE DEF e, r, d
    <3> QED BY <1>5, <3>2, <3>3, <3>4, <3>5
  <2> QED BY <2>1, <2>2
<1>11. base \in Int /\ \A k \in 0..n : d[k] \in Int
  <2>1. c * Lanes(bits) + l \in 0..(BasesCount(input) - 1)
    <3> DEFINE lanes == Lanes(bits)
    <3>1. lanes \in Nat /\ l \in 0..(lanes - 1)
      BY DEF InputFacts
    <3>2. BasesCount(input) = Chunks * lanes + IF input.count % 1024 # 0 THEN 1 ELSE 0
      BY DEF BasesCount, Chunks
    <3> HIDE DEF lanes
    <3>3. c * lanes + lanes <= Chunks * lanes /\ c * lanes \in Nat /\ Chunks * lanes \in Nat
      <4>1. c + 1 <= Chunks
        BY <1>1
      <4>2. (c + 1) * lanes <= Chunks * lanes
        BY <1>1, <3>1, <4>1, SMT
      <4> QED BY <1>1, <3>1, <4>2, SMT
    <3> DEFINE x == c * lanes
               y == Chunks * lanes
    <3>4. x + lanes <= y /\ x \in Nat /\ y \in Nat
      BY <3>3
    <3>5. BasesCount(input) \in Int /\ y <= BasesCount(input)
      BY <3>2, <3>4
    <3> HIDE DEF x, y
    <3>6. x + l \in 0..(BasesCount(input) - 1)
      BY <3>1, <3>4, <3>5
    <3> QED BY <3>6 DEF x, lanes
  <2>2. ASSUME NEW k \in 0..n PROVE d[k] \in Int
    <3> DEFINE i == Index(k, l)
               total == Chunks
               count == input.count
    <3>1. i \in 0..1023
      <4>1. i \in Places
        BY <1>2
      <4> QED BY <4>1 DEF Places
    <3>2. count \in Nat /\ total * 1024 <= count /\ total \in Nat /\ c \in Nat /\ c + 1 <= total
      BY <1>1 DEF InputFacts
    <3> HIDE DEF i, total, count
    <3>3. c * 1024 + i \in 0..(count - 1)
      BY <3>1, <3>2
    <3>4. d[k] = Delta[c * 1024 + Index(k, l)]
      BY <1>1
    <3> QED BY <3>3, <3>4 DEF InputFacts, i, count
  <2>3. base \in Int
    BY <2>1 DEF InputFacts
  <2> QED BY <2>2, <2>3
<1>12. Running(base, d)[row] = Total(base, e)[row] % Modulus
  <2>1. DOMAIN d = 0..n
    BY <1>1
  <2> HIDE DEF d, e, base, n
  <2> QED BY <1>1, <1>10, <1>11, <2>1, RunningIsTotal
<1>13. LaneSums(c, l) = Running(base, d)
  BY DEF LaneSums
<1> QED BY <1>9, <1>12, <1>13, SMTT(60)

\* The sums of the rows past the last whole block.
TailSums ==
  Running(Base[BasesCount(input) - 1],
          [k \in 0..((input.count % 1024) - 1) |-> Delta[Chunks * 1024 + k]])

LEMMA TailIsRowValue ==
  ASSUME InputFacts, NEW r \in (Chunks * 1024)..(input.count - 1)
  PROVE  RowValue(r) = TailSums[r - Chunks * 1024]
<1> DEFINE first == Chunks * 1024
           n == (input.count % 1024) - 1
           m == r - first
           base == Base[BasesCount(input) - 1]
           d == [k \in 0..n |-> Delta[first + k]]
           e == [k \in 0..m |-> Delta[first + k]]
<1>1. /\ Chunks \in Nat /\ input.count \in Nat /\ input.count % 1024 \in 0..1023
      /\ input.count % 1024 = input.count - Chunks * 1024
  BY DEF InputFacts
<1>2. /\ first \in Nat /\ r \in Nat /\ m \in 0..n /\ n \in Nat /\ n < 1023
      /\ first <= r /\ r < first + 1024 /\ first + n = input.count - 1
  BY <1>1
<1>3. r \div 1024 = Chunks
  <2>1. InBlock(r, Chunks)
    BY <1>1, <1>2, BlockOfRow
  <2> QED BY <2>1 DEF InBlock
<1>4. BasesCount(input) - 1 = Chunks * Lanes(input.bits) /\ BasesCount(input) - 1 \in 0..(BasesCount(input) - 1)
  <2> DEFINE x == Chunks * Lanes(input.bits)
  <2>1. BasesCount(input) = x + 1
    BY <1>1, <1>2 DEF BasesCount, Chunks
  <2>2. x \in Nat
    <3>1. Lanes(input.bits) \in Nat
      BY DEF InputFacts
    <3> QED BY <1>1, <3>1
  <2> HIDE DEF x
  <2>3. BasesCount(input) - 1 = x /\ BasesCount(input) - 1 \in 0..(BasesCount(input) - 1)
    BY <2>1, <2>2
  <2> QED BY <2>3 DEF x
<1>5. RowValue(r) = Total(base, e)[m] % Modulus
  <2>1. ~(r \div 1024 < Chunks)
    BY <1>1, <1>3
  <2> QED BY <1>4, <2>1 DEF RowValue
<1>6. base \in Int /\ \A k \in 0..n : d[k] \in Int
  <2>1. base \in Int
    BY <1>4 DEF InputFacts
  <2>2. ASSUME NEW k \in 0..n PROVE d[k] \in Int
    <3>1. first + k \in 0..(input.count - 1)
      <4> HIDE DEF first, n
      <4> QED BY <1>2
    <3> QED BY <3>1 DEF InputFacts
  <2> QED BY <2>1, <2>2
<1>7. Running(base, d)[m] = Total(base, e)[m] % Modulus
  <2>1. DOMAIN d = 0..n /\ DOMAIN e = 0..m
    OBVIOUS
  <2>2. ASSUME NEW k \in 0..m PROVE e[k] = d[k]
    <3>1. k \in 0..n
      <4> HIDE DEF n, m
      <4> QED BY <1>2
    <3> QED BY <3>1
  <2> HIDE DEF d, e, base, n, m
  <2>3. n \in Nat /\ m \in 0..n
    BY <1>2
  <2>4. \A k \in 0..n : d[k] \in Int
    BY <1>6
  <2>5. \A k \in 0..m : e[k] = d[k]
    BY <2>2
  <2> QED BY <1>6, <2>1, <2>3, <2>4, <2>5, RunningIsTotal
<1>8. TailSums = Running(base, d)
  BY DEF TailSums
<1> QED BY <1>5, <1>7, <1>8

-----------------------------------------------------------------------------
(* Decoding deltas.  Lanes that are done are in the scratch block; blocks  *)
(* that are done are in the rows of the slice.                             *)

LaneStored(l) ==
  \A row \in Rows : block[Transpose(Index(row, l))] = LaneSums(chunk, l)[row]

RowsBelow(last) ==
  /\ DOMAIN out = 0..(Length - 1) /\ DOMAIN valid \subseteq 0..(Length - 1)
  /\ \A i \in 0..(Length - 1) : Off + i < last => out[i] = RowValue(Off + i)
  /\ \A i \in DOMAIN valid : Off + i < last => valid[i] = RowValid(Off + i)

Summing ==
  /\ input \in Inputs
  /\ input.enc = "delta" =>
       /\ pc \in {"start", "lanes", "copy", "tail", "done", "refused"}
       /\ pc = "start" => chunk = 0 /\ lane = 0
       /\ pc \in {"start", "lanes", "copy"} => DOMAIN block = Places
       /\ pc \in {"lanes", "copy", "tail", "done"} => Off + Length <= input.count
       /\ pc = "lanes" =>
            /\ chunk \in 0..(Chunks - 1) /\ lane \in 0..(Lanes(input.bits) - 1)
            /\ \A l \in 0..(lane - 1) : LaneStored(l)
       /\ pc = "copy" =>
            /\ chunk \in 0..(Chunks - 1) /\ lane = 0
            /\ \A l \in 0..(Lanes(input.bits) - 1) : LaneStored(l)
       /\ pc \in {"lanes", "copy"} => RowsBelow(chunk * 1024)
       /\ pc = "tail" => RowsBelow(Chunks * 1024)
       /\ pc = "done" => RowsBelow(input.count)

LEMMA SummingBegins == Init => Summing
  BY DEF Init, Summing, Places

LEMMA SummingSums == Summing => SumsItsRun
<1> SUFFICES ASSUME Summing, input.enc = "delta", pc = "done"
             PROVE  /\ \A i \in 0..(Length - 1) : out[i] = RowValue(Off + i)
                    /\ \A i \in DOMAIN valid : valid[i] = RowValid(Off + i)
  BY DEF SumsItsRun
<1>1. RowsBelow(input.count) /\ Off + Length <= input.count
  BY DEF Summing
<1>2. Off \in Nat /\ Length \in Nat /\ input.count \in Nat
  <2>1. InputFacts
    BY InputsAre DEF Summing
  <2> QED BY <2>1 DEF InputFacts
<1>3. \A i \in 0..(Length - 1) : Off + i < input.count
  BY <1>1, <1>2
<1> QED BY <1>1, <1>3 DEF RowsBelow

LEMMA BeginsSumming ==
  ASSUME Summing, input.enc = "delta", DeltaBegins
  PROVE  Summing'
<1>1. /\ input \in Inputs /\ pc = "start" /\ chunk = 0 /\ lane = 0 /\ DOMAIN block = Places
      /\ input' = input /\ chunk' = chunk /\ lane' = lane /\ block' = block
  BY DEF Summing, DeltaBegins, Start
<1>2. /\ Off \in Nat /\ Length \in Nat /\ input.count \in Nat /\ Chunks \in Nat
      /\ Lanes(input.bits) \in 1..128
  <2>1. InputFacts
    BY <1>1, InputsAre
  <2> QED BY <2>1 DEF InputFacts
<1>3. CASE pc' = "refused"
  BY <1>1, <1>3 DEF Summing
<1>4. CASE pc' # "refused"
  <2>1. /\ Off + Length <= input.count
        /\ pc' = IF Chunks > 0 THEN "lanes" ELSE "tail"
        /\ out' = [i \in 0..(Length - 1) |-> 0]
        /\ valid' = [i \in IF input.nullable THEN 0..(Length - 1) ELSE {} |-> TRUE]
    BY <1>2, <1>4 DEF DeltaBegins
  <2>2. Length' = Length /\ Off' = Off /\ Chunks' = Chunks
    BY <1>1 DEF Length, Off, Chunks
  <2>3. DOMAIN out' = 0..(Length - 1) /\ DOMAIN valid' \subseteq 0..(Length - 1)
    BY <2>1
  <2>4. ASSUME NEW last, last' = 0, NEW i \in 0..(Length - 1)
        PROVE  ~(Off + i < 0)
    BY <1>2
  <2>5. CASE Chunks > 0
    <3>1. pc' = "lanes" /\ chunk' = 0 /\ lane' = 0
      BY <1>1, <2>1, <2>5
    <3>2. RowsBelow(chunk * 1024)'
      BY <1>1, <1>2, <2>2, <2>3 DEF RowsBelow
    <3>3. (\A l \in 0..(lane - 1) : LaneStored(l))'
      BY <3>1
    <3>4. (chunk \in 0..(Chunks - 1) /\ lane \in 0..(Lanes(input.bits) - 1))'
      BY <1>1, <1>2, <2>2, <2>5, <3>1
    <3> QED BY <1>1, <2>1, <2>2, <3>1, <3>2, <3>3, <3>4 DEF Summing
  <2>6. CASE ~(Chunks > 0)
    <3>1. pc' = "tail" /\ Chunks = 0
      BY <1>2, <2>1, <2>6
    <3>2. RowsBelow(Chunks * 1024)'
      BY <1>1, <1>2, <2>2, <2>3, <3>1 DEF RowsBelow
    <3> QED BY <1>1, <2>1, <2>2, <3>1, <3>2 DEF Summing
  <2> QED BY <2>5, <2>6
<1> QED BY <1>3, <1>4

\* What a lane stores where, and that it leaves the rest of the block alone.
LEMMA LaneStores ==
  ASSUME InputFacts, DeltaLane, DOMAIN block = Places, lane \in 0..(Lanes(input.bits) - 1)
  PROVE  /\ DOMAIN block' = Places
         /\ \A row \in Rows : block'[Transpose(Index(row, lane))] = LaneSums(chunk, lane)[row]
         /\ \A l \in 0..(Lanes(input.bits) - 1), row \in Rows :
              l # lane => block'[Transpose(Index(row, l))] = block[Transpose(Index(row, l))]
<1> DEFINE sum == LaneSums(chunk, lane)
           target == [row \in Rows |-> Transpose(Index(row, lane))]
           T == {target[row] : row \in Rows}
           stored == [t \in T |-> sum[CHOOSE row \in Rows : target[row] = t]]
<1>1. block' = Overwritten(block, stored)
  BY DEF DeltaLane, LaneSums, LaneBase
<1>2. ASSUME NEW l \in 0..(Lanes(input.bits) - 1), NEW row \in Rows
      PROVE  /\ Transpose(Index(row, l)) \in Places
             /\ Lane(Place[Transpose(Index(row, l))], input.bits) = l
             /\ Row(Place[Transpose(Index(row, l))], input.bits) = row
  <2>1. input.bits \in Widths /\ row \in 0..(input.bits - 1)
    BY DEF InputFacts, Rows
  <2> DEFINE idx == Index(row, l)
  <2>2. idx \in Places
    BY <2>1, IndexInBlock, SMTT(60)
  <2>3. Transpose(idx) \in Places /\ Place[Transpose(idx)] = idx
    <3>1. InPlace(idx)
      BY <2>2, PlaceIs
    <3> QED BY <3>1 DEF InPlace
  <2>4. Lane(Index(row, l), input.bits) = l /\ Row(Index(row, l), input.bits) = row
    BY <2>1, PlaceOfRowAndLane
  <2> QED BY <2>3, <2>4
<1>3. T \subseteq Places
  BY <1>2
<1>4. DOMAIN block' = Places
  BY <1>1, <1>3 DEF Overwritten
<1>5. ASSUME NEW row \in Rows
      PROVE  block'[Transpose(Index(row, lane))] = sum[row]
  <2> DEFINE t == Transpose(Index(row, lane))
             r == CHOOSE k \in Rows : target[k] = t
  <2>1. t \in T /\ target[row] = t
    OBVIOUS
  <2>2. r \in Rows /\ target[r] = t
    BY <2>1
  <2>3. block'[t] = sum[r]
    <3>1. stored[t] = sum[r]
      BY <2>1
    <3>2. t \in DOMAIN block
      <4> HIDE DEF t, T
      <4> QED BY <1>3, <2>1
    <3>3. DOMAIN stored = T
      OBVIOUS
    <3> HIDE DEF stored, r, sum, t, T
    <3> QED BY <1>1, <2>1, <3>1, <3>2, <3>3 DEF Overwritten
  <2> HIDE DEF r
  <2>4. Transpose(Index(r, lane)) = Transpose(Index(row, lane))
    BY <2>2
  <2>5. Row(Place[Transpose(Index(r, lane))], input.bits) = r /\ Row(Place[Transpose(Index(row, lane))], input.bits) = row
    BY <1>2, <2>2
  <2>6. r = row
    BY <2>4, <2>5
  <2> QED BY <2>3, <2>6
<1>6. ASSUME NEW l \in 0..(Lanes(input.bits) - 1), NEW row \in Rows, l # lane
      PROVE  block'[Transpose(Index(row, l))] = block[Transpose(Index(row, l))]
  <2> DEFINE t == Transpose(Index(row, l))
  <2>1. t \notin T
    <3> SUFFICES ASSUME NEW k \in Rows, t = Transpose(Index(k, lane)) PROVE FALSE
      OBVIOUS
    <3>1. Lane(Place[Transpose(Index(k, lane))], input.bits) = lane /\ Lane(Place[Transpose(Index(row, l))], input.bits) = l
      BY <1>2
    <3> QED BY <1>6, <3>1
  <2>2. t \in Places
    BY <1>2
  <2> QED BY <1>1, <2>1, <2>2 DEF Overwritten
<1> QED BY <1>4, <1>5, <1>6

LEMMA SameRows ==
  ASSUME input' = input
  PROVE  /\ Length' = Length /\ Off' = Off /\ Chunks' = Chunks /\ Rows' = Rows
         /\ \A i : RowValue(Off + i)' = RowValue(Off + i)
         /\ \A i : RowValid(Off + i)' = RowValid(Off + i)
         /\ \A c, l : LaneSums(c, l)' = LaneSums(c, l)
<1>1. Length' = Length /\ Off' = Off /\ Chunks' = Chunks /\ Rows' = Rows
  BY DEF Length, Off, Chunks, Rows
<1>2. \A i : RowValue(Off + i)' = RowValue(Off + i)
  BY DEF RowValue, Chunks, Off
<1>3. \A i : RowValid(Off + i)' = RowValid(Off + i)
  BY DEF RowValid, Chunks, Off
<1>4. \A c, l : LaneSums(c, l)' = LaneSums(c, l)
  BY DEF LaneSums, Rows
<1> QED BY <1>1, <1>2, <1>3, <1>4

\* Rows of the slice from a to b - 1 are assigned, and right.
LEMMA RowsExtend ==
  ASSUME InputFacts, input' = input, NEW a \in Nat, NEW b \in Nat, RowsBelow(a), NEW f, NEW g,
         out' = Overwritten(out, f), valid' = Overwritten(valid, g),
         DOMAIN f = Within(a, b), DOMAIN g = Within(a, b),
         \A i \in Within(a, b) : f[i] = RowValue(Off + i) /\ g[i] = RowValid(Off + i)
  PROVE  RowsBelow(b)'
<1>1. /\ DOMAIN out = 0..(Length - 1) /\ DOMAIN valid \subseteq 0..(Length - 1)
      /\ \A i \in 0..(Length - 1) : Off + i < a => out[i] = RowValue(Off + i)
      /\ \A i \in DOMAIN valid : Off + i < a => valid[i] = RowValid(Off + i)
  BY DEF RowsBelow
<1>2. DOMAIN out' = DOMAIN out /\ DOMAIN valid' = DOMAIN valid
  BY DEF Overwritten
<1>3. Off \in Nat /\ Length \in Nat
  BY DEF InputFacts
<1>4. ASSUME NEW i \in 0..(Length - 1), Off + i < b
      PROVE  i \notin Within(a, b) => Off + i < a
  BY <1>3, <1>4 DEF Within
<1>5. ASSUME NEW i \in 0..(Length - 1), Off + i < b
      PROVE  out'[i] = RowValue(Off + i)
  <2>1. CASE i \in Within(a, b)
    BY <1>1, <2>1 DEF Overwritten
  <2>2. CASE i \notin Within(a, b)
    BY <1>1, <1>4, <1>5, <2>2 DEF Overwritten
  <2> QED BY <2>1, <2>2
<1>6. ASSUME NEW i \in DOMAIN valid, Off + i < b
      PROVE  valid'[i] = RowValid(Off + i)
  <2>1. CASE i \in Within(a, b)
    BY <1>1, <2>1 DEF Overwritten
  <2>2. CASE i \notin Within(a, b)
    BY <1>1, <1>4, <1>6, <2>2 DEF Overwritten
  <2> QED BY <2>1, <2>2
<1>7. Length' = Length /\ Off' = Off
  BY SameRows
<1>8. /\ \A i : RowValue(Off + i)' = RowValue(Off + i)
      /\ \A i : RowValid(Off + i)' = RowValid(Off + i)
  BY SameRows
<1>9. DOMAIN out' = 0..(Length' - 1) /\ DOMAIN valid' \subseteq 0..(Length' - 1)
  BY <1>1, <1>2, <1>7
<1>10. \A i \in 0..(Length' - 1) : Off' + i < b => out'[i] = RowValue(Off + i)'
  BY <1>5, <1>7, <1>8
<1>11. \A i \in DOMAIN valid' : Off' + i < b => valid'[i] = RowValid(Off + i)'
  BY <1>1, <1>2, <1>6, <1>7, <1>8
<1> QED BY <1>9, <1>10, <1>11 DEF RowsBelow

LEMMA LaneSumming ==
  ASSUME Summing, input.enc = "delta", DeltaLane
  PROVE  Summing'
<1> DEFINE lanes == Lanes(input.bits)
<1>1. /\ input \in Inputs /\ pc = "lanes" /\ DOMAIN block = Places /\ Off + Length <= input.count
      /\ chunk \in 0..(Chunks - 1) /\ lane \in 0..(lanes - 1)
      /\ \A l \in 0..(lane - 1) : LaneStored(l)
      /\ RowsBelow(chunk * 1024)
  BY DEF Summing, DeltaLane
<1>2. /\ input' = input /\ chunk' = chunk /\ out' = out /\ valid' = valid
      /\ lane' = (lane + 1) % lanes /\ pc' = IF lane' = 0 THEN "copy" ELSE "lanes"
  BY DEF DeltaLane
<1>3. InputFacts
  BY <1>1, InputsAre
<1>4. /\ DOMAIN block' = Places
      /\ \A row \in Rows : block'[Transpose(Index(row, lane))] = LaneSums(chunk, lane)[row]
      /\ \A l \in 0..(lanes - 1), row \in Rows :
           l # lane => block'[Transpose(Index(row, l))] = block[Transpose(Index(row, l))]
  BY <1>1, <1>3, LaneStores
<1>5. lanes \in 1..128
  BY <1>3 DEF InputFacts
<1>6. ASSUME NEW l \in 0..lane PROVE LaneStored(l)'
  <2>1. l \in 0..(lanes - 1)
    BY <1>1, <1>5
  <2>2. ASSUME NEW row \in Rows PROVE block'[Transpose(Index(row, l))] = LaneSums(chunk, l)[row]
    <3>1. CASE l = lane
      BY <1>4, <3>1
    <3>2. CASE l # lane
      <4>1. LaneStored(l)
        BY <1>1, <1>5, <3>2
      <4>2. block'[Transpose(Index(row, l))] = block[Transpose(Index(row, l))]
        BY <1>4, <2>1, <3>2
      <4> QED BY <4>1, <4>2 DEF LaneStored
    <3> QED BY <3>1, <3>2
  <2>3. Rows' = Rows /\ LaneSums(chunk, l)' = LaneSums(chunk, l)
    BY <1>2 DEF Rows, LaneSums
  <2> QED BY <1>2, <2>2, <2>3 DEF LaneStored
<1>7. RowsBelow(chunk * 1024)'
  BY <1>1, <1>2, SameRows DEF RowsBelow
<1>8. Off' + Length' <= input'.count /\ Chunks' = Chunks /\ Lanes(input'.bits) = lanes
  BY <1>1, <1>2, SameRows
<1>9. CASE lane + 1 < lanes
  <2>1. lane' = lane + 1 /\ pc' = "lanes"
    <3>1. (lane + 1) % lanes = lane + 1 /\ lane + 1 # 0
      <4> HIDE DEF lanes
      <4> QED BY <1>1, <1>5, <1>9
    <3> QED BY <1>2, <3>1
  <2>2. (\A l \in 0..(lane - 1) : LaneStored(l))'
    BY <1>1, <1>6, <2>1
  <2> QED BY <1>1, <1>2, <1>4, <1>5, <1>7, <1>8, <1>9, <2>1, <2>2 DEF Summing
<1>10. CASE ~(lane + 1 < lanes)
  <2>1. lane + 1 = lanes /\ lane' = 0 /\ pc' = "copy"
    <3>1. lane + 1 = lanes
      BY <1>1, <1>5, <1>10
    <3>2. lanes % lanes = 0
      BY <1>5
    <3> QED BY <1>2, <3>1, <3>2
  <2>2. (\A l \in 0..(Lanes(input.bits) - 1) : LaneStored(l))'
    BY <1>1, <1>5, <1>6, <1>8, <2>1
  <2> QED BY <1>1, <1>2, <1>4, <1>7, <1>8, <2>1, <2>2 DEF Summing
<1> QED BY <1>9, <1>10

LEMMA CopySumming ==
  ASSUME Summing, input.enc = "delta", DeltaCopy
  PROVE  Summing'
<1> DEFINE lanes == Lanes(input.bits)
           first == chunk * 1024
           last == (chunk + 1) * 1024
           rows == Within(first, last)
           f == [i \in rows |-> block[Off + i - first]]
           g == [i \in rows |-> DeltaValid[first + Transpose(Off + i - first)]]
<1>1. /\ input \in Inputs /\ pc = "copy" /\ DOMAIN block = Places /\ Off + Length <= input.count
      /\ chunk \in 0..(Chunks - 1) /\ lane = 0
      /\ \A l \in 0..(lanes - 1) : LaneStored(l)
      /\ RowsBelow(first)
  BY DEF Summing, DeltaCopy
<1>2. /\ input' = input /\ chunk' = chunk + 1 /\ lane' = lane /\ block' = block
      /\ out' = Overwritten(out, f) /\ valid' = Overwritten(valid, g)
      /\ pc' = IF chunk' < Chunks THEN "lanes" ELSE "tail"
  BY DEF DeltaCopy
<1>3. InputFacts
  BY <1>1, InputsAre
<1>4. Off \in Nat /\ Length \in Nat /\ Chunks \in Nat /\ chunk \in Nat /\ lanes \in 1..128 /\ input.bits \in Widths
  BY <1>1, <1>3 DEF InputFacts
<1>5. ASSUME NEW i \in rows
      PROVE  f[i] = RowValue(Off + i) /\ g[i] = RowValid(Off + i)
  <2> DEFINE r == Off + i
             t == Off + i - first
  <2>1. i \in Nat /\ r \in Nat /\ t \in Places /\ r = first + t /\ first <= r /\ r < first + 1024
    BY <1>4 DEF Within, Places
  <2>2. r \div 1024 = chunk /\ r % 1024 = t
    <3> HIDE DEF r
    <3>1. InBlock(r, chunk)
      BY <1>4, <2>1, BlockOfRow
    <3>2. r - chunk * 1024 = t
      BY <1>4, <2>1
    <3> HIDE DEF t
    <3> QED BY <3>1, <3>2 DEF InBlock
  <2>5. f[i] = block[t] /\ g[i] = DeltaValid[first + Transpose(t)]
    <3> HIDE DEF rows
    <3>1. f[i] = block[t]
      OBVIOUS
    <3>2. g[i] = DeltaValid[first + Transpose(t)]
      OBVIOUS
    <3> QED BY <3>1, <3>2
  <2>3. f[i] = RowValue(r)
    <3> HIDE DEF r, t, f
    <3>1. PICK l \in 0..(lanes - 1), row \in 0..(input.bits - 1) : Transpose(Index(row, l)) = t
      <4>1. IsStored(t, input.bits)
        BY <1>4, <2>1, StoredByLane
      <4> QED BY <4>1 DEF IsStored
    <3>2. row \in Rows
      BY <3>1 DEF Rows
    <3>3. block[t] = LaneSums(chunk, l)[row]
      <4>1. LaneStored(l)
        BY <1>1, <3>1
      <4>2. block[Transpose(Index(row, l))] = LaneSums(chunk, l)[row]
        BY <3>2, <4>1 DEF LaneStored
      <4> QED BY <3>1, <4>2
    <3>4. RowValue(chunk * 1024 + Transpose(Index(row, l))) = LaneSums(chunk, l)[row]
      BY <1>1, <1>3, <3>1, <3>2, LaneIsRowValue
    <3>5. RowValue(r) = block[t]
      BY <2>1, <3>1, <3>3, <3>4
    <3> QED BY <2>5, <3>5
  <2>4. g[i] = RowValid(r)
    <3> HIDE DEF r, t, g
    <3>1. chunk < Chunks
      BY <1>1, <1>4
    <3>2. RowValid(r) = DeltaValid[chunk * 1024 + Transpose(t)]
      BY <2>2, <3>1 DEF RowValid
    <3> QED BY <2>5, <3>2
  <2> QED BY <2>3, <2>4
<1>6. ASSUME NEW b, b = last PROVE RowsBelow(b)'
  <2>1. first \in Nat /\ b \in Nat /\ DOMAIN f = Within(first, b) /\ DOMAIN g = Within(first, b)
    BY <1>4, <1>6
  <2>2. \A i \in Within(first, b) : f[i] = RowValue(Off + i) /\ g[i] = RowValid(Off + i)
    <3> HIDE DEF f, g
    <3> QED BY <1>5, <1>6
  <2> HIDE DEF first, f, g
  <2> QED BY <1>1, <1>2, <1>3, <2>1, <2>2, RowsExtend
<1>7. Off' + Length' <= input'.count /\ Chunks' = Chunks /\ Lanes(input'.bits) = lanes
  BY <1>1, <1>2, SameRows
<1>8. CASE chunk + 1 < Chunks
  <2>1. pc' = "lanes" /\ chunk' \in 0..(Chunks - 1)
    BY <1>2, <1>4, <1>8
  <2>2. (\A l \in 0..(lane - 1) : LaneStored(l))'
    BY <1>1, <1>2
  <2>3. RowsBelow(chunk * 1024)'
    <3>1. PICK b : b = last /\ b = chunk' * 1024
      BY <1>2
    <3>2. RowsBelow(b)'
      BY <1>6, <3>1
    <3> HIDE DEF last
    <3> QED BY <3>1, <3>2 DEF RowsBelow
  <2> QED BY <1>1, <1>2, <1>4, <1>7, <2>1, <2>2, <2>3 DEF Summing
<1>9. CASE ~(chunk + 1 < Chunks)
  <2>1. pc' = "tail" /\ chunk + 1 = Chunks
    BY <1>1, <1>2, <1>4, <1>9
  <2>2. RowsBelow(Chunks * 1024)'
    <3>1. PICK b : b = last /\ b = Chunks' * 1024
      BY <1>7, <2>1
    <3>2. RowsBelow(b)'
      BY <1>6, <3>1
    <3> HIDE DEF last
    <3> QED BY <3>1, <3>2 DEF RowsBelow
  <2> QED BY <1>1, <1>2, <1>7, <2>1, <2>2 DEF Summing
<1> QED BY <1>8, <1>9

LEMMA TailSumming ==
  ASSUME Summing, input.enc = "delta", DeltaTail
  PROVE  Summing'
<1> DEFINE first == Chunks * 1024
           last == input.count
           rows == Within(first, last)
           f == [i \in rows |-> TailSums[Off + i - first]]
           g == [i \in rows |-> DeltaValid[Off + i]]
<1>1. /\ input \in Inputs /\ pc = "tail" /\ Off + Length <= input.count /\ RowsBelow(first)
  BY DEF Summing, DeltaTail
<1>2. input' = input /\ pc' = "done"
  BY DEF DeltaTail
<1>3. InputFacts
  BY <1>1, InputsAre
<1>4. /\ Off \in Nat /\ Length \in Nat /\ Chunks \in Nat /\ last \in Nat
      /\ input.count % 1024 \in 0..1023 /\ input.count % 1024 = input.count - Chunks * 1024
  BY <1>3 DEF InputFacts
<1>5. ASSUME NEW b, b = last PROVE RowsBelow(b)'
  <2>1. CASE ~Remainder
    <3>1. out' = out /\ valid' = valid
      BY <2>1 DEF DeltaTail
    <3>2. first = last
      BY <1>4, <2>1 DEF Remainder
    <3>3. RowsBelow(b)
      BY <1>1, <1>5, <3>2
    <3> HIDE DEF last
    <3> QED BY <1>2, <3>1, <3>3, SameRows DEF RowsBelow
  <2>2. CASE Remainder
    <3>1. out' = Overwritten(out, f) /\ valid' = Overwritten(valid, g)
      BY <2>2 DEF DeltaTail, TailSums
    <3>2. ASSUME NEW i \in rows
          PROVE  f[i] = RowValue(Off + i) /\ g[i] = RowValid(Off + i)
      <4> DEFINE r == Off + i
      <4>1. r \in first..(last - 1) /\ r \in Nat /\ first <= r /\ r < first + 1024
        BY <1>4 DEF Within
      <4>4. f[i] = TailSums[r - first] /\ g[i] = DeltaValid[r]
        <5>1. Off + i - first = r - first
          BY <1>4 DEF Within
        <5>2. f[i] = TailSums[Off + i - first] /\ g[i] = DeltaValid[r]
          <6> HIDE DEF rows, first
          <6> QED OBVIOUS
        <5> HIDE DEF f, g, r, rows
        <5> QED BY <5>1, <5>2
      <4>2. RowValue(r) = TailSums[r - first]
        <5> HIDE DEF r
        <5> QED BY <1>3, <4>1, TailIsRowValue
      <4>3. RowValid(r) = DeltaValid[r]
        <5> HIDE DEF r
        <5>1. InBlock(r, Chunks)
          BY <1>4, <4>1, BlockOfRow
        <5>2. ~(r \div 1024 < Chunks)
          BY <1>4, <5>1 DEF InBlock
        <5> QED BY <5>2 DEF RowValid
      <4> HIDE DEF f, g, r, first
      <4> QED BY <4>2, <4>3, <4>4 DEF r
    <3>3. first \in Nat /\ b \in Nat /\ DOMAIN f = Within(first, b) /\ DOMAIN g = Within(first, b)
      BY <1>4, <1>5
    <3>4. \A i \in Within(first, b) : f[i] = RowValue(Off + i) /\ g[i] = RowValid(Off + i)
      <4> HIDE DEF f, g
      <4> QED BY <1>5, <3>2
    <3> HIDE DEF first, f, g
    <3> QED BY <1>1, <1>2, <1>3, <3>1, <3>3, <3>4, RowsExtend
  <2> QED BY <2>1, <2>2
<1>6. Off' + Length' <= input'.count
  BY <1>1, <1>2, SameRows
<1>7. RowsBelow(input.count)'
  <2>1. PICK b : b = last /\ b = input'.count
    BY <1>2
  <2>2. RowsBelow(b)'
    BY <1>5, <2>1
  <2> HIDE DEF last
  <2> QED BY <2>1, <2>2 DEF RowsBelow
<1> QED BY <1>1, <1>2, <1>6, <1>7 DEF Summing

LEMMA SummingHolds == Spec => []Summing
<1>1. Summing /\ [Next]_vars => Summing'
  <2> SUFFICES ASSUME Summing, [Next]_vars PROVE Summing'
    OBVIOUS
  <2>1. CASE input.enc # "delta"
    <3>1. input' = input
      BY DEF Next, vars, Unpack, DeltaBegins, DeltaLane, DeltaCopy, DeltaTail
    <3> QED BY <2>1, <3>1 DEF Summing
  <2>2. CASE input.enc = "delta"
    <3>1. CASE Unpack
      BY <2>2, <3>1 DEF Unpack, Start
    <3>2. CASE DeltaBegins
      BY <2>2, <3>2, BeginsSumming
    <3>3. CASE DeltaLane
      BY <2>2, <3>3, LaneSumming
    <3>4. CASE DeltaCopy
      BY <2>2, <3>4, CopySumming
    <3>5. CASE DeltaTail
      BY <2>2, <3>5, TailSumming
    <3>6. CASE UNCHANGED vars
      <4>1. /\ input' = input /\ pc' = pc /\ chunk' = chunk /\ lane' = lane
            /\ block' = block /\ out' = out /\ valid' = valid
        BY <3>6 DEF vars
      <4>2. Chunks' = Chunks /\ Off' = Off /\ Length' = Length
        BY <4>1, SameRows
      <4>3. \A last : RowsBelow(last) => RowsBelow(last)'
        BY <4>1, SameRows DEF RowsBelow
      <4>4. \A l : LaneStored(l) => LaneStored(l)'
        BY <4>1, SameRows DEF LaneStored
      <4> QED BY <4>1, <4>2, <4>3, <4>4 DEF Summing
    <3> QED BY <3>1, <3>2, <3>3, <3>4, <3>5, <3>6 DEF Next
  <2> QED BY <2>1, <2>2
<1> QED BY <1>1, SummingBegins, PTL DEF Spec

(* A decoder of deltas yields for each row of its slice the sum of its run, *)
(* and the validity stored for it, for arrays of any size, every type and  *)
(* every slice.                                                            *)
THEOREM Sums == Spec => []SumsItsRun
  BY SummingHolds, SummingSums, PTL

-----------------------------------------------------------------------------
(* Pcodec, of any streams, and any numbers of lanes, bits and latents.     *)

LEMMA ProductType == ASSUME NEW a \in Nat, NEW b \in Nat PROVE a * b \in Nat
  OBVIOUS

\* What the powers of two are defined to be.
IsPow(f, n) == f = [k \in 0..n |-> IF k = 0 THEN 1 ELSE 2 * f[k - 1]]

LEMMA PowExists == ASSUME NEW n \in Nat PROVE \E f : IsPow(f, n)
<1> DEFINE S == {k \in Nat : \E f : IsPow(f, k)}
<1>1. 0 \in S
  <2> DEFINE f == [i \in 0..0 |-> 1]
  <2>1. f = [i \in 0..0 |-> IF i = 0 THEN 1 ELSE 2 * f[i - 1]]
    OBVIOUS
  <2> HIDE DEF f
  <2> QED BY <2>1 DEF IsPow
<1>2. ASSUME NEW k \in S PROVE k + 1 \in S
  <2>1. PICK f : IsPow(f, k)
    OBVIOUS
  <2> DEFINE new == 2 * f[k]
             g == [i \in 0..(k + 1) |-> IF i = k + 1 THEN new ELSE f[i]]
  <2>2. ASSUME NEW i \in 0..(k + 1)
        PROVE  g[i] = IF i = 0 THEN 1 ELSE 2 * g[i - 1]
    <3>1. CASE i = k + 1
      BY <3>1
    <3>2. CASE i # k + 1
      <4>1. f[i] = IF i = 0 THEN 1 ELSE 2 * f[i - 1]
        BY <2>1, <3>2 DEF IsPow
      <4> QED BY <3>2, <4>1
    <3> QED BY <3>1, <3>2
  <2>3. g = [i \in 0..(k + 1) |-> g[i]]
    OBVIOUS
  <2> HIDE DEF g
  <2>4. IsPow(g, k + 1)
    BY <2>2, <2>3 DEF IsPow
  <2> QED BY <2>4
<1> HIDE DEF S
<1>3. S = Nat
  BY <1>1, <1>2, Induct, S \in SUBSET Nat DEF S
<1> QED BY <1>3 DEF S

LEMMA PowIs == ASSUME NEW n \in Nat PROVE \E f : IsPow(f, n) /\ Pow(n) = f[n]
<1> DEFINE g == CHOOSE f : f = [k \in 0..n |-> IF k = 0 THEN 1 ELSE 2 * f[k - 1]]
<1>1. Pow(n) = g[n]
  BY DEF Pow
<1>2. \E f : f = [k \in 0..n |-> IF k = 0 THEN 1 ELSE 2 * f[k - 1]]
  <2>1. \E f : IsPow(f, n)
    BY PowExists
  <2> QED BY <2>1 DEF IsPow
<1>3. g = [k \in 0..n |-> IF k = 0 THEN 1 ELSE 2 * g[k - 1]]
  BY <1>2
<1> HIDE DEF g
<1> QED BY <1>1, <1>3 DEF IsPow


\* Two to the power of a number, step by step.
LEMMA PowZero == Pow(0) = 1
<1>1. PICK f : IsPow(f, 0) /\ Pow(0) = f[0]
  BY PowIs
<1> QED BY <1>1 DEF IsPow

LEMMA PowNext == ASSUME NEW n \in Nat PROVE Pow(n + 1) = 2 * Pow(n)
<1>1. PICK f : IsPow(f, n) /\ Pow(n) = f[n]
  BY PowIs
<1>2. PICK g : IsPow(g, n + 1) /\ Pow(n + 1) = g[n + 1]
  BY PowIs
<1> DEFINE S == {k \in Nat : k <= n => f[k] = g[k]}
<1>3. 0 \in S
  BY <1>1, <1>2 DEF IsPow
<1>4. ASSUME NEW k \in S PROVE k + 1 \in S
  <2> SUFFICES ASSUME k + 1 <= n PROVE f[k + 1] = g[k + 1]
    OBVIOUS
  <2>1. f[k + 1] = 2 * f[k] /\ g[k + 1] = 2 * g[k]
    BY <1>1, <1>2 DEF IsPow
  <2> QED BY <2>1
<1> HIDE DEF S
<1>5. S = Nat
  BY <1>3, <1>4, Induct, S \in SUBSET Nat DEF S
<1>6. f[n] = g[n]
  BY <1>5 DEF S
<1>7. g[n + 1] = 2 * g[n]
  BY <1>2 DEF IsPow
<1> QED BY <1>1, <1>2, <1>6, <1>7

LEMMA PowType == ASSUME NEW n \in Nat PROVE Pow(n) \in Nat /\ Pow(n) > n
<1> DEFINE S == {k \in Nat : Pow(k) \in Nat /\ Pow(k) > k}
<1>1. 0 \in S
  BY PowZero
<1>2. ASSUME NEW k \in S PROVE k + 1 \in S
  <2>1. Pow(k + 1) = 2 * Pow(k)
    BY PowNext
  <2> QED BY <2>1
<1> HIDE DEF S
<1>3. S = Nat
  BY <1>1, <1>2, Induct, S \in SUBSET Nat DEF S
<1> QED BY <1>3 DEF S

LEMMA TwiceProduct ==
  ASSUME NEW x \in Nat, NEW y \in Nat
  PROVE  x * (2 * y) = 2 * (x * y)
  OBVIOUS

LEMMA PowAdd ==
  ASSUME NEW a \in Nat, NEW b \in Nat
  PROVE  Pow(a + b) = Pow(a) * Pow(b)
<1> DEFINE S == {k \in Nat : Pow(a + k) = Pow(a) * Pow(k)}
<1>1. 0 \in S
  BY PowZero, PowType
<1>2. ASSUME NEW k \in S PROVE k + 1 \in S
  <2>1. Pow(k + 1) = 2 * Pow(k) /\ Pow(a + k + 1) = 2 * Pow(a + k)
    <3>1. a + k \in Nat /\ k \in Nat /\ (a + k) + 1 = a + k + 1
      OBVIOUS
    <3> QED BY <3>1, PowNext
  <2>2. Pow(a) * (2 * Pow(k)) = 2 * (Pow(a) * Pow(k))
    BY PowType, TwiceProduct
  <2>3. Pow(a + k) = Pow(a) * Pow(k) /\ a + (k + 1) = a + k + 1
    OBVIOUS
  <2> QED BY <2>1, <2>2, <2>3
<1> HIDE DEF S
<1>3. S = Nat
  BY <1>1, <1>2, Induct, S \in SUBSET Nat DEF S
<1> QED BY <1>3 DEF S

LEMMA TimesAtLeast ==
  ASSUME NEW x \in Nat, NEW y \in Nat, y > 0
  PROVE  x * y \in Nat /\ x * y >= x
<1>1. x * y = x * (y - 1) + x /\ y - 1 \in Nat
  OBVIOUS
<1>2. x * (y - 1) \in Nat
  BY <1>1, ProductType
<1> DEFINE r == x * (y - 1)
<1> HIDE DEF r
<1>3. x * y = r + x /\ r \in Nat
  BY <1>1, <1>2 DEF r
<1> QED BY <1>3

LEMMA PowGrows ==
  ASSUME NEW a \in Nat, NEW b \in Nat, a <= b
  PROVE  Pow(a) <= Pow(b)
<1>1. b - a \in Nat /\ a + (b - a) = b
  OBVIOUS
<1>2. Pow(b) = Pow(a) * Pow(b - a)
  BY <1>1, PowAdd
<1>3. Pow(a) \in Nat /\ Pow(b - a) \in Nat /\ Pow(b - a) > 0
  BY <1>1, PowType
<1> QED BY <1>2, <1>3, TimesAtLeast

\* The bits of a number: bits.Len.
LEMMA BitLenIs ==
  ASSUME NEW x \in Nat
  PROVE  /\ BitLen(x) \in Nat
         /\ x < Pow(BitLen(x))
         /\ BitLen(x) = 0 \/ Pow(BitLen(x) - 1) <= x
<1> DEFINE IsLen(k) == x < Pow(k) /\ (k = 0 \/ Pow(k - 1) <= x)
           S == {j \in Nat : x < Pow(j) => \E k \in 0..j : IsLen(k)}
<1>1. 0 \in S
  OBVIOUS
<1>2. ASSUME NEW j \in S PROVE j + 1 \in S
  <2> SUFFICES ASSUME x < Pow(j + 1) PROVE \E k \in 0..(j + 1) : IsLen(k)
    OBVIOUS
  <2>1. CASE x < Pow(j)
    BY <2>1
  <2>2. CASE ~(x < Pow(j))
    <3>1. Pow(j) \in Nat /\ (j + 1) - 1 = j /\ j + 1 \in 0..(j + 1)
      BY PowType
    <3>2. IsLen(j + 1)
      BY <2>2, <3>1
    <3> QED BY <3>1, <3>2
  <2> QED BY <2>1, <2>2
<1>3. S \in SUBSET Nat
  OBVIOUS
<1>4. S = Nat
  <2> HIDE DEF S
  <2> QED BY <1>1, <1>2, <1>3, Induct
<1>5. x \in S /\ x < Pow(x)
  BY <1>4, PowType
<1>6. \E k \in 0..(x + 1) : IsLen(k)
  BY <1>5
<1>7. BitLen(x) \in 0..(x + 1) /\ IsLen(BitLen(x))
  BY <1>6 DEF BitLen
<1> QED BY <1>7

\* A factor on each side of a comparison.
LEMMA TimesMonotone ==
  ASSUME NEW x \in Nat, NEW y \in Nat, NEW p \in Nat, x <= y
  PROVE  x * p \in Nat /\ y * p \in Nat /\ x * p <= y * p
<1>1. y * p = x * p + (y - x) * p /\ y - x \in Nat
  OBVIOUS
<1>2. x * p \in Nat /\ (y - x) * p \in Nat
  BY <1>1, ProductType
<1> DEFINE u == x * p
           v == (y - x) * p
<1> HIDE DEF u, v
<1>3. y * p = u + v /\ u \in Nat /\ v \in Nat /\ x * p = u
  BY <1>1, <1>2 DEF u, v
<1> QED BY <1>3

\* The bits that are asked for bring the next state up to the table's size, and
\* not past twice that.
LEMMA ReadFits ==
  ASSUME NEW log \in Nat, NEW next \in Nat, next > 0, next < 2 * Pow(log), NEW weight, NEW read,
         read = ReadOf(Pow(log), next, weight)
  PROVE  /\ read \in Nat
         /\ next * Pow(read) \in Nat
         /\ next * Pow(read) >= Pow(log)
         /\ next * Pow(read) + Pow(read) <= 2 * Pow(log)
<1> DEFINE size == Pow(log)
           l == BitLen(size)
           k == BitLen(next)
<1>1. size \in Nat /\ size > 0 /\ Pow(log + 1) = 2 * size
  BY PowType, PowNext
<1>2. l \in Nat /\ size < Pow(l) /\ (l = 0 \/ Pow(l - 1) <= size)
  BY <1>1, BitLenIs
<1>3. k \in Nat /\ next < Pow(k) /\ (k = 0 \/ Pow(k - 1) <= next)
  BY BitLenIs
<1>4. read = l - k
  BY DEF ReadOf
<1> HIDE DEF l, k
<1>5. k > 0
  BY <1>3, PowZero
<1>6. k <= log + 1
  <2> SUFFICES ASSUME k > log + 1 PROVE FALSE
    BY <1>3
  <2>1. Pow(log + 1) <= Pow(k - 1)
    BY <1>3, PowGrows
  <2>2. Pow(k - 1) \in Nat
    BY <1>3, <1>5, PowType
  <2> QED BY <1>1, <1>3, <1>5, <2>1, <2>2
<1>7. l = log + 1
  <2>1. l > log
    <3> SUFFICES ASSUME l <= log PROVE FALSE
      BY <1>2
    <3>1. Pow(l) <= size
      BY <1>2, PowGrows
    <3> QED BY <1>1, <1>2, <3>1, PowType
  <2>2. l <= log + 1
    <3> SUFFICES ASSUME l > log + 1 PROVE FALSE
      BY <1>2
    <3>1. Pow(log + 1) <= Pow(l - 1) /\ Pow(l - 1) \in Nat
      BY <1>2, PowGrows, PowType
    <3> QED BY <1>1, <1>2, <3>1
  <2> QED BY <1>2, <2>1, <2>2
<1>8. read \in Nat /\ read + k = log + 1 /\ read + (k - 1) = log /\ k - 1 \in Nat
  BY <1>3, <1>4, <1>5, <1>6, <1>7
<1> DEFINE p == Pow(read)
           high == Pow(k)
           low == Pow(k - 1)
<1>9. /\ Pow(log + 1) = p * high /\ size = p * low
      /\ p \in Nat /\ high \in Nat /\ low \in Nat
  BY <1>3, <1>8, PowAdd, PowType
<1>10. next < high /\ low <= next
  BY <1>3, <1>5
<1> HIDE DEF p, high, low
<1>11. low * p <= next * p /\ next * p \in Nat
  BY <1>9, <1>10, TimesMonotone
<1>12. (next + 1) * p <= high * p /\ (next + 1) * p = next * p + p
  <2>1. next + 1 <= high /\ next + 1 \in Nat
    BY <1>9, <1>10
  <2>2. (next + 1) * p <= high * p
    BY <1>9, <2>1, TimesMonotone
  <2>3. (next + 1) * p = next * p + p
    BY <1>9
  <2> QED BY <2>2, <2>3
<1>13. p * low = low * p /\ p * high = high * p
  BY <1>9
<1>14. next * p \in Nat /\ next * p >= size /\ next * p + p <= 2 * size
  BY <1>1, <1>9, <1>11, <1>12, <1>13
<1> QED BY <1>8, <1>14 DEF p

-----------------------------------------------------------------------------
(* Steps of an odd number of places visit each place of the table.         *)

LEMMA DivMod ==
  ASSUME NEW x \in Nat, NEW n \in Nat, n > 0
  PROVE  x \div n \in Int /\ x % n \in 0..(n - 1) /\ x = n * (x \div n) + (x % n)
  BY SMT

LEMMA StrideOdd ==
  ASSUME NEW size \in Nat
  PROVE  Stride(size) \in Nat /\ \E t \in Nat : Stride(size) = 2 * t + 1
<1> DEFINE s == (3 * size) \div 5
<1>1. s \in Nat
  BY SMT
<1>2. Stride(size) = IF s % 2 = 0 THEN s + 1 ELSE s
  BY DEF Stride
<1> HIDE DEF s
<1>3. s \div 2 \in Nat /\ s = 2 * (s \div 2) + (s % 2) /\ s % 2 \in {0, 1}
  BY <1>1, SMT
<1> QED BY <1>1, <1>2, <1>3

\* An odd factor has no part in a power of two.
LEMMA OddDivides ==
  ASSUME NEW t \in Nat, NEW m \in Nat
  PROVE  \A d, q \in Nat : d * (2 * t + 1) = q * Pow(m) => \E e \in Nat : d = e * Pow(m)
<1> DEFINE s == 2 * t + 1
           S == {k \in Nat : \A d, q \in Nat :
                   d * s = q * Pow(k) => \E e \in Nat : d = e * Pow(k)}
<1>1. s \in Nat
  OBVIOUS
<1>2. 0 \in S
  <2>1. ASSUME NEW d \in Nat PROVE d = d * Pow(0)
    BY PowZero
  <2> QED BY <2>1
<1>3. ASSUME NEW k \in S PROVE k + 1 \in S
  <2> DEFINE p == Pow(k)
  <2>1. p \in Nat /\ Pow(k + 1) = 2 * p
    BY PowType, PowNext
  <2>2. \A d, q \in Nat : d * s = q * p => \E e \in Nat : d = e * p
    OBVIOUS
  <2> HIDE DEF p
  <2> DEFINE double == Pow(k + 1)
  <2> HIDE DEF double
  <2>2a. SUFFICES \A d, q \in Nat : d * s = q * double => \E e \in Nat : d = e * double
    BY DEF double
  <2>2b. double = 2 * p
    BY <2>1 DEF double
  <2> SUFFICES ASSUME NEW d \in Nat, NEW q \in Nat, d * s = q * (2 * p)
               PROVE  \E e \in Nat : d = e * (2 * p)
    BY <2>2b
  <2> DEFINE dt == d * t
             qp == q * p
  <2>3. dt \in Nat /\ qp \in Nat
    BY <2>1, ProductType
  <2>4. d * s = 2 * dt + d
    OBVIOUS
  <2>5. q * (2 * p) = 2 * qp
    BY <2>1, TwiceProduct
  <2> DEFINE h == qp - dt
  <2>6. h \in Nat /\ d = 2 * h
    <3> HIDE DEF dt, qp
    <3> QED BY <2>3, <2>4, <2>5
  <2> HIDE DEF h, dt, s
  <2>7. (2 * h) * s = 2 * (h * s) /\ h * s \in Nat
    BY <1>1, <2>6, ProductType
  <2>8. h * s = q * p
    <3> DEFINE hs == h * s
    <3>1. hs \in Nat /\ (2 * h) * s = 2 * hs /\ d * s = (2 * h) * s /\ d * s = 2 * qp
      BY <2>5, <2>6, <2>7
    <3> HIDE DEF hs, qp
    <3>2. hs = qp
      BY <2>3, <3>1
    <3> QED BY <3>2 DEF hs, qp
  <2>9. PICK e \in Nat : h = e * p
    BY <2>2, <2>6, <2>8
  <2>10. e * (2 * p) = 2 * (e * p)
    BY <2>1, TwiceProduct
  <2> QED BY <2>6, <2>9, <2>10
<1> HIDE DEF S
<1>4. S = Nat
  BY <1>2, <1>3, Induct, S \in SUBSET Nat DEF S
<1> QED BY <1>4 DEF S

\* Two steps that meet are one.
LEMMA StepsDiffer ==
  ASSUME NEW m \in Nat, NEW t \in Nat, NEW a \in 0..(Pow(m) - 1), NEW b \in 0..(Pow(m) - 1),
         (a * (2 * t + 1)) % Pow(m) = (b * (2 * t + 1)) % Pow(m), b < a
  PROVE  FALSE
<1> DEFINE s == 2 * t + 1
           size == Pow(m)
           x == a * s
           y == b * s
           d == a - b
<1>1. size \in Nat /\ size > 0 /\ s \in Nat
  BY PowType
<1>2. a \in Nat /\ b \in Nat /\ d \in Nat /\ d > 0 /\ d < size
  BY <1>1
<1>3. x \in Nat /\ y \in Nat /\ d * s \in Nat
  BY <1>1, <1>2, ProductType
<1>4. d * s = x - y
  BY <1>1, <1>2
<1>5. /\ x \div size \in Int /\ x = size * (x \div size) + (x % size)
      /\ y \div size \in Int /\ y = size * (y \div size) + (y % size)
      /\ x % size \in Nat /\ x % size = y % size
  <2>1. size \in Nat /\ size > 0 /\ x \in Nat /\ y \in Nat /\ x % size = y % size
    BY <1>1, <1>3
  <2> HIDE DEF size, x, y
  <2> QED BY <2>1, DivMod
<1> DEFINE u == x \div size
           v == y \div size
           r == x % size
           q == u - v
<1>6. u \in Int /\ v \in Int /\ r \in Nat /\ x = size * u + r /\ y = size * v + r
  BY <1>5
<1>7. size * q = size * u - size * v
  <2> HIDE DEF size, u, v
  <2> QED BY <1>1, <1>6
<1>8. size * q = d * s /\ q \in Int
  <2> DEFINE su == size * u
             sv == size * v
             ds == d * s
  <2>1. su \in Int /\ sv \in Int
    <3> HIDE DEF size, u, v
    <3> QED BY <1>1, <1>6
  <2>2. x = su + r /\ y = sv + r /\ ds = x - y /\ size * q = su - sv
    BY <1>4, <1>6, <1>7
  <2> HIDE DEF su, sv, ds, size, x, y, r
  <2>3. ds = su - sv
    BY <1>6, <2>1, <2>2
  <2> QED BY <1>6, <2>2, <2>3 DEF ds
<1> HIDE DEF size, x, y, d, u, v, r, q, s
<1>9. q \in Nat
  <2> SUFFICES ASSUME q < 0 PROVE FALSE
    BY <1>8
  <2>1. -q \in Nat /\ -q > 0 /\ size * (-q) = -(size * q)
    BY <1>1, <1>8
  <2>2. size * (-q) >= size
    BY <1>1, <2>1, TimesAtLeast
  <2> QED BY <1>1, <1>3, <1>8, <2>1, <2>2
<1>10. d * s = q * size
  BY <1>1, <1>8, <1>9
<1>11. PICK e \in Nat : d = e * size
  BY <1>2, <1>9, <1>10, OddDivides DEF s, size
<1>12. e # 0
  BY <1>1, <1>2, <1>11
<1>13. size * e >= size /\ size * e = e * size
  BY <1>1, <1>12, TimesAtLeast
<1> QED BY <1>1, <1>2, <1>11, <1>13

(* The places that bins take in turn are all the places of the table, each  *)
(* once: the stride is odd, and the size a power of two.                    *)
THEOREM StrideVisitsEachPlace ==
  ASSUME NEW m \in Nat, NEW x \in 0..(Pow(m) - 1)
  PROVE  \E step \in 0..(Pow(m) - 1) :
           /\ (step * Stride(Pow(m))) % Pow(m) = x
           /\ \A other \in 0..(Pow(m) - 1) :
                (other * Stride(Pow(m))) % Pow(m) = x => other = step
<1> DEFINE size == Pow(m)
           s == Stride(size)
           places == 0..(size - 1)
           f == [k \in places |-> (k * s) % size]
<1>1. size \in Nat /\ size > 0
  BY PowType
<1>2. PICK t \in Nat : s = 2 * t + 1
  BY <1>1, StrideOdd
<1>3. ASSUME NEW k \in places PROVE (k * s) % size \in places
  <2>1. k \in Nat /\ s \in Nat
    BY <1>1, <1>2
  <2>2. k * s \in Nat
    BY <2>1, ProductType
  <2> DEFINE ks == k * s
  <2> HIDE DEF ks, size
  <2>3. ks \in Nat
    BY <2>2 DEF ks
  <2>4. ks % size \in 0..(size - 1)
    BY <1>1, <2>3, DivMod
  <2> QED BY <2>4 DEF ks
<1>4. ASSUME NEW a \in places, NEW b \in places, (a * s) % size = (b * s) % size PROVE a = b
  <2>1. ~(b < a)
    BY <1>2, <1>4, StepsDiffer
  <2>2. ~(a < b)
    BY <1>2, <1>4, StepsDiffer
  <2> QED BY <1>1, <2>1, <2>2
<1> HIDE DEF s
<1>5. f \in Injection(places, places)
  BY <1>3, <1>4 DEF Injection, IsInjective
<1>6. IsFiniteSet(places)
  BY <1>1, FS_Interval
<1>7. f \in Surjection(places, places)
  BY <1>5, <1>6, FS_Injection
<1>8. PICK step \in places : f[step] = x
  BY <1>7 DEF Surjection
<1>9. (step * s) % size = x
  BY <1>8
<1> QED BY <1>4, <1>9 DEF s
-----------------------------------------------------------------------------
(* The numbers that are read, and the bins in turn.                        *)

\* What the numbers of the first bits are defined to be, from those bits.
IsNumber(f, bit, n) ==
  f = [i \in 0..n |-> IF i = 0 THEN 0 ELSE bit[i] + 2 * f[i - 1]]

LEMMA NumbersExist ==
  ASSUME NEW bit, NEW n \in Nat
  PROVE  \E f : IsNumber(f, bit, n)
<1> DEFINE S == {k \in Nat : \E f : IsNumber(f, bit, k)}
<1>1. 0 \in S
  <2> DEFINE f == [i \in 0..0 |-> 0]
  <2>1. f = [i \in 0..0 |-> IF i = 0 THEN 0 ELSE bit[i] + 2 * f[i - 1]]
    OBVIOUS
  <2> HIDE DEF f
  <2> QED BY <2>1 DEF IsNumber
<1>2. ASSUME NEW k \in S PROVE k + 1 \in S
  <2>1. PICK f : IsNumber(f, bit, k)
    OBVIOUS
  <2> DEFINE new == bit[k + 1] + 2 * f[k]
             g == [i \in 0..(k + 1) |-> IF i = k + 1 THEN new ELSE f[i]]
  <2>2. ASSUME NEW i \in 0..(k + 1)
        PROVE  g[i] = IF i = 0 THEN 0 ELSE bit[i] + 2 * g[i - 1]
    <3>1. CASE i = k + 1
      BY <3>1
    <3>2. CASE i # k + 1
      <4>1. f[i] = IF i = 0 THEN 0 ELSE bit[i] + 2 * f[i - 1]
        BY <2>1, <3>2 DEF IsNumber
      <4> QED BY <3>2, <4>1
    <3> QED BY <3>1, <3>2
  <2>3. g = [i \in 0..(k + 1) |-> g[i]]
    OBVIOUS
  <2> HIDE DEF g
  <2>4. IsNumber(g, bit, k + 1)
    BY <2>2, <2>3 DEF IsNumber
  <2> QED BY <2>4
<1> HIDE DEF S
<1>3. S = Nat
  BY <1>1, <1>2, Induct, S \in SUBSET Nat DEF S
<1> QED BY <1>3 DEF S

\* n bits are a number below 2^n, whatever is read.
LEMMA BitsBelow ==
  ASSUME NEW data, NEW at, NEW n \in Nat
  PROVE  Bits(data, at, n) \in 0..(Pow(n) - 1)
<1> DEFINE Bit(i) == IF i \in 1..Len(data) /\ data[i] = 1 THEN 1 ELSE 0
           bit == [i \in 1..n |-> Bit(at + n - i + 1)]
           f == CHOOSE h : h = [k \in 0..n |-> IF k = 0 THEN 0 ELSE Bit(at + n - k + 1) + 2 * h[k - 1]]
<1>1. Bits(data, at, n) = f[n]
  BY DEF Bits
<1>2. \A i \in 1..n : bit[i] \in {0, 1} /\ bit[i] = Bit(at + n - i + 1)
  OBVIOUS
<1> HIDE DEF bit
<1>3. \E h : h = [k \in 0..n |-> IF k = 0 THEN 0 ELSE Bit(at + n - k + 1) + 2 * h[k - 1]]
  <2>1. PICK h : IsNumber(h, bit, n)
    BY NumbersExist
  <2> HIDE DEF Bit
  <2>2. h = [k \in 0..n |-> IF k = 0 THEN 0 ELSE bit[k] + 2 * h[k - 1]]
    BY <2>1 DEF IsNumber
  <2>3. [k \in 0..n |-> IF k = 0 THEN 0 ELSE bit[k] + 2 * h[k - 1]]
          = [k \in 0..n |-> IF k = 0 THEN 0 ELSE Bit(at + n - k + 1) + 2 * h[k - 1]]
    BY <1>2
  <2> QED BY <2>2, <2>3
<1> HIDE DEF Bit
<1>4. f = [k \in 0..n |-> IF k = 0 THEN 0 ELSE Bit(at + n - k + 1) + 2 * f[k - 1]]
  BY <1>3
<1> HIDE DEF f
<1> DEFINE S == {k \in Nat : k <= n => f[k] \in 0..(Pow(k) - 1)}
<1>5. 0 \in S
  BY <1>4, PowZero
<1>6. ASSUME NEW k \in S PROVE k + 1 \in S
  <2> SUFFICES ASSUME k + 1 <= n PROVE f[k + 1] \in 0..(Pow(k + 1) - 1)
    OBVIOUS
  <2>1. f[k + 1] = bit[k + 1] + 2 * f[k] /\ bit[k + 1] \in {0, 1}
    BY <1>2, <1>4
  <2>2. Pow(k) \in Nat /\ Pow(k + 1) = 2 * Pow(k) /\ f[k] \in 0..(Pow(k) - 1)
    BY PowType, PowNext
  <2> QED BY <2>1, <2>2
<1> HIDE DEF S
<1>7. S = Nat
  BY <1>5, <1>6, Induct, S \in SUBSET Nat DEF S
<1> QED BY <1>1, <1>7 DEF S

\* What the sums of the first numbers are defined to be, and the first sequences together.
IsSum(f, s, n) == f = [i \in 0..n |-> IF i = 0 THEN 0 ELSE f[i - 1] + s[i]]
IsFlat(f, s, n) == f = [i \in 1..n |-> IF i = 1 THEN s[i] ELSE f[i - 1] \o s[i]]

LEMMA SumsExist ==
  ASSUME NEW s, NEW n \in Nat
  PROVE  \E f : IsSum(f, s, n)
<1> DEFINE S == {k \in Nat : \E f : IsSum(f, s, k)}
<1>1. 0 \in S
  <2> DEFINE f == [i \in 0..0 |-> 0]
  <2>1. f = [i \in 0..0 |-> IF i = 0 THEN 0 ELSE f[i - 1] + s[i]]
    OBVIOUS
  <2> HIDE DEF f
  <2> QED BY <2>1 DEF IsSum
<1>2. ASSUME NEW k \in S PROVE k + 1 \in S
  <2>1. PICK f : IsSum(f, s, k)
    OBVIOUS
  <2> DEFINE new == f[k] + s[k + 1]
             g == [i \in 0..(k + 1) |-> IF i = k + 1 THEN new ELSE f[i]]
  <2>2. ASSUME NEW i \in 0..(k + 1)
        PROVE  g[i] = IF i = 0 THEN 0 ELSE g[i - 1] + s[i]
    <3>1. CASE i = k + 1
      BY <3>1
    <3>2. CASE i # k + 1
      <4>1. f[i] = IF i = 0 THEN 0 ELSE f[i - 1] + s[i]
        BY <2>1, <3>2 DEF IsSum
      <4> QED BY <3>2, <4>1
    <3> QED BY <3>1, <3>2
  <2>3. g = [i \in 0..(k + 1) |-> g[i]]
    OBVIOUS
  <2> HIDE DEF g
  <2>4. IsSum(g, s, k + 1)
    BY <2>2, <2>3 DEF IsSum
  <2> QED BY <2>4
<1> HIDE DEF S
<1>3. S = Nat
  BY <1>1, <1>2, Induct, S \in SUBSET Nat DEF S
<1> QED BY <1>3 DEF S

LEMMA FlatExist ==
  ASSUME NEW s, NEW n \in Nat
  PROVE  \E f : IsFlat(f, s, n)
<1> DEFINE S == {k \in Nat : \E f : IsFlat(f, s, k)}
<1>1. 0 \in S
  <2> DEFINE f == [i \in 1..0 |-> s[i]]
  <2>1. f = [i \in 1..0 |-> IF i = 1 THEN s[i] ELSE f[i - 1] \o s[i]]
    OBVIOUS
  <2> HIDE DEF f
  <2> QED BY <2>1 DEF IsFlat
<1>2. ASSUME NEW k \in S PROVE k + 1 \in S
  <2>1. PICK f : IsFlat(f, s, k)
    OBVIOUS
  <2> DEFINE new == IF k = 0 THEN s[1] ELSE f[k] \o s[k + 1]
             g == [i \in 1..(k + 1) |-> IF i = k + 1 THEN new ELSE f[i]]
  <2>2. ASSUME NEW i \in 1..(k + 1)
        PROVE  g[i] = IF i = 1 THEN s[i] ELSE g[i - 1] \o s[i]
    <3>1. CASE i = k + 1
      BY <3>1
    <3>2. CASE i # k + 1
      <4>1. i \in 1..k
        BY <3>2
      <4>2. f[i] = IF i = 1 THEN s[i] ELSE f[i - 1] \o s[i]
        BY <2>1, <4>1, Zenon DEF IsFlat
      <4>3. i - 1 # k + 1 /\ i - 1 \in 0..k
        BY <4>1
      <4> QED BY <3>2, <4>1, <4>2, <4>3
    <3> QED BY <3>1, <3>2
  <2>3. g = [i \in 1..(k + 1) |-> g[i]]
    OBVIOUS
  <2> HIDE DEF g
  <2>4. IsFlat(g, s, k + 1)
    BY <2>2, <2>3 DEF IsFlat
  <2> QED BY <2>4
<1> HIDE DEF S
<1>3. S = Nat
  BY <1>1, <1>2, Induct, S \in SUBSET Nat DEF S
<1> QED BY <1>3 DEF S

\* Sequences one after the other are as long as their lengths together.
LEMMA FlattenLength ==
  ASSUME NEW T, NEW seqs \in Seq(Seq(T)), seqs # <<>>, NEW sizes \in Seq(Nat), Len(sizes) = Len(seqs),
         \A i \in 1..Len(seqs) : Len(seqs[i]) = sizes[i]
  PROVE  /\ FlattenSeq(seqs) \in Seq(T)
         /\ Len(FlattenSeq(seqs)) = Sum(sizes)
<1> DEFINE n == Len(seqs)
           flat == CHOOSE f : f = [i \in 1..n |-> IF i = 1 THEN seqs[i] ELSE f[i - 1] \o seqs[i]]
           total == CHOOSE f : f = [i \in 0..Len(sizes) |-> IF i = 0 THEN 0 ELSE f[i - 1] + sizes[i]]
<1>1. n \in Nat /\ n > 0 /\ Len(sizes) = n
  OBVIOUS
<1>2. FlattenSeq(seqs) = flat[n]
  BY <1>1 DEF FlattenSeq
<1>3. Sum(sizes) = total[n]
  BY <1>1 DEF Sum
<1>4. flat = [i \in 1..n |-> IF i = 1 THEN seqs[i] ELSE flat[i - 1] \o seqs[i]]
  <2>1. \E f : IsFlat(f, seqs, n)
    BY <1>1, FlatExist
  <2>2. \E f : f = [i \in 1..n |-> IF i = 1 THEN seqs[i] ELSE f[i - 1] \o seqs[i]]
    BY <2>1 DEF IsFlat
  <2> QED BY <2>2
<1>5. total = [i \in 0..n |-> IF i = 0 THEN 0 ELSE total[i - 1] + sizes[i]]
  <2>1. \E f : IsSum(f, sizes, n)
    BY <1>1, SumsExist
  <2>2. \E f : f = [i \in 0..Len(sizes) |-> IF i = 0 THEN 0 ELSE f[i - 1] + sizes[i]]
    BY <1>1, <2>1 DEF IsSum
  <2> QED BY <1>1, <2>2
<1> HIDE DEF flat, total
<1> DEFINE S == {k \in Nat : k < n =>
                   flat[k + 1] \in Seq(T) /\ total[k + 1] \in Nat /\ Len(flat[k + 1]) = total[k + 1]}
<1>6. 0 \in S
  <2>1. flat[1] = seqs[1] /\ total[1] = total[0] + sizes[1] /\ total[0] = 0
    BY <1>1, <1>4, <1>5
  <2>2. sizes[1] \in Nat /\ seqs[1] \in Seq(T) /\ Len(seqs[1]) = sizes[1]
    BY <1>1
  <2> QED BY <2>1, <2>2
<1>7. ASSUME NEW k \in S PROVE k + 1 \in S
  <2> SUFFICES ASSUME k + 1 < n
               PROVE  /\ flat[k + 2] \in Seq(T) /\ total[k + 2] \in Nat
                      /\ Len(flat[k + 2]) = total[k + 2]
    OBVIOUS
  <2>1. k \in Nat /\ k + 2 \in 1..n /\ k + 2 # 1 /\ (k + 2) - 1 = k + 1
    BY <1>1
  <2>2. flat[k + 2] = flat[k + 1] \o seqs[k + 2] /\ total[k + 2] = total[k + 1] + sizes[k + 2]
    <3>1. flat[k + 2] = flat[(k + 2) - 1] \o seqs[k + 2]
      BY <1>4, <2>1, Zenon
    <3>2. total[k + 2] = total[k + 1] + sizes[k + 2]
      <4>1. k + 2 \in 0..n /\ k + 2 # 0
        BY <2>1
      <4>2. total[k + 2] = total[(k + 2) - 1] + sizes[k + 2]
        BY <1>5, <4>1, Zenon
      <4> QED BY <2>1, <4>2
    <3> QED BY <2>1, <3>1, <3>2
  <2>3. sizes[k + 2] \in Nat /\ seqs[k + 2] \in Seq(T) /\ Len(seqs[k + 2]) = sizes[k + 2]
    BY <1>1, <2>1
  <2>4. flat[k + 1] \in Seq(T) /\ total[k + 1] \in Nat /\ Len(flat[k + 1]) = total[k + 1]
    BY <1>1, <2>1
  <2> DEFINE a == flat[k + 1]
             b == seqs[k + 2]
  <2>5. a \in Seq(T) /\ b \in Seq(T) /\ flat[k + 2] = a \o b
    BY <2>2, <2>3, <2>4
  <2>6. Len(a) = total[k + 1] /\ Len(b) = sizes[k + 2]
    BY <2>3, <2>4
  <2> HIDE DEF a, b
  <2>7. a \o b \in Seq(T) /\ Len(a \o b) = Len(a) + Len(b)
    BY <2>5
  <2> QED BY <2>2, <2>3, <2>4, <2>5, <2>6, <2>7, SMTT(40)
<1> HIDE DEF S
<1>8. S = Nat
  BY <1>6, <1>7, Induct, S \in SUBSET Nat DEF S
<1>9. n - 1 \in S /\ n - 1 < n /\ (n - 1) + 1 = n
  BY <1>1, <1>8
<1> QED BY <1>2, <1>3, <1>9 DEF S

-----------------------------------------------------------------------------
(* The table of the entropy decoder.                                       *)

\* Each place has a number of bits to read, with which any bits lead to a place.
LeadsBack(table, size) ==
  /\ DOMAIN table = 0..(size - 1)
  /\ \A x \in 0..(size - 1) :
        /\ table[x].read \in Nat
        /\ \A bits \in 0..(Pow(table[x].read) - 1) : table[x].next + bits \in 0..(size - 1)

LEMMA SymbolOf ==
  ASSUME NEW m \in Nat, NEW bins, DOMAIN bins = 1..Len(bins), Len(bins) \in Nat, bins # <<>>,
         \A i \in 1..Len(bins) : bins[i].weight \in Nat,
         Sum([i \in DOMAIN bins |-> bins[i].weight]) = Pow(m),
         NEW x \in 0..(Pow(m) - 1)
  PROVE  Symbols(bins, Pow(m))[x] \in 1..Len(bins)
<1> DEFINE n == Len(bins)
           size == Pow(m)
           seqs == [s \in 1..n |-> [k \in 1..bins[s].weight |-> s]]
           sizes == [i \in DOMAIN bins |-> bins[i].weight]
           turns == FlattenSeq(seqs)
           PlaceAt(step) == (step * Stride(size)) % size
           step == CHOOSE step \in 0..(size - 1) : PlaceAt(step) = x
<1>1. Symbols(bins, size)[x] = turns[1 + step]
  BY DEF Symbols
<1>2. step \in 0..(size - 1)
  <2>1. \E k \in 0..(size - 1) : PlaceAt(k) = x
    BY StrideVisitsEachPlace
  <2> QED BY <2>1
<1>3. turns \in Seq(1..n) /\ Len(turns) = size
  <2>1. seqs \in Seq(Seq(1..n)) /\ Len(seqs) = n
    <3>1. ASSUME NEW s \in 1..n PROVE [k \in 1..bins[s].weight |-> s] \in Seq(1..n)
      OBVIOUS
    <3> QED BY <3>1
  <2>2. sizes \in Seq(Nat) /\ Len(sizes) = n
    OBVIOUS
  <2>3. \A i \in 1..n : Len(seqs[i]) = sizes[i]
    OBVIOUS
  <2>4. seqs # <<>>
    BY <2>1
  <2> HIDE DEF seqs, sizes
  <2> QED BY <2>1, <2>2, <2>3, <2>4, FlattenLength DEF sizes
<1> HIDE DEF turns, step
<1>4. size \in Nat
  BY PowType
<1> QED BY <1>1, <1>2, <1>3, <1>4

LEMMA CountBelow ==
  ASSUME NEW x \in Nat, NEW s
  PROVE  Cardinality({y \in 0..(x - 1) : s[y] = s[x]}) \in 0..x
<1> DEFINE before == {y \in 0..(x - 1) : s[y] = s[x]}
<1>1. Cardinality(before) = Cardinality(before)
  BY DEF Cardinality, Cardinality
<1>2. IsFiniteSet(0..(x - 1)) /\ Cardinality(0..(x - 1)) = x
  BY FS_Interval
<1>3. before \in SUBSET (0..(x - 1))
  OBVIOUS
<1>4. IsFiniteSet(before) /\ Cardinality(before) <= x
  BY <1>2, <1>3, FS_Subset
<1>5. Cardinality(before) \in Nat
  BY <1>4, FS_CardinalityType
<1> QED BY <1>1, <1>4, <1>5

(* Whatever the weights of the bins, if they fill the table each of its     *)
(* places leads back into it (decode.go:329).                               *)
THEOREM TableLeadsBack ==
  ASSUME NEW m \in Nat, NEW bins, DOMAIN bins = 1..Len(bins), Len(bins) \in Nat, bins # <<>>,
         \A i \in 1..Len(bins) : bins[i].weight \in 1..Pow(m),
         Sum([i \in DOMAIN bins |-> bins[i].weight]) = Pow(m)
  PROVE  LeadsBack(AnsTable(bins, Pow(m)), Pow(m))
<1> DEFINE size == Pow(m)
           symbols == Symbols(bins, size)
           NextAt(x) == bins[symbols[x]].weight + Cardinality({y \in 0..(x - 1) : symbols[y] = symbols[x]})
           ReadAt(x) == ReadOf(size, NextAt(x), bins[symbols[x]].weight)
           table == AnsTable(bins, size)
<1>1. /\ DOMAIN table = 0..(size - 1)
      /\ \A x \in 0..(size - 1) :
            table[x].read = ReadAt(x) /\ table[x].next = NextAt(x) * Pow(ReadAt(x)) - size
  BY DEF AnsTable
<1> HIDE DEF table
<1>2. size \in Nat
  BY PowType
<1>3. ASSUME NEW x \in 0..(size - 1)
      PROVE  /\ table[x].read \in Nat
             /\ \A bits \in 0..(Pow(table[x].read) - 1) : table[x].next + bits \in 0..(size - 1)
  <2>1. symbols[x] \in 1..Len(bins)
    <3>1. \A i \in 1..Len(bins) : bins[i].weight \in Nat
      BY <1>2
    <3> QED BY <3>1, SymbolOf
  <2>2. bins[symbols[x]].weight \in 1..size
    BY <2>1
  <2>3. Cardinality({y \in 0..(x - 1) : symbols[y] = symbols[x]}) \in 0..x
    <3>1. x \in Nat
      BY <1>2
    <3> HIDE DEF symbols
    <3> QED BY <3>1, CountBelow
  <2>4. NextAt(x) \in Nat /\ NextAt(x) > 0 /\ NextAt(x) < 2 * size
    BY <1>2, <2>2, <2>3, SMTT(40)
  <2> DEFINE next == NextAt(x)
             read == ReadAt(x)
             p == Pow(read)
  <2>5. read = ReadOf(Pow(m), next, bins[symbols[x]].weight)
    OBVIOUS
  <2>6. table[x].read = read /\ table[x].next = next * p - size
    BY <1>1
  <2> HIDE DEF next, read, NextAt, ReadAt
  <2>7. next \in Nat /\ next > 0 /\ next < 2 * size
    BY <2>4 DEF next
  <2>8. read \in Nat /\ next * p \in Nat /\ next * p >= size /\ next * p + p <= 2 * size
    BY <2>5, <2>7, ReadFits
  <2>9. p \in Nat
    BY <2>8, PowType
  <2> DEFINE np == next * p
  <2>10. np \in Nat /\ np >= size /\ np + p <= 2 * size /\ table[x].next = np - size
    BY <2>6, <2>8
  <2> HIDE DEF np, p, size
  <2>11. \A bits \in 0..(p - 1) : table[x].next + bits \in 0..(size - 1)
    BY <1>2, <2>9, <2>10
  <2> QED BY <2>6, <2>8, <2>11 DEF p
<1> HIDE DEF size, NextAt, ReadAt
<1>4. LeadsBack(table, size)
  BY <1>1, <1>3 DEF LeadsBack
<1> QED BY <1>4 DEF table, size

-----------------------------------------------------------------------------
(* The states of a page.                                                   *)

\* A variable has no table, or one of as many places as its states have values.
Sound(l) == l.log \in Nat /\ (l.table = <<>> \/ LeadsBack(l.table, Pow(l.log)))

LEMMA LatentSound ==
  ASSUME NEW data, NEW at, NEW w, NEW delta
  PROVE  Sound(ParseLatent(data, at, w, delta))
<1> DEFINE log == Bits(data, at, 4)
           n == Bits(data, at + 4, 15)
           size == Pow(log)
           each == log + w + BitLen(w)
           shaped == log <= 14 /\ n <= size /\ (n > 1 \/ log = 0) /\ at + 19 + n * each <= Len(data)
           Bin(b) == [weight |-> 1 + Bits(data, b, log), lower |-> Bits(data, b + log, w),
                      offset |-> Bits(data, b + log + w, BitLen(w))]
           count == IF shaped THEN n ELSE 0
           bins == [i \in 1..count |-> Bin(at + 19 + (i - 1) * each)]
           next == at + 19 + n * each
           l == LatentOf(w, delta, log, shaped, bins, next)
<1>1. ParseLatent(data, at, w, delta) = l
  BY DEF ParseLatent, ReadBins
<1>2. log \in Nat /\ n \in Nat
  <2>1. Pow(4) \in Nat /\ Pow(15) \in Nat
    BY PowType
  <2>2. log \in 0..(Pow(4) - 1) /\ n \in 0..(Pow(15) - 1)
    BY BitsBelow
  <2> QED BY <2>1, <2>2
<1>3. size \in Nat
  BY <1>2, PowType
<1>4. l.log = log
  BY DEF LatentOf
<1>5. \/ l.table = <<>>
      \/ /\ bins # <<>> /\ l.table = AnsTable(bins, size)
         /\ Sum([i \in DOMAIN bins |-> bins[i].weight]) = size
  BY DEF LatentOf
<1>6. count \in Nat
  BY <1>2
<1>7. \A b : Bin(b).weight \in 1..size
  <2>1. \A b : Bits(data, b, log) \in 0..(size - 1)
    BY <1>2, BitsBelow
  <2> QED BY <1>3, <2>1
<1> HIDE DEF count, Bin
<1>8. DOMAIN bins = 1..count /\ Len(bins) = count /\ \A i \in 1..count : bins[i].weight \in 1..size
  BY <1>6, <1>7
<1> HIDE DEF bins, l, log
<1>9. l.table = <<>> \/ LeadsBack(l.table, size)
  BY <1>2, <1>5, <1>6, <1>8, TableLeadsBack
<1> QED BY <1>1, <1>2, <1>4, <1>9 DEF Sound

\* Where one variable ends the next begins.
IsParsed(f, data, at, kinds, n) ==
  f = [i \in 1..n |->
         ParseLatent(data, IF i = 1 THEN at ELSE f[i - 1].next, kinds[i].width, kinds[i].delta)]

LEMMA ParsedExist ==
  ASSUME NEW data, NEW at, NEW kinds, NEW n \in Nat
  PROVE  \E f : IsParsed(f, data, at, kinds, n)
<1> DEFINE Parsed(i, x) == ParseLatent(data, IF i = 1 THEN at ELSE x.next, kinds[i].width, kinds[i].delta)
           S == {k \in Nat : \E f : IsParsed(f, data, at, kinds, k)}
<1>1. 0 \in S
  <2> DEFINE f == [i \in 1..0 |-> at]
  <2>1. f = [i \in 1..0 |-> Parsed(i, f[i - 1])]
    OBVIOUS
  <2> HIDE DEF f
  <2> QED BY <2>1 DEF IsParsed
<1>2. ASSUME NEW k \in S PROVE k + 1 \in S
  <2>1. PICK f : IsParsed(f, data, at, kinds, k)
    OBVIOUS
  <2> DEFINE g == [i \in 1..(k + 1) |-> IF i = k + 1 THEN Parsed(k + 1, f[k]) ELSE f[i]]
  <2>2. f = [i \in 1..k |-> Parsed(i, f[i - 1])]
    BY <2>1, Zenon DEF IsParsed
  <2>3. ASSUME NEW i \in 1..(k + 1)
        PROVE  g[i] = Parsed(i, g[i - 1])
    <3> HIDE DEF Parsed
    <3>1. CASE i = k + 1
      <4>1. CASE k = 0
        <5>1. g[i] = Parsed(1, f[0]) /\ i = 1
          BY <3>1, <4>1
        <5>2. \A x, y : Parsed(1, x) = Parsed(1, y)
          BY DEF Parsed
        <5> QED BY <5>1, <5>2, Zenon
      <4>2. CASE k # 0
        <5>1. k \in 1..(k + 1) /\ k # k + 1 /\ i - 1 = k
          BY <3>1, <4>2
        <5>2. g[i] = Parsed(i, f[k]) /\ g[i - 1] = f[k]
          BY <3>1, <5>1
        <5> QED BY <5>2
      <4> QED BY <4>1, <4>2
    <3>2. CASE i # k + 1
      <4>1. i \in 1..k
        BY <3>2
      <4>2. f[i] = Parsed(i, f[i - 1]) /\ g[i] = f[i]
        BY <2>2, <3>2, <4>1
      <4>3. CASE i = 1
        <5>1. \A x, y : Parsed(1, x) = Parsed(1, y)
          BY DEF Parsed
        <5> QED BY <4>2, <4>3, <5>1, Zenon
      <4>4. CASE i # 1
        <5>1. i - 1 \in 1..(k + 1) /\ i - 1 # k + 1
          BY <4>1, <4>4
        <5>2. g[i - 1] = f[i - 1]
          BY <5>1
        <5> QED BY <4>2, <5>2
      <4> QED BY <4>3, <4>4
    <3> QED BY <3>1, <3>2
  <2>4. g = [i \in 1..(k + 1) |-> g[i]]
    OBVIOUS
  <2> HIDE DEF g
  <2>5. g = [i \in 1..(k + 1) |-> Parsed(i, g[i - 1])]
    <3> HIDE DEF Parsed
    <3> QED BY <2>3, <2>4
  <2>6. IsParsed(g, data, at, kinds, k + 1)
    BY <2>5, Zenon DEF IsParsed
  <2> QED BY <2>6
<1> HIDE DEF S
<1>3. S = Nat
  BY <1>1, <1>2, Induct, S \in SUBSET Nat DEF S
<1> QED BY <1>3 DEF S

LEMMA LatentsSound ==
  ASSUME NEW data, NEW at, NEW kinds, Len(kinds) \in Nat
  PROVE  /\ DOMAIN ParseLatents(data, at, kinds) = 1..Len(kinds)
         /\ \A v \in 1..Len(kinds) : Sound(ParseLatents(data, at, kinds)[v])
<1> DEFINE n == Len(kinds)
           f == CHOOSE h : h = [i \in 1..n |->
                  ParseLatent(data, IF i = 1 THEN at ELSE h[i - 1].next, kinds[i].width, kinds[i].delta)]
<1>1. ParseLatents(data, at, kinds) = [i \in 1..n |-> f[i]]
  BY DEF ParseLatents
<1>2. \E h : h = [i \in 1..n |->
        ParseLatent(data, IF i = 1 THEN at ELSE h[i - 1].next, kinds[i].width, kinds[i].delta)]
  <2>1. \E h : IsParsed(h, data, at, kinds, n)
    BY ParsedExist
  <2> QED BY <2>1, Zenon DEF IsParsed
<1>3. f = [i \in 1..n |->
        ParseLatent(data, IF i = 1 THEN at ELSE f[i - 1].next, kinds[i].width, kinds[i].delta)]
  BY <1>2, Zenon
<1> HIDE DEF f
<1>4. ASSUME NEW v \in 1..n PROVE Sound(f[v])
  <2>1. f[v] = ParseLatent(data, IF v = 1 THEN at ELSE f[v - 1].next, kinds[v].width, kinds[v].delta)
    BY <1>3, Zenon
  <2> QED BY <2>1, LatentSound
<1> QED BY <1>1, <1>4

\* A chunk that is accepted has sound variables.
LEMMA ChunkSound ==
  ASSUME NEW data, NEW version, NEW w, NEW floating, NEW c,
         c = ParseChunk(data, version, w, floating), c.ok
  PROVE  Len(c.latents) \in Nat /\ \A v \in 1..Len(c.latents) : Sound(c.latents[v])
<1>1. PICK m, d, at : c = ChunkOf(data, w, floating, m, d, ParseLatents(data, at, LatentKinds(m, d, w)))
  BY DEF ParseChunk, AfterMode, Latents
<1> DEFINE kinds == LatentKinds(m, d, w)
           l == ParseLatents(data, at, kinds)
<1>2. Len(kinds) \in Nat
  BY DEF LatentKinds
<1>3. DOMAIN l = 1..Len(kinds) /\ \A v \in 1..Len(kinds) : Sound(l[v])
  BY <1>2, LatentsSound
<1> HIDE DEF l
<1>4. c.latents = l
  BY <1>1 DEF ChunkOf, l
<1>5. Len(l) = Len(kinds)
  <2> HIDE DEF kinds
  <2> QED BY <1>2, <1>3
<1> QED BY <1>2, <1>3, <1>4, <1>5

(* The variables of the chunk are sound while its pages are read, and while *)
(* one is, so are its states.                                               *)
StatesInv ==
  /\ phase \in {"page", "symbols", "values"} =>
       Len(meta.latents) \in Nat /\ \A v \in 1..Len(meta.latents) : Sound(meta.latents[v])
  /\ phase \in {"symbols", "values"} =>
       /\ DOMAIN ans = 1..Len(meta.latents)
       /\ \A v \in 1..Len(meta.latents) :
             /\ DOMAIN ans[v] = 1..AnsLanes
             /\ \A l \in 1..AnsLanes : ans[v][l] \in 0..(Pow(meta.latents[v].log) - 1)

LEMMA StatesBegin ==
  ASSUME StatesInv, BeginPage
  PROVE  StatesInv'
<1>1. /\ phase = "page" /\ meta' = meta
      /\ Len(meta.latents) \in Nat /\ \A v \in 1..Len(meta.latents) : Sound(meta.latents[v])
  BY DEF StatesInv, BeginPage, Refuse
<1>2. CASE phase' = "refused"
  BY <1>2 DEF StatesInv
<1>3. CASE phase' # "refused"
  <2> DEFINE At(v) == HeadOf(v) + Moments(v) * meta.latents[v].width
  <2>1. /\ ans' = [v \in 1..Len(meta.latents) |->
                     Words(Data, At(v), AnsLanes, meta.latents[v].log)]
        /\ phase' \in {"symbols", "values"}
    BY <1>3 DEF BeginPage, Refuse, Vars
  <2> HIDE DEF At
  <2>2. ASSUME NEW v \in 1..Len(meta.latents)
        PROVE  /\ DOMAIN ans'[v] = 1..AnsLanes
               /\ \A l \in 1..AnsLanes : ans'[v][l] \in 0..(Pow(meta.latents[v].log) - 1)
    <3>1. ans'[v] = Words(Data, At(v), AnsLanes, meta.latents[v].log)
      BY <2>1
    <3>2. meta.latents[v].log \in Nat
      BY <1>1 DEF Sound
    <3> QED BY <3>1, <3>2, BitsBelow DEF Words
  <2> QED BY <1>1, <2>1, <2>2 DEF StatesInv
<1> QED BY <1>2, <1>3

LEMMA StatesStep ==
  ASSUME StatesInv, ReadSymbol
  PROVE  StatesInv'
<1>1. phase = "symbols" /\ meta' = meta /\ phase' \in {"symbols", "refused"}
  BY DEF ReadSymbol, Refuse
<1>2. CASE phase' = "refused"
  BY <1>2 DEF StatesInv
<1>3. CASE phase' # "refused"
  <2> DEFINE place == ans[var][AnsLane]
             node == meta.latents[var].table[place]
             bits == Bits(Data, pos, node.read)
  <2>1. place \in DOMAIN meta.latents[var].table /\ ans' = [ans EXCEPT ![var][AnsLane] = node.next + bits]
    BY <1>3 DEF ReadSymbol, Refuse
  <2> HIDE DEF bits
  <2>2. ASSUME NEW v \in 1..Len(meta.latents), v = var
        PROVE  node.next + bits \in 0..(Pow(meta.latents[v].log) - 1)
    <3>1. Sound(meta.latents[v])
      BY <1>1 DEF StatesInv
    <3>2. meta.latents[v].table # <<>>
      BY <2>1, <2>2
    <3>3. LeadsBack(meta.latents[v].table, Pow(meta.latents[v].log))
      BY <3>1, <3>2 DEF Sound
    <3>4. place \in 0..(Pow(meta.latents[v].log) - 1)
      BY <2>1, <2>2, <3>3 DEF LeadsBack
    <3>5. node.read \in Nat /\ \A b \in 0..(Pow(node.read) - 1) :
            node.next + b \in 0..(Pow(meta.latents[v].log) - 1)
      BY <2>2, <3>3, <3>4 DEF LeadsBack
    <3>6. bits \in 0..(Pow(node.read) - 1)
      BY <3>5, BitsBelow DEF bits
    <3> QED BY <3>5, <3>6
  <2> DEFINE next == node.next + bits
  <2> HIDE DEF next
  <2>3. ans' = [ans EXCEPT ![var] = [ans[var] EXCEPT ![AnsLane] = next]]
    BY <2>1 DEF next
  <2>4. \A v \in 1..Len(meta.latents) : v = var => next \in 0..(Pow(meta.latents[v].log) - 1)
    BY <2>2 DEF next
  <2>5. /\ DOMAIN ans = 1..Len(meta.latents)
        /\ \A v \in 1..Len(meta.latents) :
             /\ DOMAIN ans[v] = 1..AnsLanes
             /\ \A l \in 1..AnsLanes : ans[v][l] \in 0..(Pow(meta.latents[v].log) - 1)
    BY <1>1 DEF StatesInv
  <2>6. DOMAIN ans' = DOMAIN ans
    BY <2>3
  <2>7. ASSUME NEW v \in 1..Len(meta.latents)
        PROVE  /\ DOMAIN ans'[v] = 1..AnsLanes
               /\ \A l \in 1..AnsLanes : ans'[v][l] \in 0..(Pow(meta.latents[v].log) - 1)
    <3>1. CASE v = var
      <4>1. ans'[v] = [ans[v] EXCEPT ![AnsLane] = next]
        BY <2>3, <2>5, <3>1
      <4> QED BY <2>4, <2>5, <3>1, <4>1
    <3>2. CASE v # var
      BY <2>3, <2>5, <3>2
    <3> QED BY <3>1, <3>2
  <2> QED BY <1>1, <2>5, <2>6, <2>7 DEF StatesInv
<1> QED BY <1>2, <1>3

LEMMA StatesNext ==
  ASSUME StatesInv, [PcoNext]_(pcoVars)
  PROVE  StatesInv'
<1>1. CASE Begin
  BY <1>1 DEF Begin, Refuse, StatesInv
<1>2. CASE BeginChunk
  <2> DEFINE c == ParseChunk(stream.chunks[chunks + 1], stream.header[1], stream.width, stream.kind = "float")
  <2>1. Enter(c)
    BY <1>2 DEF BeginChunk
  <2>2. c.ok => Len(c.latents) \in Nat /\ \A v \in 1..Len(c.latents) : Sound(c.latents[v])
    BY ChunkSound
  <2> HIDE DEF c
  <2> QED BY <2>1, <2>2 DEF Enter, Refuse, StatesInv
<1>3. CASE EndOfChunks
  BY <1>3 DEF EndOfChunks, StatesInv
<1>4. CASE BeginPage
  BY <1>4, StatesBegin
<1>5. CASE ReadSymbol
  BY <1>5, StatesStep
<1>6. CASE ReadOffsets
  <2>1. phase = "symbols" /\ meta' = meta /\ (phase' = "refused" \/ (phase' \in {"symbols", "values"} /\ ans' = ans))
    BY <1>6 DEF ReadOffsets, Refuse
  <2> QED BY <2>1 DEF StatesInv
<1>7. CASE FinishPage
  <2>1. phase = "values" /\ meta' = meta /\ phase' \in {"refused", "page"}
    BY <1>7 DEF FinishPage, Refuse
  <2> QED BY <2>1 DEF StatesInv
<1>8. CASE EndOfPages
  BY <1>8 DEF EndOfPages, StatesInv
<1>9. CASE UNCHANGED pcoVars
  BY <1>9 DEF pcoVars, page, StatesInv
<1> QED BY <1>1, <1>2, <1>3, <1>4, <1>5, <1>6, <1>7, <1>8, <1>9 DEF PcoNext

(* A state of a page stays in the table of its variable, for every stream   *)
(* of bits, whatever the weights of the bins, the order they take places in *)
(* and the bits that follow (decode.go:329, 446).                           *)
THEOREM StatesStayInTable == PcoSpec => []StatesInTable
<1>1. PcoInit => StatesInv
  BY DEF PcoInit, StatesInv
<1>2. StatesInv /\ [PcoNext]_(pcoVars) => StatesInv'
  BY StatesNext
<1>3. StatesInv => StatesInTable
  <2> SUFFICES ASSUME StatesInv, phase \in {"symbols", "values"}, NEW v \in DOMAIN ans, NEW l \in 1..AnsLanes,
                      meta.latents[v].table # <<>>
               PROVE  ans[v][l] \in DOMAIN meta.latents[v].table
    BY DEF StatesInTable
  <2>1. v \in 1..Len(meta.latents) /\ ans[v][l] \in 0..(Pow(meta.latents[v].log) - 1)
    BY DEF StatesInv
  <2>2. Sound(meta.latents[v])
    BY <2>1 DEF StatesInv
  <2> QED BY <2>1, <2>2 DEF Sound, LeadsBack
<1> QED BY <1>1, <1>2, <1>3, PTL DEF PcoSpec
=============================================================================
