------------------------------ MODULE Protobuf ------------------------------
(***************************************************************************)
(* The messages of Protocol Buffers as this program reads them: the reader *)
(* of internal/encoding/proto.go, for the metadata of arrays, and that of  *)
(* array.go, for the metadata of layouts.  They differ in their limits.    *)
(*                                                                         *)
(* A message is a sequence of bytes, below 2 * More.                       *)
(***************************************************************************)
EXTENDS Integers, SequencesExt

CONSTANTS Septet,      \* 7: the bits of a number in one byte; the other one says more follow
          NumberBits,  \* 64
          ShortBytes,  \* 4
          LongBytes,   \* 8
          ProtoLimit,  \* 2^18: fields of a message that proto.go reads
          FieldLimit,  \* maxNodes: fields of a message that array.go reads
          MaxTag       \* 2^31 - 1, for array.go only

More == 2 ^ Septet

\* Of the numbers above, all that the proofs need.
ASSUME BytesAssumption == More \in Nat /\ ShortBytes \in Nat

VarintBytes == (NumberBits + Septet - 1) \div Septet

Lower(a, b) == IF a <= b THEN a ELSE b
After(b, size) == SubSeq(b, size + 1, Len(b))

\* Bytes with digits of a number, the least significant first.
Digitwise(digits, radix) ==
  LET last[k \in 0..Len(digits)] ==
        IF k = 0 THEN 0 ELSE digits[Len(digits) - k + 1] + radix * last[k - 1]
  IN  last[Len(digits)]

\* A number of `size` bytes; size 0 says that there is none.
NumberOf(b, size) ==
  [number |-> Digitwise([i \in 1..size |-> b[i] % More], More), size |-> size]

FitsWord(x) == IF x.number < 2 ^ NumberBits THEN x ELSE [number |-> 0, size |-> 0]

\* binary.Uvarint
Varint(b) ==
  LET ends == {i \in 1..Lower(Len(b), VarintBytes) : b[i] < More}
  IN  FitsWord(NumberOf(b, IF ends = {} THEN 0 ELSE Min(ends)))

NoField == [ok |-> FALSE, size |-> 0]

Took(key, number, data, size) ==
  [ok |-> TRUE, tag |-> key.number \div 8, wire |-> key.number % 8, number |-> number, data |-> data,
   size |-> key.size + size]

NumberField(key, x) == IF x.size = 0 THEN NoField ELSE Took(key, x.number, <<>>, x.size)

FixedField(key, rest, size) ==
  IF Len(rest) < size THEN NoField
  ELSE Took(key, Digitwise(SubSeq(rest, 1, size), 2 * More), <<>>, size)

BytesField(key, rest, x) ==
  IF x.size = 0 \/ x.number > Len(rest) - x.size THEN NoField
  ELSE Took(key, 0, SubSeq(rest, x.size + 1, x.size + x.number), x.size + x.number)

\* The rest of a field after its tag and wire type.
FieldAfter(key, rest) ==
  CASE key.size = 0 \/ key.number < 8 -> NoField
    [] key.number % 8 = 0 -> NumberField(key, Varint(rest))
    [] key.number % 8 = 1 -> FixedField(key, rest, LongBytes)
    [] key.number % 8 = 2 -> BytesField(key, rest, Varint(rest))
    [] key.number % 8 = 5 -> FixedField(key, rest, ShortBytes)
    [] OTHER -> NoField

WireField(b) == LET key == Varint(b) IN FieldAfter(key, After(b, key.size))

NoMessage == [ok |-> FALSE, fields |-> <<>>]

\* The fields from a place on, one after the other, and at most `limit`.
WireFields(b, limit) ==
  LET Before(f, rest) == IF rest.ok THEN [rest EXCEPT !.fields = <<f>> \o @] ELSE NoMessage
      from[i \in 0..Len(b)] ==
        LET f == WireField(After(b, i))
        IN  IF i = Len(b) THEN [ok |-> TRUE, fields |-> <<>>]
            ELSE IF f.ok THEN Before(f, from[i + f.size]) ELSE NoMessage
  IN  IF Len(from[0].fields) > limit THEN NoMessage ELSE from[0]

ParseProto(b) == WireFields(b, ProtoLimit)

TagsFit(message) ==
  IF \E f \in Range(message.fields) : f.tag > MaxTag THEN NoMessage ELSE message

ProtoFields(b) == TagsFit(WireFields(b, FieldLimit))

-----------------------------------------------------------------------------
(* What is asked of a message.                                             *)

Tagged(fields, tag) == SelectSeq(fields, LAMBDA f : f.tag = tag)
Has(fields, tag) == Tagged(fields, tag) # <<>>

\* The last field wins; one that is not there is zero.
Num(fields, tag) == IF Has(fields, tag) THEN Last(Tagged(fields, tag)).number ELSE 0

PackedNumbers(data) ==
  LET Before(x, rest) == [rest EXCEPT !.numbers = <<x.number>> \o @]
      from[i \in 0..Len(data)] ==
        LET x == Varint(After(data, i))
        IN  IF i = Len(data) THEN [ok |-> TRUE, numbers |-> <<>>]
            ELSE IF x.size = 0 THEN [ok |-> FALSE, numbers |-> <<>>]
            ELSE Before(x, from[i + x.size])
  IN  from[0]

\* proto.repeated: numbers of their own, or packed, or some of both.
Repeated(fields, tag) ==
  LET Numbered(f) ==
        CASE f.wire = 0 -> [ok |-> TRUE, numbers |-> <<f.number>>]
          [] f.wire = 2 -> PackedNumbers(f.data)
          [] OTHER -> [ok |-> FALSE, numbers |-> <<>>]
      all == [k \in 1..Len(Tagged(fields, tag)) |-> Numbered(Tagged(fields, tag)[k])]
  IN  [ok |-> \A k \in DOMAIN all : all[k].ok,
       numbers |-> FlattenSeq([k \in DOMAIN all |-> all[k].numbers])]
=============================================================================
