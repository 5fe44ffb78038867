----------------------------- MODULE ArrayCodecs -----------------------------
(***************************************************************************)
(* The encodings of an array that are built from other arrays (internal/   *)
(* encoding, decode.go and numeric.go): what each makes of its decoded     *)
(* children, or that it refuses them.                                      *)
(*                                                                         *)
(* A type, and the `values` of Go, are a tree of columns; here both are    *)
(* functions from paths, <<>> the root and <<2, 1>> the first field of its *)
(* second.  A column has the data of its rows, and its validity, <<>> when *)
(* that is nil: then all rows are valid.  The data of a number are its     *)
(* bits, those of a decimal the integer in its wide words, and those of    *)
(* bytes a sequence.  Under a row that is not valid they are whatever the  *)
(* decoder left there.  An extension has the data of its storage.          *)
(***************************************************************************)
EXTENDS Integers, SequencesExt

CONSTANTS Null,      \* a scalar that is null
          Width,     \* bits of a number
          LeftWidth, \* bits of the left part of an ALPRD number, 16
          Block,     \* rows of a block of RLE, 1024
          ByteBits,  \* bits of a byte of a decimal, 8
          NarrowLog, WideLog, \* a decimal has 2^4 bytes, or 2^5
          NarrowPrecision,    \* and 2^4 up to 38 digits
          IsUtf8(_)  \* whether bytes are valid UTF-8

Numeric == {"bool", "unsigned", "signed", "float"}
Bytes == {"utf8", "binary"}
Integer == {"unsigned", "signed"}

Root == <<>>
Bits(width) == 2 ^ width
SignedIn(x, width) == IF x >= Bits(width - 1) THEN x - Bits(width) ELSE x
Signed(x) == SignedIn(x, Width)
ZigZag(x) == IF x % 2 = 0 THEN x \div 2 ELSE -((x + 1) \div 2)

Flat(kind, nullable) == [p \in {Root} |-> [kind |-> kind, nullable |-> nullable]]

\* The type whose values a column has: of an extension, its storage.
Stored(r) == IF r.kind = "extension" THEN r.storage ELSE r
HasData(r) == Stored(r).kind \in Numeric \cup Bytes \cup {"decimal"}
Zero(r) == IF Stored(r).kind \in Bytes THEN <<>> ELSE 0

DecimalBytes(r) == 2 ^ (IF r.precision > NarrowPrecision THEN WideLog ELSE NarrowLog)
DecimalBits(r) == DecimalBytes(r) * ByteBits
FitsBits(x, bits) == x \in (-Bits(bits - 1))..(Bits(bits - 1) - 1)

\* Types that decoder.empty makes columns for, at the leaves of every array.
Canonical(t) == \A p \in DOMAIN t : HasData(t[p]) \/ t[p].kind \in {"null", "struct"}
NonNull(t) == [t EXCEPT ![Root].nullable = FALSE]

\* The paths under field i, as seen from it, and what a function says of them.
Field(f, i) ==
  [p \in {Tail(q) : q \in {r \in DOMAIN f : r # Root /\ Head(r) = i}} |-> f[<<i>> \o p]]
FieldCount(t) == Cardinality({p \in DOMAIN t : Len(p) = 1})

-----------------------------------------------------------------------------
All(n, x) == [i \in 1..n |-> x]

Values(n, cols) == [ok |-> TRUE, spent |-> 0, n |-> n, cols |-> cols]
Fail == [ok |-> FALSE, spent |-> 0]

\* decoder.empty
Empty(t, n) ==
  Values(n, [p \in DOMAIN t |->
    [bits |-> IF HasData(t[p]) THEN All(n, Zero(t[p])) ELSE <<>>,
     valid |-> IF t[p].kind = "null" THEN All(n, FALSE) ELSE <<>>]])

IsValid(col, i) == col.valid = <<>> \/ col.valid[i]
Numbers(v) == v.cols[Root].bits

\* decoder.mask
Masked(col, n) == IF col.valid = <<>> THEN [col EXCEPT !.valid = All(n, TRUE)] ELSE col

\* A plausible bug: the validity of the fields of a struct is forgotten.
CopyRootValidity(dst, src) ==
  [dst EXCEPT !.cols[Root] = IF src.cols[Root].valid = <<>> THEN @ ELSE Masked(@, dst.n)]

CopyValidityShape(dst, src) ==
  [dst EXCEPT !.cols = [p \in DOMAIN @ |->
     IF src.cols[p].valid = <<>> THEN @[p] ELSE Masked(@[p], dst.n)]]

\* values.at in a loop: row i of dst becomes row from[i] of src, unless it is 0.
\* A column of dst that has no mask gets none.
Gather(dst, src, from) ==
  LET Row(i, old, new(_)) == IF from[i] = 0 THEN old ELSE new(from[i])
  IN  [dst EXCEPT !.cols = [p \in DOMAIN @ |->
        [bits |-> [i \in DOMAIN @[p].bits |->
                     Row(i, @[p].bits[i], LAMBDA j : src.cols[p].bits[j])],
         valid |-> [i \in DOMAIN @[p].valid |->
                      Row(i, @[p].valid[i], LAMBDA j : IsValid(src.cols[p], j))]]]]

WithNumbers(v, bits) == [v EXCEPT !.cols[Root].bits = bits]
WithValidity(v, valid) == [v EXCEPT !.cols[Root].valid = valid]

\* What decoder.validity makes of its child.
Validity(v) == [i \in 1..v.n |-> Numbers(v)[i] # 0]

StrictlyIncreasing(s) == \A i \in 1..(Len(s) - 1) : s[i] < s[i + 1]
Sorted(s) == \A i \in 1..(Len(s) - 1) : s[i] <= s[i + 1]

-----------------------------------------------------------------------------
\* A scalar is a function from paths as well; nothing below a null is read.
Reached(s, p) == \A k \in 0..(Len(p) - 1) : s[SubSeq(p, 1, k)] # Null

\* A plausible bug: an unsigned number of one bit too many is not out of range.
InRangeOrAtEnd(kind, x) ==
  CASE kind = "bool" -> x \in 0..1
    [] kind = "signed" -> x \in (-Bits(Width - 1))..(Bits(Width - 1) - 1)
    [] kind = "unsigned" -> x \in 0..Bits(Width)
    [] kind = "float" -> TRUE

\* A float is not tested: bits past its width are dropped (Constant).
InRange(kind, x) ==
  CASE kind = "bool" -> x \in 0..1
    [] kind = "signed" -> x \in (-Bits(Width - 1))..(Bits(Width - 1) - 1)
    [] kind = "unsigned" -> x \in 0..(Bits(Width) - 1)
    [] kind = "float" -> TRUE

ValueFits(r, x) ==
  CASE r.kind \in Numeric -> InRange(r.kind, x)
    [] r.kind = "decimal" -> FitsBits(x, DecimalBits(r))
    [] r.kind = "utf8" -> IsUtf8(x)
    [] OTHER -> r.kind # "null"

\* The nullability of an extension is that of its storage.
ScalarFits(t, s) ==
  \A p \in DOMAIN t : Reached(s, p) =>
    LET r == Stored(t[p])
    IN  IF s[p] = Null THEN r.nullable \/ r.kind = "null" ELSE ValueFits(r, s[p])

Constant(t, n, s) ==
  IF ~ScalarFits(t, s) THEN Fail
  ELSE LET none == Empty(t, n)
           Col(p) ==
             IF ~Reached(s, p) THEN none.cols[p]
             ELSE IF s[p] = Null THEN [none.cols[p] EXCEPT !.valid = All(n, FALSE)]
             ELSE LET x == IF Stored(t[p]).kind \in Numeric THEN s[p] % Bits(Width) ELSE s[p]
                  IN  [none.cols[p] EXCEPT !.bits = [i \in DOMAIN @ |-> x]]
       IN  Values(n, [p \in DOMAIN t |-> Col(p)])

\* A struct of decoded fields, with a mask of its own or none.
Struct(t, n, fields, mask) ==
  Values(n, [p \in DOMAIN t |->
    IF p = Root THEN [bits |-> <<>>, valid |-> mask] ELSE fields[Head(p)].cols[Tail(p)]])

ZigZagged(v) == WithNumbers(v, [i \in 1..v.n |-> ZigZag(Numbers(v)[i]) % Bits(Width)])

FrameOfReference(v, base) ==
  WithNumbers(v, [i \in 1..v.n |-> (Numbers(v)[i] + base) % Bits(Width)])

\* Only the last element is compared: those between it and the base fit too.
Sequence(t, n, base, step) ==
  IF ~InRange(t[Root].kind, base)
       \/ ~InRange(t[Root].kind, base + step * (IF n = 0 THEN 0 ELSE n - 1))
  THEN Fail
  ELSE WithNumbers(Empty(t, n), [i \in 1..n |-> (base + (i - 1) * step) % Bits(Width)])

\* The rows of a null code are null also when no value of the dictionary is.
MaskOfCodes(out, codes, dict) ==
  IF codes.cols[Root].valid # <<>> \/ dict.cols[Root].valid # <<>>
  THEN [out EXCEPT !.cols[Root] = Masked(@, out.n)]
  ELSE out

Dictionary(t, n, codes, dict) ==
  LET valid == {i \in 1..n : IsValid(codes.cols[Root], i)}
      out == MaskOfCodes(CopyValidityShape(Empty(t, n), dict), codes, dict)
      kept == WithValidity(out, [i \in DOMAIN out.cols[Root].valid |-> i \in valid])
  IN  IF \E i \in valid : Numbers(codes)[i] >= dict.n THEN Fail
      ELSE Gather(kept, dict, [i \in 1..n |-> IF i \in valid THEN Numbers(codes)[i] + 1 ELSE 0])

RunEnded(end, row) == end <= row

\* Row off + i (counted from 0) is in the first run that has not ended.
RunEnd(t, n, ends, vals, off) ==
  LET e == Numbers(ends)
      open(i) == {k \in 1..Len(e) : ~RunEnded(e[k], off + i - 1)}
  IN  IF \/ ~StrictlyIncreasing(e) \/ (Len(e) > 0 /\ e[1] = 0)
         \/ \E i \in 1..n : open(i) = {}
      THEN Fail
      ELSE Gather(CopyValidityShape(Empty(t, n), vals), vals,
                  [i \in 1..n |-> CHOOSE k \in open(i) : \A j \in open(i) : k <= j])

\* The patch of row i of a slice; its indices are those of the whole array.
PatchOf(idx, off, i) == {k \in 1..Len(idx) : idx[k] - off = i - 1}

PatchesFit(out, idx, off) ==
  /\ \A k \in 1..Len(idx) : off <= idx[k] /\ idx[k] - off < out.n
  /\ StrictlyIncreasing(idx)

PatchSources(n, idx, off) ==
  [i \in 1..n |-> IF PatchOf(idx, off, i) = {} THEN 0 ELSE CHOOSE k \in PatchOf(idx, off, i) : TRUE]

\* decoder.patches: whole rows, nulls included.
Patches(out, idx, vals, off) ==
  IF ~PatchesFit(out, Numbers(idx), off) THEN Fail
  ELSE Gather(CopyValidityShape(out, vals), vals, PatchSources(out.n, Numbers(idx), off))

\* decoder.numericPatches: the numbers alone.
NumericPatches(out, idx, vals, off) ==
  IF ~PatchesFit(out, Numbers(idx), off) THEN Fail
  ELSE LET from == PatchSources(out.n, Numbers(idx), off)
       IN  WithNumbers(out, [i \in 1..out.n |->
             IF from[i] = 0 THEN Numbers(out)[i] ELSE Numbers(vals)[from[i]]])

\* A block's values end where those of the next one start.
BlockEnd(starts, c, total) == IF c < Len(starts) THEN starts[c + 1] ELSE total

RunLength(t, n, vals, idx, starts, off) ==
  LET row(i) == i + off
      block(i) == (row(i) - 1) \div Block + 1
      start(i) == Numbers(starts)[block(i)]
      end(i) == BlockEnd(Numbers(starts), block(i), vals.n)
      code(i) == IF end(i) - start(i) = 1 THEN 0 ELSE Numbers(idx)[row(i)]
      valid == {i \in 1..n : IsValid(idx.cols[Root], row(i))}
      mask == IF idx.cols[Root].valid = <<>> THEN <<>> ELSE [i \in 1..n |-> i \in valid]
  IN  IF \/ off >= Block \/ off + n > idx.n
         \/ idx.n % Block # 0 \/ starts.n # idx.n \div Block
      THEN Fail
      ELSE IF \E i \in valid : start(i) >= end(i) \/ end(i) > vals.n \/ code(i) >= end(i) - start(i)
      THEN Fail
      ELSE Values(n, [p \in {Root} |->
             [bits |-> [i \in 1..n |->
                          IF i \in valid THEN Numbers(vals)[start(i) + code(i) + 1] ELSE 0],
              valid |-> mask]])

\* The left parts of ALPRD: codes, decoded and then corrected by exceptions.
LeftParts(left, dict) ==
  LET valid == {i \in 1..left.n : IsValid(left.cols[Root], i)}
  IN  IF \E i \in valid : Numbers(left)[i] >= Len(dict) THEN Fail
      ELSE WithNumbers(left, [i \in 1..left.n |->
             IF i \in valid THEN dict[Numbers(left)[i] + 1] ELSE Numbers(left)[i]])

\* Left and right parts joined, the left ones above bit bw.
Joined(left, right, bw) ==
  LET valid == {i \in 1..left.n : IsValid(left.cols[Root], i)}
  IN  IF \E i \in valid : Numbers(left)[i] >= Bits(LeftWidth) \/ Numbers(right)[i] >= Bits(bw)
      THEN Fail
      ELSE WithNumbers(left, [i \in 1..left.n |->
             IF i \in valid THEN (Numbers(left)[i] * Bits(bw) + Numbers(right)[i]) % Bits(Width)
             ELSE Numbers(right)[i]])
=============================================================================
