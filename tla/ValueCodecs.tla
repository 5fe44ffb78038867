----------------------------- MODULE ValueCodecs -----------------------------
(***************************************************************************)
(* The encodings of an array that hold its values themselves (internal/    *)
(* encoding, binary.go, and of the other files the decimals, timestamps    *)
(* and ALP): what each makes of its buffers, its metadata and its decoded  *)
(* children, or that it refuses them.                                      *)
(*                                                                         *)
(* A byte is a small number.  What zstd and Pcodec make of a buffer is     *)
(* part of the node; Pcodec.tla has the latter's detail.                   *)
(***************************************************************************)
EXTENDS ArrowTypes

CONSTANTS Inline, Prefix,  \* bytes of a view that holds its value, 12, or its start, 4
          SymbolSize,      \* most bytes of a symbol of FSST, 8
          Escape,          \* the code before a byte that stands for itself, 255
          WordBytes,       \* bytes of a number
          DaySeconds,      \* 86400
          UnitRadix,       \* 1000
          MaxPage,         \* values of a page, 2^24
          AlpLimit,        \* 10 or 18
          AlpFloat(_, _, _) \* the bits of the float of a number, an exponent and a factor

ValidOf(v) == ValidRows(v.cols[Root], v.n)

\* Values in rows, a mask or none, and valid UTF-8 where the type says so.
Bytewise(t, n, rows, valid) ==
  LET v == WithValidity(WithNumbers(Empty(t, n), rows), valid)
  IN  IF t[Root].kind = "utf8" /\ \E i \in ValidOf(v) : ~IsUtf8(rows[i]) THEN Fail ELSE v

\* Row i of some data, from one offset up to the next.
Cut(data, at, i) == SubSeq(data, at[i] + 1, at[i + 1])
CutFits(size, at, i) == at[i] <= at[i + 1] /\ at[i + 1] <= size

VarBin(t, n, data, offsets, valid) ==
  LET at == Numbers(offsets)
  IN  IF \E i \in 1..n : ~CutFits(Len(data), at, i) THEN Fail
      ELSE Bytewise(t, n, [i \in 1..n |-> Cut(data, at, i)], valid)

-----------------------------------------------------------------------------
\* The view of a value: its size, the bytes that follow, and where it is.
InData(view, bufs) == SubSeq(bufs[view.buffer + 1], view.offset + 1, view.offset + view.size)

ViewFits(view, bufs) ==
  \/ view.size <= Inline
  \/ /\ view.buffer < Len(bufs)
     /\ view.offset + view.size <= Len(bufs[view.buffer + 1])
     /\ SubSeq(view.bytes, 1, Prefix) = SubSeq(InData(view, bufs), 1, Prefix)

Viewed(view, bufs) ==
  IF view.size <= Inline THEN SubSeq(view.bytes, 1, view.size) ELSE InData(view, bufs)

\* The views of null rows are not looked at.
VarBinView(t, n, bufs, views, valid) ==
  LET live == {i \in 1..n : valid = <<>> \/ valid[i]}
  IN  IF \E i \in live : ~ViewFits(views[i], bufs) THEN Fail
      ELSE Bytewise(t, n, [i \in 1..n |-> IF i \in live THEN Viewed(views[i], bufs) ELSE <<>>], valid)

-----------------------------------------------------------------------------
SymbolsFit(symbols, sizes) ==
  /\ Len(symbols) = Len(sizes) * SymbolSize
  /\ Len(sizes) <= Escape
  /\ \A k \in 1..Len(sizes) : sizes[k] <= SymbolSize

Symbol(symbols, sizes, code) ==
  SubSeq(symbols, code * SymbolSize + 1, code * SymbolSize + sizes[code + 1])

\* The bytes that codes stand for, whether they all stand for some, and
\* whether the next one would stand for itself.
Expand(symbols, sizes, codes) ==
  LET Next(s, c) ==
        IF s.escaped THEN [s EXCEPT !.bytes = Append(@, c), !.escaped = FALSE]
        ELSE IF c = Escape THEN [s EXCEPT !.escaped = TRUE]
        ELSE IF c >= Len(sizes) \/ sizes[c + 1] = 0 THEN [s EXCEPT !.ok = FALSE]
        ELSE [s EXCEPT !.bytes = @ \o Symbol(symbols, sizes, c)]
  IN  FoldLeft(Next, [bytes |-> <<>>, ok |-> TRUE, escaped |-> FALSE], codes)

\* `codes` is an array of bytes, whose validity the result has.
Fsst(t, n, symbols, sizes, codes, lens) ==
  LET live == ValidOf(codes)
      made == [i \in 1..n |-> IF i \in live THEN Expand(symbols, sizes, Numbers(codes)[i])
                              ELSE [bytes |-> <<>>, ok |-> TRUE, escaped |-> FALSE]]
  IN  IF \E i \in live : ~made[i].ok \/ made[i].escaped \/ Len(made[i].bytes) # Numbers(lens)[i]
      THEN Fail
      ELSE Bytewise(t, n, [i \in 1..n |-> made[i].bytes], codes.cols[Root].valid)

\* The array of codes that is cut from a buffer.
CodesOf(t, n, data, offsets, valid) == VarBin(Flat("binary", t[Root].nullable), n, data, offsets, valid)

\* A token has a byte at least, and tokens are in order.
TokensFit(dict, at, count) == \A k \in 1..count : at[k] < at[k + 1] /\ at[k + 1] <= Len(dict)

OnPair(t, n, dict, count, offsets, codes, bounds, lens, valid) ==
  LET live == {i \in 1..n : valid = <<>> \/ valid[i]}
      named(i) == Cut(Numbers(codes), Numbers(bounds), i)
      made(i) == FlattenSeq([k \in 1..Len(named(i)) |-> Cut(dict, Numbers(offsets), named(i)[k] + 1)])
  IN  IF \/ count > Bits(Width) \/ ~TokensFit(dict, Numbers(offsets), count)
         \/ \E i \in live : \/ ~CutFits(codes.n, Numbers(bounds), i)
                            \/ Len(named(i)) > Numbers(lens)[i]
      THEN Fail
      ELSE IF \E i \in live : \/ \E k \in 1..Len(named(i)) : named(i)[k] >= count
                              \/ Len(made(i)) # Numbers(lens)[i]
      THEN Fail
      ELSE Bytewise(t, n, [i \in 1..n |-> IF i \in live THEN made(i) ELSE <<>>], valid)

-----------------------------------------------------------------------------
\* Values for the rows that are valid, in order: no more of them and no fewer.
Scattered(t, n, given, valid) ==
  LET none == WithValidity(Empty(t, n), valid)
      live == ValidOf(none)
      rank(i) == Cardinality({j \in live : j <= i})
      rows == [i \in 1..n |-> IF i \in live THEN given[rank(i)] ELSE Zero(t[Root])]
  IN  IF Len(given) # Cardinality(live) THEN Fail
      ELSE IF t[Root].kind \in Bytes THEN Bytewise(t, n, rows, valid)
      ELSE WithNumbers(none, rows)

\* A compressed frame: the size its header has, its values, and the bytes left.
FrameBytes(t, packed) ==
  packed.rest
    + FoldLeft(LAMBDA sum, x : sum + (IF t[Root].kind \in Bytes THEN 4 + Len(x) ELSE WordBytes),
               0, packed.values)

FrameFits(t, frame, packed) ==
  /\ packed.header = frame.size /\ FrameBytes(t, packed) = frame.size
  /\ packed.rest = 0
  /\ frame.count \in {0, Len(packed.values)}

Zstd(t, n, frames, packed, valid) ==
  IF \E i \in 1..Len(frames) : ~FrameFits(t, frames[i], packed[i]) THEN Fail
  ELSE Scattered(t, n, FlattenSeq([i \in 1..Len(packed) |-> packed[i].values]), valid)

PageTotal(pages) ==
  FoldLeft(LAMBDA sum, chunk : sum + FoldLeft(LAMBDA s, x : s + x, 0, chunk), 0, pages)

\* Pages of chunks; `words` is Null when Pcodec refuses them.
Pco(t, n, pages, words, valid) ==
  LET none == WithValidity(Empty(t, n), valid)
  IN  IF \/ \E i \in 1..Len(pages) : \E x \in Range(pages[i]) : x > MaxPage
         \/ PageTotal(pages) # Cardinality(ValidOf(none)) \/ words = Null
      THEN Fail
      ELSE Scattered(t, n, words, valid)

-----------------------------------------------------------------------------
\* All rows of a decimal fit its words, the null ones too.
Decimal(t, n, words, log, valid) ==
  LET x == [i \in 1..n |-> SignedIn(words[i], ByteBits * 2 ^ log)]
  IN  IF \E i \in 1..n : ~FitsBits(x[i], DecimalBits(t[Root])) THEN Fail
      ELSE WithValidity(WithNumbers(Empty(t, n), x), valid)

DecimalParts(t, n, part) ==
  WithValidity(WithNumbers(Empty(t, n), [i \in 1..n |-> Signed(Numbers(part)[i])]),
               part.cols[Root].valid)

\* Steps of a timestamp's unit in a second.
UnitFactor(unit) == UnitRadix ^ (3 - unit)

PartOf(kind, v, i) == IF kind = "signed" THEN Signed(Numbers(v)[i]) ELSE Numbers(v)[i]

DatetimeParts(t, n, kinds, parts) ==
  LET factor == UnitFactor(t[Root].unit)
      out == WithValidity(Empty(t, n), parts[1].cols[Root].valid)
      part(k, i) == PartOf(kinds[k], parts[k], i)
      value(i) == part(1, i) * DaySeconds * factor + part(2, i) * factor + part(3, i)
  IN  IF \E i \in ValidOf(out) : ~InRange("signed", value(i)) THEN Fail
      ELSE WithNumbers(out, [i \in 1..n |-> IF i \in ValidOf(out) THEN value(i) % Bits(Width) ELSE 0])

AlpFloats(v, exp, factor) ==
  WithNumbers(v, [i \in 1..v.n |-> AlpFloat(Signed(Numbers(v)[i]), exp, factor)])
=============================================================================
