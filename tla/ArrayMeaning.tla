---------------------------- MODULE ArrayMeaning ----------------------------
(***************************************************************************)
(* What an encoded array stands for, said row by row and independently of  *)
(* how it is decoded: a sequence of rows, each of them null or with a      *)
(* value; and when its parts agree with each other, so that it stands for  *)
(* anything at all.  A node that is `written` has metadata that say what   *)
(* is in the record.                                                       *)
(***************************************************************************)
EXTENDS ArrayDecode

\* A row is a function from paths too: null at a path, or the number there.
NullRow(t) == [p \in DOMAIN t |-> Null]

\* Nanoseconds of the units of Arrow, and of those of Vortex by their number.
Nanoseconds ==
  [ns |-> 1, us |-> UnitRadix, ms |-> UnitRadix ^ 2, s |-> UnitRadix ^ 3,
   day |-> DaySeconds * UnitRadix ^ 3]
VortexUnits == <<"ns", "us", "ms", "s", "day">>

\* The value at row i of an Arrow column.
ArrowValue(col, i) ==
  IF col.ends # <<>> THEN SubSeq(col.data, col.ends[i] + 1, col.ends[i + 1])
  ELSE IF col.data = <<>> THEN 0
  ELSE IF col.type.unit # "none" THEN Signed(col.data[i]) * Nanoseconds[col.type.unit]
  ELSE col.data[i]

ArrowRow(v, i) ==
  [p \in DOMAIN v.cols |->
     IF \E k \in 0..Len(p) : ~IsValid(v.cols[SubSeq(p, 1, k)], i) THEN Null
     ELSE ArrowValue(v.cols[p], i)]

Raw(x) == x % Bits(Width)
Number(row) == row[Root]
NumberRow(x) == [p \in {Root} |-> x]

ScalarRow(t, s) ==
  [p \in DOMAIN t |-> IF ~Reached(s, p) \/ s[p] = Null THEN Null
                      ELSE IF Stored(t[p]).kind \in Numeric THEN Raw(s[p])
                      ELSE IF t[p].kind = "struct" THEN 0 ELSE s[p]]

\* Rows r and r + 1 of an array are on two sides of an end.
Run(ends, r) == {k \in DOMAIN ends : (k = 1 \/ Number(ends[k - 1]) <= r) /\ r < Number(ends[k])}

Patch(node, idx, i) == {k \in 1..node.patches : Number(idx[k]) = node.off + i - 1}

The(S) == CHOOSE x \in S : TRUE

\* The integer that the bits of a word are in two's complement.
Complement(x, bits) == CHOOSE y \in (-Bits(bits - 1))..(Bits(bits - 1) - 1) : (y - x) % Bits(bits) = 0

\* The number that the bits of a word of some kind stand for: a float is its bits.
Standing(kind, word) == IF kind = "signed" THEN Complement(word, Width) ELSE word

\* A number has room in a word when the word still stands for it.  The bits of a
\* float are those of the word, whatever else is written above them.
HasRoom(kind, x) == kind = "float" \/ Standing(kind, Raw(x)) = x

\* What a scalar may say where a type has a column: the value of a row, or that
\* there is none.
MaySay(r, x) ==
  IF x = Null THEN r.nullable \/ r.kind = "null"
  ELSE /\ r.kind # "null"
       /\ r.kind = "bool" => x = 0 \/ x = 1
       /\ r.kind \in Integer \cup {"float"} => HasRoom(r.kind, x)
       /\ r.kind = "decimal" => Complement(x, DecimalBits(r)) = x
       /\ r.kind = "utf8" => IsUtf8(x)

\* A scalar says something of the root, and of the fields of a struct that is there.
SaysRow(t, s) ==
  \A p \in DOMAIN t :
    (\A q \in DOMAIN t : IsStrictPrefix(q, p) => s[q] # Null) => MaySay(Stored(t[p]), s[p])

\* Digits of a number without its sign, least significant first.
RECURSIVE Digits(_)
Digits(x) == IF x = 0 THEN <<>> ELSE IF x < 0 THEN Digits(-x) ELSE <<x % Radix>> \o Digits(x \div Radix)

\* Row i of an array with patches, those in kid[idx] and the next.
Patched(node, kid, idx, i, old) ==
  IF node.patched /\ Patch(node, kid[idx], i) # {}
  THEN kid[idx + 1][The(Patch(node, kid[idx], i))] ELSE old

Slice(words, from, to) == [k \in 1..(to - from) |-> words[from + k]]

\* The text of codes of FSST; no text when they end within an escape, or when
\* one of them has no symbol.
RECURSIVE Text(_, _, _)
Text(symbols, sizes, codes) ==
  LET Then(first, rest) ==
        LET text == Text(symbols, sizes, rest) IN IF text = Null THEN Null ELSE first \o text
  IN  IF codes = <<>> THEN <<>>
      ELSE IF Head(codes) = Escape
      THEN IF Len(codes) = 1 THEN Null ELSE Then(<<codes[2]>>, SubSeq(codes, 3, Len(codes)))
      ELSE IF Head(codes) \notin 0..(Len(sizes) - 1) THEN Null
      ELSE IF sizes[Head(codes) + 1] = 0 THEN Null
      ELSE Then(Slice(symbols, Head(codes) * SymbolSize, Head(codes) * SymbolSize + sizes[Head(codes) + 1]),
                Tail(codes))

\* Tokens of OnPair, and their text.
RECURSIVE Tokens(_, _, _)
Tokens(dict, at, codes) ==
  IF codes = <<>> THEN <<>>
  ELSE Slice(dict, Number(at[Head(codes) + 1]), Number(at[Head(codes) + 2])) \o Tokens(dict, at, Tail(codes))

\* The codes of row i.
FsstCodes(node, kid, i) ==
  IF Form(node) = "fsst3" THEN Slice(node.bufs[3], Number(kid[2][i]), Number(kid[2][i + 1]))
  ELSE Number(kid[1][i])
FsstLens(node, kid) == IF Form(node) = "fsst3" THEN kid[1] ELSE kid[2]

OnPairCodes(kid, i) ==
  [k \in 1..(Number(kid[3][i + 1]) - Number(kid[3][i])) |-> Number(kid[2][Number(kid[3][i]) + k])]

\* Frames, or what Pcodec made of pages, one after the other.
Streamed(node) ==
  IF node.enc = "pco" THEN node.words ELSE FlattenSeq([k \in 1..Len(node.packed) |-> node.packed[k].values])

\* Parts of a timestamp, in its unit.
Instant(node, t, kid, i) ==
  LET part(k) == IF node.parts[k] = "signed" THEN Complement(Number(kid[k][i]), Width) ELSE Number(kid[k][i])
      second == Nanoseconds["s"] \div Nanoseconds[VortexUnits[t[Root].unit + 1]]
  IN  part(1) * DaySeconds * second + part(2) * second + part(3)

LeftPart(node, kid, i) ==
  Number(Patched(node, kid, 3, i, NumberRow(node.words[Number(kid[1][i]) + 1])))

\* What row i of an array stands for, when the array is sound and its children
\* stand for `kid`.
Meaning(node, t, n, kid, i) ==
  LET masked(used) == Len(kid) > used /\ Number(kid[used + 1][i]) = 0
      own == Len(kid) - FieldCount(t)
      first(b) == Number(kid[3][b])
  IN  CASE node.enc = "null" -> NullRow(t)
        [] node.enc \in {"primitive", "bytebool"} ->
               IF masked(0) THEN NullRow(t) ELSE NumberRow(node.words[i])
        [] node.enc = "bool" -> IF masked(0) THEN NullRow(t) ELSE NumberRow(node.words[node.off + i])
        [] node.enc = "varbin" ->
               IF masked(1) THEN NullRow(t)
               ELSE NumberRow(Slice(node.bufs[1], Number(kid[1][i]), Number(kid[1][i + 1])))
        [] node.enc = "varbinview" ->
               IF masked(0) THEN NullRow(t)
               ELSE LET view == node.views[i]
                    IN  NumberRow(IF view.size <= Inline THEN Slice(view.bytes, 0, view.size)
                                  ELSE Slice(node.bufs[view.buffer + 1], view.offset, view.offset + view.size))
        [] node.enc = "fsst" ->
               IF (IF Form(node) = "fsst3" THEN masked(2) ELSE Number(kid[1][i]) = Null) THEN NullRow(t)
               ELSE NumberRow(Text(node.bufs[1], node.bufs[2], FsstCodes(node, kid, i)))
        [] node.enc = "onpair" ->
               IF masked(4) THEN NullRow(t) ELSE NumberRow(Tokens(node.bufs[1], kid[1], OnPairCodes(kid, i)))
        [] node.enc \in {"zstd", "pco"} ->
               IF masked(0) THEN NullRow(t)
               ELSE LET x == Streamed(node)[Cardinality({j \in 1..i : Len(kid) = 0 \/ Number(kid[1][j]) # 0})]
                    IN  NumberRow(IF t[Root].kind = "bool" /\ x # 0 THEN 1 ELSE x)
        [] node.enc = "decimal" ->
               IF masked(0) THEN NullRow(t) ELSE NumberRow(Complement(node.words[i], ByteBits * 2 ^ node.bw))
        [] node.enc = "decimalparts" ->
               IF Number(kid[1][i]) = Null THEN NullRow(t) ELSE NumberRow(Complement(Number(kid[1][i]), Width))
        [] node.enc = "datetimeparts" ->
               IF Number(kid[1][i]) = Null THEN NullRow(t) ELSE NumberRow(Raw(Instant(node, t, kid, i)))
        [] node.enc = "alp" ->
               Patched(node, kid, 2, i,
                 IF Number(kid[1][i]) = Null THEN NullRow(t)
                 ELSE NumberRow(AlpFloat(Complement(Number(kid[1][i]), Width), node.bw, node.step)))
        [] node.enc = "ext" -> kid[1][i]
        [] node.enc = "constant" -> ScalarRow(t, node.scalar)
        [] node.enc = "struct" ->
               IF own = 1 /\ Number(kid[1][i]) = 0 THEN NullRow(t)
               ELSE [p \in DOMAIN t |-> IF p = Root THEN 0 ELSE kid[Head(p) + own][i][Tail(p)]]
        [] node.enc = "masked" -> IF masked(1) THEN NullRow(t) ELSE kid[1][i]
        [] node.enc = "for" ->
               IF Number(kid[1][i]) = Null THEN NullRow(t)
               ELSE NumberRow(Raw(Number(kid[1][i]) + node.scalar[Root]))
        [] node.enc = "zigzag" ->
               IF Number(kid[1][i]) = Null THEN NullRow(t)
               ELSE NumberRow(Raw(<<0, -1, 1, -2, 2, -3, 3, -4>>[Number(kid[1][i]) + 1]))
        [] node.enc = "sequence" -> NumberRow(Raw(node.scalar[Root] + (i - 1) * node.step))
        [] node.enc = "dict" ->
               IF Number(kid[1][i]) = Null THEN NullRow(t) ELSE kid[2][Number(kid[1][i]) + 1]
        [] node.enc = "runend" -> kid[2][The(Run(kid[1], node.off + i - 1))]
        [] node.enc = "rle" ->
               LET r == node.off + i
                   b == (r - 1) \div Block + 1
                   last == IF b < node.starts THEN first(b + 1) ELSE node.count
               IN  IF Number(kid[2][r]) = Null THEN NullRow(t)
                   ELSE IF last = first(b) + 1 THEN kid[1][last]
                   ELSE kid[1][first(b) + Number(kid[2][r]) + 1]
        [] node.enc = "sparse" -> Patched(node, kid, 1, i, ScalarRow(t, node.scalar))
        [] node.enc = "bitpacked" ->
               IF masked(Len(Needed(node, t, n))) THEN NullRow(t)
               ELSE Patched(node, kid, 1, i, NumberRow(node.words[i]))
        [] node.enc = "alprd" ->
               IF Number(kid[1][i]) = Null THEN NullRow(t)
               ELSE NumberRow(Raw(LeftPart(node, kid, i) * Bits(node.bw) + Number(kid[2][i])))

RECURSIVE Rows(_, _, _)
Rows(node, t, n) ==
  LET asked == Children(node, t, n)
      kid == [i \in 1..Len(asked) |-> Rows(node.kids[i], asked[i].typ, asked[i].n)]
  IN  [i \in 1..n |-> Meaning(node, t, n, kid, i)]

Increasing(rows) == \A i, j \in DOMAIN rows : i < j => Number(rows[i]) < Number(rows[j])

\* The rows of some data: each ends where the next one starts, inside the data.
CutsOf(size, at, rows) ==
  \A i \in rows : Number(at[i]) <= Number(at[i + 1]) /\ Number(at[i + 1]) <= size

\* When children that stand for `kid` agree with each other and with the array.
Agree(node, t, n, kid) ==
  LET live(used) == {i \in 1..n : Len(kid) <= used \/ Number(kid[used + 1][i]) # 0}
      PatchesSound(idx) ==
        node.patched =>
          /\ Increasing(kid[idx])
          /\ \A k \in DOMAIN kid[idx] : Number(kid[idx][k]) \in node.off..(node.off + n - 1)
          /\ node.chunked => \A k \in 2..node.chunks :
                                Number(kid[idx + 2][k - 1]) <= Number(kid[idx + 2][k])
      Fits(row) ==
        LET r == node.off + row
            b == (r - 1) \div Block + 1
            first == Number(kid[3][b])
            last == IF b < node.starts THEN Number(kid[3][b + 1]) ELSE node.count
        IN  Number(kid[2][r]) # Null =>
              /\ first < last /\ last <= node.count
              /\ last = first + 1 \/ Number(kid[2][r]) < last - first
  IN  CASE node.enc \in {"constant", "for"} -> SaysRow(t, node.scalar)
        [] node.enc = "sequence" ->
               \A i \in {1} \cup 1..n : HasRoom(t[Root].kind, node.scalar[Root] + (i - 1) * node.step)
        [] node.enc = "dict" ->
               \A i \in 1..n : Number(kid[1][i]) \in {Null} \cup 0..(node.count - 1)
        [] node.enc = "runend" ->
               /\ Increasing(kid[1])
               /\ \A k \in DOMAIN kid[1] : Number(kid[1][k]) > 0
               /\ n > 0 => node.count > 0 /\ node.off + n <= Number(kid[1][node.count])
        [] node.enc = "rle" ->
               /\ node.off < Block /\ node.off + n <= node.indices
               /\ node.indices = node.starts * Block
               /\ \A i \in 1..n : Fits(i)
        [] node.enc = "sparse" -> SaysRow(t, node.scalar) /\ PatchesSound(1)
        [] node.enc = "bitpacked" -> PatchesSound(1)
        [] node.enc = "alprd" ->
               /\ node.bw < Width /\ node.bw + LeftWidth >= Width
               /\ \A k \in DOMAIN node.words : node.words[k] < Bits(LeftWidth)
               /\ PatchesSound(3)
               /\ \A i \in 1..n : Number(kid[1][i]) # Null =>
                     /\ Number(kid[1][i]) < Len(node.words)
                     /\ Number(kid[2][i]) < Bits(node.bw)
                     /\ LeftPart(node, kid, i) < Bits(LeftWidth)
        [] node.enc = "varbin" -> CutsOf(Len(node.bufs[1]), kid[1], 1..n)
        [] node.enc = "varbinview" ->
               \A i \in live(0) :
                 LET view == node.views[i]
                     data == node.bufs[view.buffer + 1]
                 IN  view.size > Inline =>
                       /\ view.buffer < Len(node.bufs)
                       /\ view.offset + view.size <= Len(data)
                       /\ \A k \in 1..Prefix : view.bytes[k] = data[view.offset + k]
        [] node.enc = "fsst" ->
               /\ Form(node) = "fsst3" => CutsOf(Len(node.bufs[3]), kid[2], 1..n)
               /\ \A i \in (IF Form(node) = "fsst3" THEN live(2)
                            ELSE {j \in 1..n : Number(kid[1][j]) # Null}) :
                     LET text == Text(node.bufs[1], node.bufs[2], FsstCodes(node, kid, i))
                     IN  text # Null /\ Len(text) = Number(FsstLens(node, kid)[i])
        [] node.enc = "onpair" ->
               /\ node.count <= Bits(Width)
               /\ CutsOf(Len(node.bufs[1]), kid[1], 1..node.count)
               /\ \A k \in 1..node.count : Number(kid[1][k]) # Number(kid[1][k + 1])
               /\ CutsOf(node.indices, kid[3], live(4))
               /\ \A i \in live(4) :
                     /\ \A k \in DOMAIN OnPairCodes(kid, i) : OnPairCodes(kid, i)[k] < node.count
                     /\ Len(Tokens(node.bufs[1], kid[1], OnPairCodes(kid, i))) = Number(kid[4][i])
        [] node.enc = "zstd" ->
               /\ Len(Streamed(node)) = Cardinality(live(0))
               /\ \A k \in DOMAIN node.frames :
                     LET packed == node.packed[k]
                         size(x) == IF t[Root].kind \in Bytes THEN 4 + Len(x) ELSE WordBytes
                     IN  /\ packed.rest = 0 /\ node.frames[k].count \in {0, Len(packed.values)}
                         /\ {node.frames[k].size, packed.header} =
                              {FoldLeft(LAMBDA sum, x : sum + size(x), 0, packed.values)}
        [] node.enc = "pco" ->
               /\ node.words # Null /\ \A k \in DOMAIN node.pages : \A x \in Range(node.pages[k]) : x <= MaxPage
               /\ FoldLeft(+, 0, FlattenSeq(node.pages)) = Cardinality(live(0))
        [] node.enc = "decimal" ->
               \A i \in 1..n : FitsBits(Complement(node.words[i], ByteBits * 2 ^ node.bw), DecimalBits(t[Root]))
        [] node.enc = "datetimeparts" ->
               \A i \in 1..n : Number(kid[1][i]) # Null =>
                 Instant(node, t, kid, i) \in (-Bits(Width - 1))..(Bits(Width - 1) - 1)
        [] node.enc = "alp" -> PatchesSound(2)
        [] OTHER -> TRUE

\* When an array is sound: its parts are, and agree with each other.
RECURSIVE Sound(_, _, _, _)
Sound(node, t, n, depth) ==
  LET asked == Children(node, t, n)
      kid == [i \in 1..Len(asked) |-> Rows(node.kids[i], asked[i].typ, asked[i].n)]
  IN  /\ depth < MaxDepth /\ n <= MaxRows /\ Canonical(t)
      /\ node.written /\ Shaped(node, t, n) /\ CountFits(node, t, n)
      /\ \A i \in 1..Len(asked) : Sound(node.kids[i], asked[i].typ, asked[i].n, depth + 1)
      /\ Agree(node, t, n, kid)
      /\ \A i \in 1..n :
            LET x == Rows(node, t, n)[i][Root]
            IN  /\ x = Null => t[Root].nullable \/ t[Root].kind = "null"
                /\ x # Null /\ t[Root].kind = "utf8" => IsUtf8(x)

\* An array that has a child with an error that decoding it loses.
RECURSIVE LosesError(_, _, _, _)
LosesError(node, t, n, depth) ==
  LET asked == Children(node, t, n)
  IN  \E i \in 1..Len(asked) :
        \/ ErrorLost(node, i) /\ ~Sound(node.kids[i], asked[i].typ, asked[i].n, depth + 1)
        \/ LosesError(node.kids[i], asked[i].typ, asked[i].n, depth + 1)

\* What Arrow has room for.
Expressible(t, rows) ==
  /\ HasArrowType(t)
  /\ \A p \in DOMAIN t :
        LET there == {i \in DOMAIN rows : rows[i][p] # Null}
        IN  /\ t[p].kind \in Bytes => MapThenSumSet(LAMBDA i : Len(rows[i][p]), there) <= MaxDecode
            /\ t[p].kind = "decimal" => \A i \in there : Len(Digits(rows[i][p])) <= t[p].precision

-----------------------------------------------------------------------------
(* The memory an array takes.                                              *)

Cells(t) == MapThenSumSet(LAMBDA p : CellBytes(t[p]), DOMAIN t)

\* Bytes of the values that an array has outside its cells.
TextBytes(node, t, n) ==
  IF node.enc \in {"fsst", "onpair"}
  THEN LET rows == Rows(node, t, n)
       IN  MapThenSumSet(LAMBDA i : Len(rows[i][Root]), {i \in 1..n : rows[i][Root] # Null})
  ELSE IF node.enc = "zstd" THEN FoldLeft(LAMBDA sum, f : sum + f.size, 0, node.frames)
  ELSE IF node.enc = "pco" THEN WordBytes * Len(node.words) ELSE 0

\* The columns of an array and of those it is made from, each counted once: some
\* encodings change the columns of a child and have none of their own.
RECURSIVE Footprint(_, _, _)
Footprint(node, t, n) ==
  LET asked == Children(node, t, n)
      own == IF node.enc \in {"struct", "masked", "ext", "zigzag", "for", "alp", "alprd"} THEN 0
             ELSE n * Cells(t) + TextBytes(node, t, n)
  IN  own + FoldLeft(LAMBDA sum, i : sum + Footprint(node.kids[i], asked[i].typ, asked[i].n), 0,
                     [i \in 1..Len(asked) |-> i])

\* No less than what decoding takes, with masks and what it makes twice.
RECURSIVE Generous(_, _, _)
Generous(node, t, n) ==
  LET asked == Children(node, t, n)
      deepest == Max({Len(p) : p \in DOMAIN t})
  IN  n * (Cells(t) * (deepest + 2) + Cardinality(DOMAIN t) + 1) + 24 * node.count + 8 + TextBytes(node, t, n)
        + FoldLeft(LAMBDA sum, i : sum + Generous(node.kids[i], asked[i].typ, asked[i].n), 0,
                   [i \in 1..Len(asked) |-> i])
=============================================================================
