--------------------------- MODULE SegmentArrayMC ---------------------------
(***************************************************************************)
(* Segments of up to 9 bytes with up to 3 buffers, which fit, fill the     *)
(* segment or exceed it by any number of bytes; and, in a segment that is  *)
(* all right, small arrays of each encoding, alone and inside others,      *)
(* sound ones and ones that are off by one somewhere.                      *)
(***************************************************************************)
EXTENDS SegmentArray, ArrayMeaning, ProtobufWriter

Plain ==
  [enc |-> "primitive", kids |-> <<>>, words |-> <<>>, scalar |-> NumberRow(0), step |-> 0,
   count |-> 0, nullable |-> FALSE, patched |-> FALSE, patches |-> 0, chunked |-> FALSE,
   chunks |-> 0, off |-> 0, indices |-> 0, starts |-> 0, bw |-> 0, bufs |-> <<>>, parts |-> <<>>,
   views |-> Null, frames |-> <<>>, packed |-> <<>>, pages |-> <<>>,
   message |-> <<>>, written |-> TRUE]

Of(enc, kids) == [Plain EXCEPT !.enc = enc, !.kids = kids]
Primitive(words) == [Plain EXCEPT !.words = words]
Bool(words) == [Primitive(words) EXCEPT !.enc = "bytebool"]
Holed(words, mask) == [Primitive(words) EXCEPT !.kids = <<Bool(mask)>>]
Scalar(enc, s) == [Of(enc, <<>>) EXCEPT !.scalar = s]
Constants(x) == Scalar("constant", NumberRow(x))

Input(node, t, n) == [node |-> node, typ |-> t, n |-> n]

Utf8(nullable) == Flat("utf8", nullable)
Binary(nullable) == Flat("binary", nullable)
DecimalOf(precision, scale, nullable) ==
  [p \in {Root} |-> [kind |-> "decimal", nullable |-> nullable, precision |-> precision, scale |-> scale]]
Extension(id, unit, rest, size, nullable) ==
  [p \in {Root} |-> [kind |-> "extension", nullable |-> nullable, id |-> id, unit |-> unit, rest |-> rest,
                     storage |-> [kind |-> "signed", nullable |-> nullable, size |-> size]]]
Timestamp(unit, nullable) == Extension("timestamp", unit, "zone", 64, nullable)

\* Bytes cut from a buffer, in rows of some lengths.
RECURSIVE Offsets(_, _)
Offsets(start, rows) ==
  IF rows = <<>> THEN <<start>> ELSE <<start>> \o Offsets(start + Len(Head(rows)), Tail(rows))
Texts(rows) ==
  [Of("varbin", <<Primitive(Offsets(0, rows))>>) EXCEPT !.bufs = <<FlattenSeq(rows)>>, !.parts = <<"unsigned">>]

Unsigned(nullable) == Flat("unsigned", nullable)
Pair(nullable, fieldNullable) ==
  [p \in {<<>>, <<1>>, <<2>>} |->
     CASE p = <<>> -> [kind |-> "struct", nullable |-> nullable]
       [] p = <<1>> -> [kind |-> "unsigned", nullable |-> fieldNullable]
       [] p = <<2>> -> [kind |-> "null", nullable |-> FALSE]]

Simple == Input(Primitive(<<1, 2>>), Unsigned(FALSE), 2)

\* Two rows of a number, or of a pair; nulls at the root, in a field, or none.
TwoNumbers == {Primitive(<<1, 2>>), Holed(<<1, 2>>, <<1, 0>>), Constants(3), Constants(Null)}
Fielded(x) == Of("struct", <<x, Of("null", <<>>)>>)
Pairs ==
  {Fielded(x) : x \in {Primitive(<<1, 2>>), Holed(<<1, 2>>, <<0, 1>>)}}
    \cup {Of("struct", <<Bool(<<0, 1>>), Holed(<<1, 2>>, <<1, 0>>), Of("null", <<>>)>>),
          Scalar("constant", [p \in {<<>>, <<1>>, <<2>>} |-> IF p = <<1>> THEN 2 ELSE IF p = <<>> THEN 0 ELSE Null]),
          Scalar("constant", [p \in {<<>>, <<1>>, <<2>>} |-> IF p = <<>> THEN 0 ELSE Null]),
          Scalar("constant", [p \in {<<>>, <<1>>, <<2>>} |-> Null])}

Typed ==
  ({Unsigned(b) : b \in BOOLEAN} \X TwoNumbers) \cup ({Pair(b, c) : b, c \in BOOLEAN} \X Pairs)
    \cup ({Timestamp(3, TRUE)} \X {Of("ext", <<Holed(<<1, 7>>, <<0, 1>>)>>), Constants(-2)})
    \cup ({DecimalOf(2, 1, FALSE)} \X {[Primitive(<<1, 2>>) EXCEPT !.enc = "decimal"], Constants(4)})

TypedBytes == {Utf8(TRUE), Binary(FALSE)} \X {Texts(<<<<1, 2>>, <<>>>>), Constants(<<3>>)}

Codes ==
  {Primitive(<<a, b>>) : a, b \in 0..2} \cup {Holed(<<a, b>>, m) : a, b \in {1, 3}, m \in {<<0, 1>>, <<1, 1>>}}

Dictionaries(typed) ==
  {Input([Of("dict", <<c, tv[2]>>) EXCEPT !.count = 2, !.nullable = b], tv[1], 2) :
     c \in Codes, tv \in typed, b \in BOOLEAN}

Ends == {<<1, 2>>, <<1, 3>>, <<2, 4>>, <<3, 5>>, <<0, 3>>, <<2, 2>>, <<3, 1>>}

Runs(typed) ==
  {Input([Of("runend", <<Primitive(e), tv[2]>>) EXCEPT !.count = 2, !.off = off], tv[1], n) :
     e \in Ends, tv \in typed, off \in 0..2, n \in {0, 2, 3}}

\* Patches of a slice that starts at row `off`, over a fill or packed numbers.
With(node, indices, values, off) ==
  [node EXCEPT !.kids = <<Primitive(indices), values>> \o @, !.patched = TRUE,
               !.patches = Len(indices), !.off = off]

Fills(t) ==
  IF Root = The({p \in DOMAIN t : Len(p) = 0}) /\ FieldCount(t) = 0
  THEN {NumberRow(IF t[Root].kind \in Bytes THEN <<1>> ELSE 1), NumberRow(Null)}
  ELSE {[p \in DOMAIN t |-> IF p = <<2>> THEN Null ELSE 1],
        [p \in DOMAIN t |-> IF p = Root THEN 1 ELSE Null], [p \in DOMAIN t |-> Null]}

Sparse(typed) ==
  UNION {{Input(With(Scalar("sparse", s), x, tv[2], off), tv[1], 3) :
            s \in Fills(tv[1]), x \in {<<0, 1>>, <<1, 2>>, <<1, 3>>, <<2, 2>>, <<3, 1>>, <<2, 4>>},
            off \in 0..2} : tv \in typed}

Packed ==
  {Input([With([Primitive(<<4, 5, 6>>) EXCEPT !.kids = own, !.enc = "bitpacked"], x, Primitive(<<1, 2>>), off)
            EXCEPT !.kids = IF c = <<>> THEN @ ELSE SubSeq(@, 1, 2) \o <<Primitive(c)>> \o SubSeq(@, 3, Len(@)),
                   !.chunked = c # <<>>, !.chunks = Len(c)], Flat(kind, b), 3) :
     own \in {<<>>, <<Bool(<<1, 0, 1>>)>>, <<Bool(<<1, 0>>)>>}, x \in {<<0, 1>>, <<1, 2>>, <<1, 3>>, <<2, 2>>},
     off \in {0, 1}, c \in {<<>>, <<0, 1>>, <<1, 0>>}, kind \in {"unsigned", "signed", "float"}, b \in BOOLEAN}

\* Two blocks of two rows, over three values.
RunLengths ==
  {Input([Of("rle", <<Primitive(<<4, 5, 6>>), idx, Primitive(starts)>>)
            EXCEPT !.count = 3, !.indices = 4, !.starts = Len(starts), !.off = off], Unsigned(b), n) :
     idx \in {Primitive(<<0, 1, 0, 0>>), Primitive(<<1, 0, 3, 0>>), Primitive(<<1, 1, 1, 2>>),
             Holed(<<3, 1, 0, 3>>, <<0, 1, 1, 0>>)},
     starts \in {<<0, 1>>, <<0, 2>>, <<1, 2>>, <<2, 1>>, <<0, 3>>, <<0, 4>>, <<0>>},
     off \in 0..2, n \in 0..4, b \in BOOLEAN}

Left == {Primitive(<<0, 1>>), Primitive(<<1, 2>>), Holed(<<0, 1>>, <<0, 1>>), Holed(<<3, 1>>, <<0, 1>>)}

Separate(numbers) == FlattenSeq([k \in DOMAIN numbers |-> Numbered(3, Varied(numbers[k]))])

\* The metadata of ALPRD in the ways a writer may choose, and in ways it may not.
Saying(bw, words) ==
  LET Said(b, count, dict, more) == Numbered(1, b) \o Numbered(2, count) \o dict \o more
      width == Varied(bw)
      count == Varied(Len(words))
      packed == FlattenSeq([k \in DOMAIN words |-> Varied(words[k])])
      last == Numbered(4, <<1>>)
  IN  <<[written |-> TRUE, message |-> Said(width, count, Sized(3, packed), last)],
        [written |-> TRUE,
         message |-> last \o Said(<<9>>, <<0>>, Separate(words), Said(Overlong(bw), count, <<>>, <<>>))],
        [written |-> TRUE, message |-> Said(width, count, Sized(3, <<words[1]>>), Separate(Tail(words) \o <<9>>))],
        [written |-> FALSE, message |-> Said(width, count, Sized(3, packed \o <<More>>), last)],
        [written |-> FALSE, message |-> Said(width, count, Separate(words) \o <<3 * 8 + 5, 0>>, last)],
        [written |-> FALSE, message |-> Said(width, Varied(Len(words) + 1), Sized(3, packed), last)],
        [written |-> FALSE, message |-> Said(width, count, Sized(3, packed), <<4 * 8>>)],
        [written |-> FALSE, message |-> Said(width, count, Sized(3, packed), <<4 * 8 + 3>>)],
        [written |-> FALSE, message |-> Said(width, count, Sized(3, packed), FlattenSeq([k \in 1..6 |-> last]))]>>

Double(l, right, w, bw, off, p, message, b) ==
  Input([Of("alprd", <<l, Primitive(right)>> \o p) EXCEPT
           !.words = <<0, w>>, !.bw = bw, !.patched = p # <<>>, !.patches = 1, !.off = off,
           !.message = message.message, !.written = message.written],
        Flat("float", b), 2)

Doubles ==
  {Double(l, right, w, bw, off, p, Saying(bw, <<0, w>>)[1], b) :
     l \in Left, right \in {<<0, 1>>, <<3, 2>>}, w \in {1, 4}, bw \in 0..3, b \in BOOLEAN, off \in {0, 1},
     p \in {<<>>} \cup {<<Primitive(<<i>>), Primitive(<<x>>)>> : i \in {1, 2}, x \in {2, 5}}}
    \cup {Double(l, <<0, 1>>, w, bw, 0, <<>>, Saying(bw, <<0, w>>)[k], b) :
            l \in Left, w \in {1, 4}, bw \in 0..3, k \in 1..9, b \in BOOLEAN}

Arithmetic ==
  {Input([Scalar("sequence", NumberRow(x)) EXCEPT !.step = step], Flat(kind, b), n) :
     x \in {Null} \cup (-4)..7, step \in {-7, -2, -1, 0, 1, 3, 7}, n \in 0..4,
     kind \in {"signed", "unsigned"}, b \in BOOLEAN}
    \cup {Input([Of(enc, <<c>>) EXCEPT !.scalar = NumberRow(x)], Flat(kind, b), 2) :
           enc \in {"for", "zigzag", "masked"}, c \in TwoNumbers \cup {Primitive(<<6, 7>>), Primitive(<<3>>)},
           x \in {-1, 2, 7, Null}, kind \in {"signed", "unsigned"}, b \in BOOLEAN}

Plainly ==
  {Input(tv[2], tv[1], n) : tv \in Typed, n \in 0..3}
    \cup {Input(Of("masked", <<tv[2], Bool(m)>>), tv[1], 2) : tv \in Typed, m \in {<<0, 1>>, <<1, 1>>}}
    \cup {Input(Of("other", <<>>), Unsigned(TRUE), 0), Input(Constants(1), Unsigned(TRUE), 33)}

\* Encodings of encodings, down to the limit on the depth and past it.
Inside ==
  {Input(Of("masked", <<i.node, Bool(<<1, 0>>)>>), i.typ, 2) : i \in {j \in Dictionaries(Typed) : j.n = 2}}
    \cup {Input([Of("dict", <<Primitive(<<1, 0>>), Of("masked", <<i.node, Bool(<<1, 0>>)>>)>>)
                   EXCEPT !.count = 2], i.typ, 2) : i \in {j \in Runs(Typed) : j.n = 2 /\ j.node.off = 1}}

-----------------------------------------------------------------------------
Masks == {<<>>, <<Bool(<<0, 1>>)>>, <<Bool(<<1, 1>>)>>}
BytesTypes == {Flat(kind, b) : kind \in Bytes, b \in BOOLEAN}

Bits8 == {<<1, 0, 1, 1, 0, 0, 1, 0>>}
Booleans ==
  {Input([Of("bool", m) EXCEPT !.words = w, !.off = off], Flat("bool", TRUE), n) :
     w \in Bits8 \cup {<<>>}, off \in {0, 3, 5, 6, 7, 8}, n \in 0..3, m \in Masks}

VarBins ==
  {Input([Of("varbin", <<Primitive(<<a, b, c>>)>> \o m) EXCEPT !.bufs = <<<<1, 2, 3>>>>, !.parts = <<part>>],
         t, 2) :
     a, b, c \in {0, 1, 3, 4}, part \in {"unsigned", "signed"}, t \in BytesTypes, m \in Masks}
    \cup {Input([Texts(<<<<1>>>>) EXCEPT !.parts = <<"float">>], Utf8(TRUE), 1),
          Input([Texts(<<<<1>>>>) EXCEPT !.bufs = <<>>], Utf8(TRUE), 1)}

View(size, bytes, buffer, offset) == [size |-> size, bytes |-> bytes, buffer |-> buffer, offset |-> offset]

SomeViews ==
  {View(0, <<0, 0>>, 0, 0), View(2, <<2, 3>>, 0, 0), View(3, <<1>>, 0, 0), View(3, <<2>>, 0, 0),
   View(3, <<2>>, 0, 1), View(4, <<1>>, 0, 0), View(3, <<1>>, 1, 0)}

Views ==
  {Input([Of("varbinview", m) EXCEPT !.bufs = d, !.views = <<v, w>>], t, 2) :
     d \in {<<>>, <<<<1, 2, 1>>>>, <<<<1, 2, 2, 0>>, <<1, 2, 1>>>>}, v, w \in SomeViews,
     t \in BytesTypes, m \in Masks}
    \cup {Input(Of("varbinview", <<>>), Binary(TRUE), 0),
          Input([Of("varbinview", <<>>) EXCEPT !.views = <<>>], Binary(TRUE), 1)}

\* Tables of symbols, and rows of codes with the lengths their text has or not.
Tables == {<<<<1, 2, 2, 0>>, <<2, 1>>>>, <<<<1, 2, 2, 0>>, <<2, 0>>>>, <<<<1, 2, 2, 0>>, <<2, 3>>>>,
           <<<<1, 2, 2, 0, 0, 0>>, <<2, 1>>>>}
SomeCodes == {<<>>, <<1, 0>>, <<3, 1>>, <<3>>, <<2>>, <<0, 3, 3>>}

TextLength(table, codes) ==
  LET text == IF SymbolsFit(table[1], table[2]) THEN Text(table[1], table[2], codes) ELSE Null
  IN  IF text = Null THEN 2 ELSE Len(text)

Symbolic ==
  UNION {LET lens == Primitive(<<TextLength(s, a) + off, TextLength(s, b)>>)
             codes == Texts(<<a, b>>)
         IN  {Input([Of("fsst", <<[codes EXCEPT !.kids = @ \o m], lens>>)
                       EXCEPT !.bufs = s, !.parts = <<"unsigned">>], t, 2) : t \in BytesTypes, m \in Masks}
               \cup
             {Input([Of("fsst", <<lens, codes.kids[1]>> \o m)
                       EXCEPT !.bufs = s \o codes.bufs, !.parts = <<"unsigned", "signed">>], t, 2) :
                t \in BytesTypes, m \in Masks \cup {<<Holed(<<1, 1>>, <<0, 1>>)>>, <<Bool(<<1, 2>>)>>}} :
         s \in Tables, a \in SomeCodes, b \in {<<0>>, <<1, 3, 2>>}, off \in {0, 1}}

Paired ==
  {Input([Of("onpair", <<Primitive(d), Primitive(c), Primitive(b), Primitive(l)>> \o m)
            EXCEPT !.bufs = <<<<1, 2, 3>>>>, !.count = 2, !.indices = 3,
                   !.parts = <<"unsigned", part, "unsigned", "unsigned">>], t, 2) :
     d \in {<<0, 1, 3>>, <<0, 1, 2>>, <<0, 0, 3>>, <<1, 2, 4>>, <<2, 1, 3>>}, c \in {<<0, 0, 1>>, <<1, 0, 2>>},
     b \in {<<0, 1, 3>>, <<0, 2, 2>>, <<0, 1, 4>>, <<2, 1, 2>>}, l \in {<<1, 2>>, <<1, 3>>, <<2, 0>>, <<2, 2>>},
     t \in BytesTypes, m \in Masks, part \in {"unsigned"}}
    \cup {Input([Of("onpair", <<Primitive(<<0>>), Primitive(<<>>), Primitive(<<0>>), Primitive(<<>>)>>)
                   EXCEPT !.bufs = <<<<>>>>, !.parts = <<"unsigned", part, "unsigned", "unsigned">>], Utf8(FALSE), 0) :
            part \in {"unsigned", "signed"}}

\* Frames of values, sound or with a count, a size or a rest that is not.
Packing(types, values, more) ==
  [header |-> more[1] + FoldLeft(LAMBDA sum, x : sum + (IF Utf8(TRUE) \in types THEN 4 + Len(x) ELSE WordBytes), more[2], values),
   values |-> values, rest |-> more[2]]

Compressed(types, Value(_)) ==
  UNION {LET packed == [k \in DOMAIN vs |-> Packing(types, [i \in DOMAIN vs[k] |-> Value(vs[k][i])], more)]
         IN  {Input([Of("zstd", m) EXCEPT
                       !.frames = [k \in DOMAIN vs |-> [size |-> packed[k].header - more[1], count |-> c]],
                       !.packed = packed, !.bufs = d[1], !.count = d[2]], t, n) :
                t \in types, m \in Masks, c \in 0..2, n \in {2, 3},
                d \in {<<<<>>, 0>>, <<<<<<1>>>>, 1>>, <<<<<<1>>>>, 2>>, <<<<>>, 1>>}} :
         vs \in {<<>>, <<<<1>>>>, <<<<1, 2>>>>, <<<<1>>, <<3>>>>, <<<<1>>, <<2, 2>>>>},
         more \in {<<0, 0>>, <<1, 0>>, <<0, 1>>}}

CompressedBytes == Compressed({Utf8(TRUE), Binary(FALSE)}, LAMBDA x : <<x>>)
CompressedNumbers == Compressed({Unsigned(TRUE), Flat("bool", TRUE)}, LAMBDA x : x)

Paged ==
  {Input([Of("pco", m) EXCEPT !.pages = pages, !.words = w, !.count = c], Flat(kind, TRUE), n) :
     m \in Masks, pages \in {<<>>, <<<<1>>>>, <<<<1, 1>>>>, <<<<2>>, <<>>>>, <<<<4>>>>},
     w \in {Null, <<5>>, <<5, 6>>, <<1, 2, 3, 4>>}, c \in {0, 1, 2}, n \in {2, 4}, kind \in {"signed", "bool", "null"}}
  \* Pcodec makes as many numbers as the pages say.
RealPages ==
  {i \in Paged : i.node.words # Null => Len(i.node.words) = FoldLeft(+, 0, FlattenSeq(i.node.pages))}

Decimals ==
  {Input([Primitive(<<x, y>>) EXCEPT !.enc = "decimal", !.bw = log, !.kids = m], DecimalOf(p, 1, b), 2) :
     x \in {0, 1, 3}, y \in {2, 7, 8, 12, 15, 127, 128, 255}, log \in 0..3, p \in {0, 1, 3, 4, 7, 8}, b \in BOOLEAN, m \in Masks}
RealDecimals == {i \in Decimals : i.node.bw = 3 \/ \A x \in Range(i.node.words) : x < Bits(ByteBits * 2 ^ i.node.bw)}

Parts ==
  {Input([Of("decimalparts", <<c>>) EXCEPT !.parts = <<part>>, !.count = lower], DecimalOf(p, s, b), 2) :
     c \in {Primitive(<<3, 4>>), Holed(<<5, 7>>, <<0, 1>>)}, part \in {"signed", "unsigned"}, lower \in 0..1,
     p \in {0, 1, 2, 3, 7}, s \in {0, 2}, b \in BOOLEAN}

Instants ==
  {Input([Of("datetimeparts", <<d, Primitive(<<x, y>>), Primitive(<<z, 0>>)>>)
            EXCEPT !.parts = <<"signed", part, "signed">>], Timestamp(unit, b), 2) :
     d \in {Primitive(<<0, 7>>), Primitive(<<1, 0>>), Holed(<<3, 7>>, <<0, 1>>)}, x \in {0, 7}, y \in {0, 1}, z \in {0, 3, 4, 7},
     part \in {"unsigned", "signed", "float"}, unit \in 0..3, b \in BOOLEAN}

Temporals ==
  {Input(node, Extension(id, unit, rest, size, b), 2) :
     node \in {Of("ext", <<Primitive(<<1, 7>>)>>), Of("ext", <<Holed(<<1, 7>>, <<0, 1>>)>>), Constants(-4), Constants(Null)},
     id \in {"date", "time", "timestamp", "other"}, unit \in 0..5, rest \in {"none", "zone", "other"},
     size \in {32, 64}, b \in BOOLEAN}

Floats ==
  {Input([Of("alp", <<c>> \o p) EXCEPT !.bw = exp, !.step = factor, !.patched = p # <<>>, !.patches = 1], Flat("float", b), 2) :
     c \in {Primitive(<<1, 6>>), Holed(<<0, 3>>, <<0, 1>>)}, exp \in {0, 2, 3}, factor \in {0, 1, 3}, b \in BOOLEAN,
     p \in {<<>>} \cup {<<Primitive(<<i>>), v>> : i \in 0..2, v \in {Primitive(<<5>>), Constants(Null)}}}

ConstantTexts == {Input(Constants(x), t, 2) : x \in {<<>>, <<1, 3>>, Null}, t \in BytesTypes}
ConstantDecimals ==
  {Input(Constants(x), DecimalOf(p, 0, b), 2) : x \in {-8, -1, 1, 7, 8, 127, Null}, p \in {3, 4, 7}, b \in BOOLEAN}

\* Numbers within and past each end of their kind, as constants, in a dictionary and
\* between patches.  Only a signed number is written with a sign.
Written ==
  {kx \in Numeric \X ({Null} \cup (-5)..9 \cup {13, 16, 21}) : kx[2] \in {Null} \cup Nat \/ kx[1] = "signed"}

ConstantNumbers ==
  UNION {LET t == Flat(kx[1], b)
             constant == Constants(kx[2])
         IN  {Input(constant, t, 2),
              Input([Of("dict", <<Primitive(<<1, 0>>), constant>>) EXCEPT !.count = 2], t, 2),
              Input(With([constant EXCEPT !.enc = "sparse"], <<1, 2>>, Primitive(<<6, 7>>), 1), t, 3)} :
         kx \in Written, b \in BOOLEAN}

\* Metadata with a field no encoding has, and ones that are cut: a primitive array
\* has none.
Unasked == Numbered(4, <<1>>)
Speaking ==
  {Input([node EXCEPT !.message = m, !.written = m = <<>> \/ (m = Unasked /\ node.enc # "primitive")],
         Flat("unsigned", TRUE), 2) : node \in TwoNumbers, m \in {<<>>, Unasked, Front(Unasked)}}

\* Arrays near the limits on memory: 512 bytes for the arrays of one tree, and for
\* the bytes of one column.
Row(x, length) == [i \in 1..length |-> x]
Fieldwise(k, t) ==
  [p \in {<<>>} \cup {<<i>> : i \in 1..k} |-> IF p = <<>> THEN [kind |-> "struct", nullable |-> FALSE] ELSE t[Root]]

Large ==
  {Input(Of("struct", [i \in 1..k |-> Constants(1)]), Fieldwise(k, Unsigned(FALSE)), n) : k \in 1..4, n \in {16, 21, 22, 32}}
    \cup {Input(Scalar("constant", [p \in {<<>>} \cup {<<i>> : i \in 1..k} |-> IF p = <<>> THEN 0 ELSE 1]),
                Fieldwise(k, Unsigned(FALSE)), n) : k \in 1..2, n \in {16, 17, 32}}

LargeTexts ==
  {Input(Constants(Row(1, length)), Binary(TRUE), n) : length \in {1, 24, 25, 51, 52}, n \in {10, 20, 21, 22}}

LargeValues ==
  {Input([Of("dict", <<Constants(0), Texts(<<Row(1, length)>>)>>) EXCEPT !.count = 1], Binary(FALSE), n) :
     length \in {1, 36, 37, 46, 47}, n \in {11, 14, 15}}
    \cup {Input([Of("zstd", <<>>) EXCEPT
                   !.frames = <<[size |-> 4 + length, count |-> 1]>>,
                   !.packed = <<[header |-> 4 + length, values |-> <<Row(1, length)>>, rest |-> 0]>>], Binary(FALSE), 1) :
            length \in {483, 484, 485}}

MCArrays ==
  <<{Simple}, Dictionaries(Typed), Runs(Typed), Sparse(Typed), Dictionaries(TypedBytes), Runs(TypedBytes), Sparse(TypedBytes),
    Packed, RunLengths, Doubles, Arithmetic, Plainly, Inside, Booleans, VarBins, Views, Symbolic, Paired,
    CompressedBytes, CompressedNumbers, RealPages, RealDecimals, Parts, Instants, Temporals, Floats, ConstantTexts,
    ConstantDecimals, ConstantNumbers, Speaking, Large, LargeTexts, LargeValues>>

\* Texts of symbols and codes only.
MCTexts == <<{Simple}, Symbolic>>

-----------------------------------------------------------------------------
Good ==
  [flat |-> TRUE, metadata |-> <<>>, says |-> "nothing", length |-> 9, trailer |-> 0, tree |-> TRUE,
   node |-> TRUE, buffers |-> <<>>]

Buffer(padding, length) == [padding |-> padding, length |-> length, plain |-> TRUE]

\* Metadata of a layout, and what they say.  A tree is a 9 here.
ATree == Sized(1, <<9>>)
ANumber == Numbered(1, <<1>>)
Says ==
  {<<"nothing", <<>>>>, <<"nothing", ATree \o ANumber>>, <<"tree", ATree>>, <<"tree", ANumber \o ATree>>}
Garbage == {<<1>>, Sized(1, <<>>) \o <<1 * 8 + 2>>, ATree \o Varied((MaxTag + 1) * 8) \o <<0>>, Front(ATree)}

Buffers ==
  UNION {[1..k -> {Buffer(p, n) : p \in 0..1, n \in {0, 1, 3}}] : k \in 0..2}
    \cup [1..3 -> {Buffer(0, 0), Buffer(0, 1), Buffer(1, 3)}]

MCSegments ==
  {[Good EXCEPT !.says = f[1], !.metadata = f[2], !.length = n, !.trailer = t, !.buffers = b] :
     f \in Says, n \in {0, 3, 4, 7, 8, 9}, t \in {0, 1, 3, 5, 6}, b \in Buffers}
    \cup {[Good EXCEPT !.length = 8, !.says = "garbage", !.metadata = m] : m \in Garbage}
    \cup {[Good EXCEPT !.flat = FALSE], [Good EXCEPT !.tree = FALSE],
          [Good EXCEPT !.length = 8, !.node = FALSE],
          [Good EXCEPT !.length = 8, !.buffers = <<[Buffer(0, 1) EXCEPT !.plain = FALSE]>>]}

MCSound == [Good EXCEPT !.length = 8]
MCOneSegment == {MCSound}

\* Bytes that are not valid UTF-8 have a 3; floats are any other bits.
MCIsUtf8(x) == \A i \in DOMAIN x : x[i] # 3
MCAlpFloat(x, exp, factor) == (3 * x + exp + 2 * factor) % Bits(Width)

-----------------------------------------------------------------------------
Done == decoded # Pending
TheRows == Rows(array.node, array.typ, array.n)
IsSound == Sound(array.node, array.typ, array.n, 0)
Lost == LosesError(array.node, array.typ, array.n, 0)

\* Rows with the instants that numbers of temporal types are.
InTime(t, row) ==
  [p \in DOMAIN t |->
     IF t[p].kind # "extension" \/ row[p] = Null THEN row[p]
     ELSE Signed(row[p]) * Nanoseconds[VortexUnits[t[p].unit + 1]]]

(* A decoded array has the rows it stands for, nulls at the root and in the *)
(* fields included, whatever encodings it is nested from: the loops over    *)
(* runs, codes, blocks, patches, views, symbols and frames meet every row   *)
(* of a slice at its place, the validity of each column is carried along, a *)
(* float is the bits of its width that were written (decode.go:617-636),    *)
(* and the Arrow type makes of a row what the type of the file means by it. *)
DecodesItsMeaning ==
  Done /\ decoded.ok /\ IsSound /\ ~Lost =>
    /\ [i \in 1..array.n |-> ArrowRow(decoded, i)] =
         [i \in 1..array.n |-> InTime(array.typ, TheRows[i])]
    /\ \A p \in DOMAIN decoded.cols :
          decoded.cols[p].nulls = Cardinality({i \in 1..array.n : ~IsValid(decoded.cols[p], i)})

(* An array is refused when its parts do not agree: a code, patch, view or  *)
(* row outside what it refers to, ends that do not cover the rows, a bool,  *)
(* integer or decimal that its bits would not stand for, a text that is cut *)
(* or no UTF-8, a null where the type has none, metadata where none belong, *)
(* at any depth.  One whose parts agree is refused only if there may not be *)
(* memory for it; a float with more bits than its type has is not refused.  *)
RefusesTheUnsound ==
  Done /\ segment.node /\ ~Lost =>
    /\ decoded.ok => IsSound /\ Expressible(array.typ, TheRows)
    /\ IsSound /\ Expressible(array.typ, TheRows) /\ Generous(array.node, array.typ, array.n) <= MaxDecode =>
         decoded.ok

(* All the arrays one array is made from share one budget, however they are *)
(* nested: what is decoded has columns and values of MaxDecode bytes at     *)
(* most, all of them counted.                                               *)
SharesOneBudget ==
  Done /\ decoded.ok /\ IsSound =>
    Footprint(array.node, array.typ, array.n) <= MaxDecode

(* Every child that an array asks for honours its declared nullability, and *)
(* is decoded, before the array is: decode.go has it so at the check it     *)
(* defers.                                                                  *)
ChildrenHonoured == Done /\ decoded.ok => ~Lost
=============================================================================

