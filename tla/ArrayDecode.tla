----------------------------- MODULE ArrayDecode -----------------------------
(***************************************************************************)
(* Decoding a tree of encoded arrays (internal/encoding, decode.go): which *)
(* children an encoding has, what types and how many rows it asks of them, *)
(* the budget that all of them share, and the nullability every array must *)
(* honour before a parent uses it.                                         *)
(*                                                                         *)
(* A node is a record: its encoding, its children, the numbers of its      *)
(* metadata and buffers, and its scalar.  A buffer is the numbers or bytes *)
(* it holds; which bits they are packed in is another matter (FastLanes).  *)
(* Its `message` is the bytes of its metadata.  Those of ALPRD are read    *)
(* here, and a primitive array has none; what the others say is in the     *)
(* record.                                                                 *)
(***************************************************************************)
EXTENDS ValueCodecs, Protobuf

CONSTANTS MaxDepth \* 64

MaxRows == MaxDecode \div 16

-----------------------------------------------------------------------------
(* What an encoding asks of its children, in order.                        *)

Ask(typ, n) == [typ |-> typ, n |-> n]
Mask(n) == Ask(Flat("bool", FALSE), n)
Index(n) == Ask(Flat("unsigned", FALSE), n)

\* decoder.patches: indices, values, and perhaps offsets of chunks.
AskPatches(node, typ) ==
  IF ~node.patched THEN <<>>
  ELSE <<Index(node.patches), Ask(typ, node.patches)>>
         \o (IF node.chunked THEN <<Index(node.chunks)>> ELSE <<>>)

\* A number of the kind the metadata names.
AskPart(node, k, nullable, n) == Ask(Flat(node.parts[k], nullable), n)

Needed(node, t, n) ==
  CASE node.enc \in {"for", "masked"} -> <<Ask(IF node.enc = "masked" THEN NonNull(t) ELSE t, n)>>
    [] node.enc = "zigzag" -> <<Ask(Flat("unsigned", t[Root].nullable), n)>>
    [] node.enc = "dict" -> <<Ask(Flat("unsigned", node.nullable), n), Ask(t, node.count)>>
    [] node.enc = "runend" -> <<Index(node.count), Ask(t, node.count)>>
    [] node.enc = "rle" ->
         <<Ask(NonNull(t), node.count), Ask(Flat("unsigned", t[Root].nullable), node.indices),
           Index(node.starts)>>
    [] node.enc \in {"sparse", "bitpacked"} -> AskPatches(node, t)
    [] node.enc = "alprd" ->
         <<Ask(Flat("unsigned", t[Root].nullable), n), Ask(Flat("unsigned", FALSE), n)>>
           \o AskPatches(node, Flat("unsigned", FALSE))
    [] node.enc = "alp" -> <<Ask(Flat("signed", t[Root].nullable), n)>> \o AskPatches(node, t)
    [] node.enc = "ext" -> <<Ask([p \in {Root} |-> Stored(t[Root])], n)>>
    [] node.enc = "varbin" -> <<AskPart(node, 1, FALSE, n + 1)>>
    [] node.enc = "fsst" /\ Len(node.bufs) = 2 ->
         <<Ask(Flat("binary", t[Root].nullable), n), AskPart(node, 1, FALSE, n)>>
    [] node.enc = "fsst" -> <<AskPart(node, 1, FALSE, n), AskPart(node, 2, FALSE, n + 1)>>
    [] node.enc = "onpair" ->
         <<AskPart(node, 1, FALSE, node.count + 1), AskPart(node, 2, FALSE, node.indices),
           AskPart(node, 3, FALSE, n + 1), AskPart(node, 4, FALSE, n)>>
    [] node.enc = "decimalparts" -> <<AskPart(node, 1, t[Root].nullable, n)>>
    [] node.enc = "datetimeparts" -> [k \in 1..3 |-> AskPart(node, k, k = 1 /\ t[Root].nullable, n)]
    [] OTHER -> <<>>

Fields(t, n) == [i \in 1..FieldCount(t) |-> Ask(Field(t, i), n)]

\* With the mask some encodings may have: before the fields of a struct, else last.
MayBeMasked ==
  {"primitive", "bytebool", "bool", "masked", "bitpacked", "varbin", "varbinview", "fsst3", "onpair",
   "zstd", "pco", "decimal"}

Form(node) == IF node.enc = "fsst" /\ Len(node.bufs) = 3 THEN "fsst3" ELSE node.enc

Children(node, t, n) ==
  LET needed == IF node.enc = "struct" THEN Fields(t, n) ELSE Needed(node, t, n)
  IN  IF Len(node.kids) # Len(needed) + 1 THEN needed
      ELSE IF node.enc = "struct" THEN <<Mask(n)>> \o needed
      ELSE IF Form(node) \in MayBeMasked THEN needed \o <<Mask(n)>>
      ELSE needed

\* Children past those that some arrays ask for are not looked at.
CountFits(node, t, n) ==
  \/ Len(node.kids) = Len(Children(node, t, n))
  \/ /\ node.enc \in {"null", "sparse", "fsst", "decimalparts"}
     /\ Len(node.kids) >= Len(Children(node, t, n))

\* The error of this child is lost: it is assigned to a variable that hides the
\* one that is tested, and the array has no mask then.
ErrorLost(node, i) == Form(node) = "fsst3" /\ i = 3

BytesShaped(node, n) ==
  /\ \A k \in 1..Len(node.parts) : node.parts[k] \in Integer
  /\ CASE node.enc = "varbin" -> Len(node.bufs) = 1
       [] node.enc = "varbinview" -> node.views # Null /\ Len(node.views) = n
       [] node.enc = "fsst" -> Len(node.bufs) \in 2..3 /\ SymbolsFit(node.bufs[1], node.bufs[2])
       [] node.enc = "onpair" -> Len(node.bufs) = 1 /\ "signed" \notin Range(node.parts)

\* The bits of booleans start at an offset in a byte.
BoolFits(node, n) == node.off < 8 /\ Len(node.words) >= n + node.off

\* What an encoding requires of its type, metadata and buffers.
Shaped(node, t, n) ==
  LET kind == t[Root].kind
  IN  CASE node.enc = "null" -> kind = "null"
        [] node.enc = "primitive" ->
             kind \in Numeric \ {"bool"} /\ node.message = <<>> /\ Len(node.words) = n
        [] node.enc = "bytebool" ->
             kind = "bool" /\ node.off < 8 /\ Len(node.words) = n /\ \A i \in 1..n : node.words[i] <= 1
        [] node.enc = "bool" -> kind = "bool" /\ BoolFits(node, n)
        [] node.enc = "struct" -> kind = "struct"
        [] node.enc \in {"for", "sequence"} -> kind \in Integer /\ node.scalar[Root] # Null
        [] node.enc = "zigzag" -> kind = "signed"
        [] node.enc = "bitpacked" -> kind \in Integer /\ Len(node.words) = n
        [] node.enc = "rle" -> kind \in Numeric
        [] node.enc \in {"varbin", "varbinview", "fsst", "onpair"} -> kind \in Bytes /\ BytesShaped(node, n)
        [] node.enc = "zstd" ->
             LET rest == IF node.count = 0 THEN node.bufs ELSE Tail(node.bufs)
             IN  /\ kind \in Numeric \cup Bytes
                 /\ node.count # 0 => node.bufs # <<>> /\ Len(Head(node.bufs)) = node.count
                 /\ rest = <<>> /\ Len(node.frames) = Len(node.packed)
        [] node.enc = "pco" -> kind \in Numeric \ {"bool"} /\ node.count >= Len(node.pages)
        [] node.enc = "decimal" -> kind = "decimal" /\ node.bw <= WideLog /\ Len(node.words) = n
                                   /\ HasArrowType(t)
        [] node.enc = "decimalparts" -> kind = "decimal" /\ node.count = 0 /\ node.parts[1] = "signed"
        [] node.enc = "datetimeparts" ->
             /\ kind = "extension" /\ t[Root].id = "timestamp" /\ HasArrowType(t)
             /\ \A k \in 1..3 : node.parts[k] \in Integer
        [] node.enc = "alp" -> kind = "float" /\ node.bw <= AlpLimit /\ node.step <= AlpLimit
        [] node.enc = "ext" -> kind = "extension" /\ HasArrowType(t)
        [] node.enc = "alprd" -> kind = "float"
        [] OTHER -> node.enc \in {"constant", "masked", "dict", "runend", "sparse"}

\* The metadata of ALPRD: the bits of the right parts, and the left ones of a
\* dictionary, of which the first Num(fields, 2) count.
RightWidth(fields) == Num(fields, 1)
LeftDictionary(fields) == SubSeq(Repeated(fields, 3).numbers, 1, Num(fields, 2))

DoublesFit(fields, left) ==
  /\ RightWidth(fields) < Width /\ RightWidth(fields) + LeftWidth >= Width
  /\ left.ok
  /\ Num(fields, 2) <= Lower(Len(left.numbers), Bits(LeftWidth))
  /\ \A k \in 1..Num(fields, 2) : left.numbers[k] < Bits(LeftWidth)

\* Every array has metadata that are a message; those of ALPRD are modelled.
MessageFits(node) ==
  LET Fits(m) == m.ok /\ (node.enc = "alprd" => DoublesFit(m.fields, Repeated(m.fields, 3)))
  IN  Fits(ParseProto(node.message))

-----------------------------------------------------------------------------
(* The children, decoded.                                                  *)

\* The mask of an array whose other children are the first `used`.
OwnMask(kids, used) ==
  IF Len(kids) = used \/ ~kids[used + 1].ok THEN <<>> ELSE Validity(kids[used + 1])

\* Patches of children from number `first` on, when there are any.  Those of
\* ALPRD correct numbers and leave the validity alone.
WithPatches(node, out, kids, first) ==
  IF ~out.ok \/ ~node.patched THEN out
  ELSE IF node.chunked /\ ~Sorted(Numbers(kids[first + 2])) THEN Fail
  ELSE IF node.enc = "alprd" THEN NumericPatches(out, kids[first], kids[first + 1], node.off)
  ELSE Patches(out, kids[first], kids[first + 1], node.off)

Decoded(node, t, n, kids) ==
  LET words == WithNumbers(Empty(t, n), node.words)
      own == OwnMask(kids, Len(Needed(node, t, n)))
      \* A mask replaces the validity patches brought.
      Own(out) ==
        IF ~out.ok THEN out
        ELSE WithValidity(out, own)
      Right(left, fields) == IF ~left.ok THEN left ELSE Joined(left, kids[2], RightWidth(fields))
      Doubles(fields) ==
        Right(WithPatches(node, LeftParts(kids[1], LeftDictionary(fields)), kids, 3), fields)
  IN  CASE node.enc = "null" -> Empty(t, n)
        [] node.enc \in {"primitive", "bytebool"} -> Own(words)
        [] node.enc = "bool" -> Own(WithNumbers(words, SubSeq(node.words, node.off + 1, node.off + n)))
        [] node.enc = "constant" -> Constant(t, n, node.scalar)
        [] node.enc = "struct" ->
             LET masks == Len(kids) - FieldCount(t)
             IN  Struct(t, n, [i \in 1..FieldCount(t) |-> kids[i + masks]],
                        IF masks = 1 THEN Validity(kids[1]) ELSE <<>>)
        [] node.enc = "masked" -> Own(kids[1])
        [] node.enc = "for" ->
             IF ScalarFits(t, node.scalar) THEN FrameOfReference(kids[1], node.scalar[Root])
             ELSE Fail
        [] node.enc = "zigzag" -> ZigZagged(kids[1])
        [] node.enc = "sequence" -> Sequence(t, n, node.scalar[Root], node.step)
        [] node.enc = "dict" -> Dictionary(t, n, kids[1], kids[2])
        [] node.enc = "runend" -> RunEnd(t, n, kids[1], kids[2], node.off)
        [] node.enc = "rle" -> RunLength(t, n, kids[1], kids[2], kids[3], node.off)
        [] node.enc = "sparse" ->
             WithPatches(node, Constant(t, n, node.scalar), kids, 1)
        [] node.enc = "bitpacked" -> Own(WithPatches(node, words, kids, 1))
        [] node.enc = "alprd" -> Doubles(ParseProto(node.message).fields)
        [] node.enc = "alp" -> WithPatches(node, AlpFloats(kids[1], node.bw, node.step), kids, 2)
        [] node.enc = "ext" -> kids[1]
        [] node.enc = "varbin" -> VarBin(t, n, node.bufs[1], kids[1], own)
        [] node.enc = "varbinview" -> VarBinView(t, n, node.bufs, node.views, own)
        [] Form(node) = "fsst3" ->
             LET codes == CodesOf(t, n, node.bufs[3], kids[2], own)
             IN  IF ~codes.ok THEN Fail ELSE Fsst(t, n, node.bufs[1], node.bufs[2], codes, kids[1])
        [] node.enc = "fsst" -> Fsst(t, n, node.bufs[1], node.bufs[2], kids[1], kids[2])
        [] node.enc = "onpair" ->
             OnPair(t, n, node.bufs[1], node.count, kids[1], kids[2], kids[3], kids[4], own)
        [] node.enc = "zstd" -> Zstd(t, n, node.frames, node.packed, own)
        [] node.enc = "pco" -> Pco(t, n, node.pages, node.words, own)
        [] node.enc = "decimal" -> Decimal(t, n, node.words, node.bw, own)
        [] node.enc = "decimalparts" -> DecimalParts(t, n, kids[1])
        [] node.enc = "datetimeparts" -> DatetimeParts(t, n, node.parts, kids)

-----------------------------------------------------------------------------
(* The budget.  What is charged after a failure is of no consequence, but  *)
(* for the child whose error is lost: it is taken to charge nothing.       *)

CellBytes(r) ==
  CASE Stored(r).kind \in Bytes -> 24
    [] Stored(r).kind = "decimal" -> DecimalBytes(Stored(r))
    [] Stored(r).kind \in Numeric -> 8
    [] Stored(r).kind = "null" -> 1
    [] OTHER -> 0

EmptyBytes(t, n) == n * MapThenSumSet(LAMBDA p : CellBytes(t[p]), DOMAIN t)

\* Each level of a struct makes its fields anew.
ConstantBytes(t, n, s) ==
  LET makes(p) == Cardinality({k \in 0..Len(p) : Reached(s, SubSeq(p, 1, k))})
  IN  n * MapThenSumSet(LAMBDA p : CellBytes(t[p]) * makes(p), DOMAIN t)

\* The columns that have a mask in v, but had none.
MaskBytes(before, v) ==
  v.n * Cardinality({p \in DOMAIN v.cols : before.cols[p].valid = <<>> /\ v.cols[p].valid # <<>>})

\* Values that are made anew.
ValueBytes(lens, out) == MapThenSumSet(LAMBDA i : Numbers(lens)[i], ValidOf(out))

Reserved(node, t, n, kids, out) ==
  LET own == IF Len(kids) > Len(Needed(node, t, n)) /\ kids[Len(kids)].ok THEN n ELSE 0
      none == EmptyBytes(t, n)
      masks == MaskBytes(Empty(t, n), out)
  IN  CASE node.enc = "constant" -> ConstantBytes(t, n, node.scalar)
        [] node.enc = "sparse" ->
             ConstantBytes(t, n, node.scalar) + MaskBytes(Constant(t, n, node.scalar), out)
        [] node.enc \in {"struct", "zigzag", "ext", "alprd"} -> 0
        [] node.enc = "masked" -> own
        [] node.enc = "alp" -> MaskBytes(kids[1], out)
        [] node.enc = "for" -> 8
        [] node.enc = "sequence" -> none + 8
        [] node.enc \in {"dict", "runend", "rle"} -> none + masks
        [] node.enc = "bitpacked" ->
             none + own + (IF node.patched
                           THEN MaskBytes(Empty(t, n), Patches(Empty(t, n), kids[1], kids[2], node.off))
                           ELSE 0)
        [] Form(node) = "fsst3" -> 2 * none + own + ValueBytes(kids[1], out)
        [] node.enc = "fsst" -> none + ValueBytes(kids[2], out)
        [] node.enc = "onpair" -> none + own + 24 * node.count + ValueBytes(kids[4], out)
        [] node.enc = "zstd" -> none + own + FoldLeft(LAMBDA sum, f : sum + f.size, 0, node.frames)
        [] node.enc = "pco" -> none + own + WordBytes * PageTotal(node.pages)
        [] OTHER -> none + own

\* A plausible bug: each child has the whole budget to itself.
LargestSpent(kids) == FoldLeft(LAMBDA most, k : IF k.spent > most THEN k.spent ELSE most, 0, kids)

SpentBy(kids) == FoldLeft(LAMBDA sum, k : sum + k.spent, 0, kids)

Charged(node, t, n, kids, v) ==
  LET spent == SpentBy(kids) + Reserved(node, t, n, kids, v)
  IN  IF spent > MaxDecode THEN Fail ELSE [v EXCEPT !.spent = spent]

\* The deferred check of decode: no null where the type has none.
NullChecked(t, v) ==
  IF v.ok /\ ~t[Root].nullable /\ t[Root].kind # "null"
       /\ \E i \in 1..v.n : ~IsValid(v.cols[Root], i)
  THEN Fail ELSE v

RECURSIVE Decode(_, _, _, _)
Decode(node, t, n, depth) ==
  IF \/ depth >= MaxDepth \/ n > MaxRows \/ ~Canonical(t)
     \/ ~MessageFits(node) \/ ~Shaped(node, t, n) \/ ~CountFits(node, t, n)
  THEN Fail
  ELSE LET asked == Children(node, t, n)
           kids == [i \in 1..Len(asked) |->
                      Decode(node.kids[i], asked[i].typ, asked[i].n, depth + 1)]
       IN  IF \E i \in 1..Len(asked) : ~kids[i].ok /\ ~ErrorLost(node, i) THEN Fail
           ELSE LET v == Decoded(node, t, n, kids)
                IN  IF v.ok THEN NullChecked(t, Charged(node, t, n, kids, v)) ELSE Fail

\* encoding.Decode
DecodeArray(node, t, n) ==
  LET v == Decode(node, t, n, 0) IN IF v.ok THEN ArrowArray(t, v) ELSE Fail
=============================================================================
