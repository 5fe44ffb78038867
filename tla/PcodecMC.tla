------------------------------ MODULE PcodecMC ------------------------------
(***************************************************************************)
(* Small numbers, encoded in every way there is, and decoded again.  The   *)
(* encoder is written from what the format promises: it splits numbers     *)
(* into latents, takes differences, and runs the state machines backwards. *)
(* A damaged stream is one of these with a wrong field, bit or count.      *)
(***************************************************************************)
EXTENDS Pcodec

\* Floats of five bits, the integers among them the smallest.
MCFloatMultiplier(b) == b \notin {0, 15, 16, 31}
MCFloatOf(a) == a
MCFloatTimes(x, y) == (5 * x + y) % 32

\* A way to encode numbers of `w` bits, with the bins of each variable.
Plain ==
  [version |-> 4, w |-> 3, kind |-> "unsigned", mode |-> 0, base |-> 0, quant |-> 1, dict |-> <<>>,
   delta |-> 0, order |-> 0, secondary |-> FALSE, log |-> 1, back |-> 1,
   bias |-> 0, shift |-> 0, weights |-> <<>>, wide |-> 0, bins |-> <<>>]

-----------------------------------------------------------------------------
(* Numbers to latents.                                                     *)

Ordered(c, x) ==
  CASE c.kind = "unsigned" -> x
    [] c.kind = "signed" -> (x + Mid(c.w)) % Pow(c.w)
    [] c.kind = "float" -> IF x >= Mid(c.w) THEN Pow(c.w) - 1 - x ELSE x + Mid(c.w)

Primary(c, u) ==
  CASE c.mode = 0 -> u
    [] c.mode = 1 -> u \div c.base
    [] c.mode = 2 -> (u * 3) % 32
    [] c.mode = 3 -> u \div Pow(c.quant)
    [] c.mode = 4 -> (CHOOSE i \in 1..Len(c.dict) : c.dict[i] = u) - 1

Secondary(c, u) ==
  CASE c.mode = 1 -> u % c.base
    [] c.mode = 2 ->
         LET Float(v) == CHOOSE x \in 0..31 : Ordered(c, x) = v
         IN  (u + 16 - Ordered(c, MCFloatTimes(Float(Primary(c, u)), Float(c.base)))) % 32
    [] c.mode = 3 -> LET low == u % Pow(c.quant)
                     IN  IF u < Mid(c.w) THEN Pow(c.quant) - 1 - low ELSE low

OrderOf(c) == CASE c.delta = 2 -> Pow(c.order) [] c.delta = 3 -> Len(c.weights) [] OTHER -> c.order

\* Differences of differences, `order` times.
RECURSIVE Diffs(_, _, _)
Diffs(s, order, w) ==
  IF order = 0 THEN s
  ELSE Diffs([i \in 1..(Len(s) - 1) |-> (s[i + 1] - s[i]) % Pow(w)], order - 1, w)

FirstOf(s) == IF s = <<>> THEN 0 ELSE s[1]

PredictedAt(c, s, i) ==
  LET sum == c.bias + Sum([j \in 1..Len(c.weights) |-> s[i - Len(c.weights) + j - 1] * c.weights[j]])
  IN  IF sum < 0 THEN 0 ELSE sum \div Pow(c.shift)

\* Lookbacks alternate between 1 and c.back.
LookOf(c, i) == IF i % 2 = 0 THEN 1 ELSE c.back

\* Moments and differences of the values s of a variable of w bits.
Moment(s, k) == IF k \in DOMAIN s THEN s[k] ELSE 0
Expected(c, s, i, b) ==
  CASE c.delta = 2 -> IF i > b THEN s[i - b] ELSE 0
    [] c.delta = 3 -> PredictedAt(c, s, i)
SplitAt(c, s, w, n, order) ==
  IF c.delta = 1
  THEN [moments |-> [k \in 1..order |-> FirstOf(Diffs(s, k - 1, w))],
        rest |-> [i \in 1..(n - order) |-> (Diffs(s, order, w)[i] + Mid(w)) % Pow(w)]]
  ELSE [moments |-> [k \in 1..order |->
                       Moment(s, IF c.delta = 2 /\ n < order THEN k - (order - n) ELSE k)],
        rest |-> [i \in 1..(n - order) |->
                    (s[order + i] - Expected(c, s, order + i, LookOf(c, i)) + Mid(w)) % Pow(w)]]
Split(c, s, w) == SplitAt(c, s, w, Len(s), OrderOf(c))

Looks(c) == IF c.delta = 2 THEN 1 ELSE 0
WidthOf(c, k) == IF k <= Looks(c) \/ (c.mode = 4 /\ k = Looks(c) + 1) THEN IndexWidth ELSE c.w

\* The variables of a page of numbers in their order: values to code, and moments.
Whole(s) == [moments |-> <<>>, rest |-> s]
Differed(c, s, k, delta) == IF delta THEN Split(c, s, WidthOf(c, k)) ELSE Whole(s)
VariablesOf(c, u, k) ==
  (IF c.delta = 2 THEN <<Whole([i \in 1..(Len(u) - OrderOf(c)) |-> LookOf(c, i)])>> ELSE <<>>)
    \o <<Differed(c, [i \in DOMAIN u |-> Primary(c, u[i])], k, c.delta # 0)>>
    \o (IF c.mode \in 1..3
        THEN <<Differed(c, [i \in DOMAIN u |-> Secondary(c, u[i])], k + 1, c.secondary)>> ELSE <<>>)
Variables(c, nums) ==
  VariablesOf(c, [i \in DOMAIN nums |-> Ordered(c, nums[i])], Looks(c) + 1)

-----------------------------------------------------------------------------
(* Latents to bits.                                                        *)

ToBits(x, n) == [k \in 1..n |-> (x \div Pow(k - 1)) % 2]
Pad(bits) == bits \o [k \in 1..((-Len(bits)) % ByteBits) |-> 0]
Each(xs, n) == FlattenSeq([i \in DOMAIN xs |-> ToBits(xs[i], n)])

SizeOf(bins) == Sum([b \in DOMAIN bins |-> bins[b].weight])
LogOf(bins) == IF bins = <<>> THEN 0 ELSE BitLen(SizeOf(bins)) - 1
BinOf(bins, x, w) ==
  CHOOSE b \in DOMAIN bins : (x - bins[b].lower) % Pow(w) < Pow(bins[b].offset)

\* The places in the table that belong to bin b, in order.
Places(bins, b) ==
  LET before == Sum([k \in 1..(b - 1) |-> bins[k].weight])
  IN  SetToSortSeq({(t * Stride(SizeOf(bins))) % SizeOf(bins) : t \in before..(before + bins[b].weight - 1)},
                   LAMBDA x, y : x < y)

\* The state before a value of a bin with some places in a table, from which a
\* value x leads to, and the bits between.
BitsBack(x, count) == CHOOSE k \in 0..15 : x \div Pow(k) \in count..(2 * count - 1)
From(places, x, k) == [state |-> places[x \div Pow(k) - Len(places) + 1], bits |-> ToBits(x % Pow(k), k)]
Through(places, x) == From(places, x, BitsBack(x, Len(places)))
Back(bins, b, x) == Through(Places(bins, b), x + SizeOf(bins))

\* The states of the lanes before xs, and the bits after each of its values.
LaneOf(i) == (((i - 1) % Batch) % AnsLanes) + 1
RECURSIVE Entropy(_, _, _, _, _)
EntropyFrom(bins, xs, w, i, after, step) ==
  [Entropy(bins, xs, w, i - 1, [after EXCEPT ![LaneOf(i)] = step.state]) EXCEPT !.bits[i] = step.bits]
Entropy(bins, xs, w, i, after) ==
  IF i = 0 THEN [lanes |-> after, bits |-> [k \in DOMAIN xs |-> <<>>]]
  ELSE EntropyFrom(bins, xs, w, i, after, Back(bins, BinOf(bins, xs[i], w), after[LaneOf(i)]))

\* A batch of a variable: bits of the states, then the offsets.
BatchBits(bins, xs, w, coded, b) ==
  LET of == SelectSeq([i \in DOMAIN xs |-> i], LAMBDA i : (i - 1) \div Batch = b)
      OffsetBits(x) == LET bin == bins[BinOf(bins, x, w)]
                       IN  ToBits((x - bin.lower) % Pow(w), bin.offset)
  IN  FlattenSeq([k \in DOMAIN of |-> coded.bits[of[k]]])
        \o FlattenSeq([k \in DOMAIN of |-> OffsetBits(xs[of[k]])])

Coded(c, v) ==
  [k \in DOMAIN v |->
     Entropy(c.bins[k], v[k].rest, WidthOf(c, k), Len(v[k].rest), [l \in 1..AnsLanes |-> 0])]

HeadBits(c, v, coded) ==
  FlattenSeq([k \in DOMAIN v |->
    Each(v[k].moments, WidthOf(c, k)) \o Each(coded[k].lanes, LogOf(c.bins[k]))])

BodyBits(c, v, coded, n) ==
  FlattenSeq([b \in 1..(n \div Batch + 1) |->
    FlattenSeq([k \in DOMAIN v |-> BatchBits(c.bins[k], v[k].rest, WidthOf(c, k), coded[k], b - 1)])])

CodedBits(c, v, coded, n) == Pad(Pad(HeadBits(c, v, coded)) \o BodyBits(c, v, coded, n))
VariableBits(c, v, n) == CodedBits(c, v, Coded(c, v), n)
PageBits(c, nums) == VariableBits(c, Variables(c, nums), Len(nums))

BinsBits(bins, w) ==
  ToBits(LogOf(bins), 4) \o ToBits(Len(bins), 15)
    \o FlattenSeq([b \in DOMAIN bins |->
         ToBits(bins[b].weight - 1, LogOf(bins)) \o ToBits(bins[b].lower, w)
           \o ToBits(bins[b].offset, BitLen(w))])

ModeBits(c) ==
  CASE c.mode \in {1, 2} -> ToBits(c.mode, 4) \o ToBits(c.base, c.w)
    [] c.mode = 3 -> ToBits(c.mode, 4) \o ToBits(c.quant, 8)
    [] c.mode = 4 -> Pad(ToBits(c.mode, 4) \o ToBits(Len(c.dict), 25)) \o Each(c.dict, c.w)
    [] OTHER -> ToBits(c.mode, 4)

Flag(b) == IF b THEN <<1>> ELSE <<0>>

DeltaBits(c) ==
  IF c.version < 3 THEN ToBits(c.order, 3)
  ELSE ToBits(c.delta, 4) \o
    CASE c.delta = 1 -> ToBits(c.order, 3) \o Flag(c.secondary)
      [] c.delta = 2 -> ToBits(c.log - 1, 5) \o ToBits(c.order, 4) \o Flag(c.secondary)
      [] c.delta = 3 -> ToBits(c.shift, 5) \o ToBits(c.bias + c.wide + Mid(BiasWidth), BiasWidth)
           \o ToBits(Len(c.weights) - 1, 5)
           \o Each([j \in DOMAIN c.weights |-> c.weights[j] - c.wide + Mid(WeightWidth)], WeightWidth)
      [] OTHER -> <<>>

ChunkBits(c) ==
  Pad(ModeBits(c) \o DeltaBits(c)
        \o FlattenSeq([k \in DOMAIN c.bins |-> BinsBits(c.bins[k], WidthOf(c, k))]))

-----------------------------------------------------------------------------
(* The streams.                                                            *)

BinsOf(shape, w) ==
  CASE shape = "one" -> <<[weight |-> 1, lower |-> 0, offset |-> w]>>
    [] shape = "halves" -> <<[weight |-> 1, lower |-> 0, offset |-> w - 1],
                             [weight |-> 3, lower |-> Mid(w), offset |-> w - 1]>>
    [] shape = "turned" -> <<[weight |-> 3, lower |-> Pow(w) - 2, offset |-> w - 1],
                             [weight |-> 5, lower |-> Mid(w) - 2, offset |-> w - 1]>>
    [] shape = "three" -> <<[weight |-> 3, lower |-> 0, offset |-> w - 2],
                            [weight |-> 1, lower |-> Pow(w - 2), offset |-> w - 2],
                            [weight |-> 4, lower |-> Mid(w), offset |-> w - 1]>>

LookBins(c) ==
  IF c.back = 1 THEN <<[weight |-> 1, lower |-> 1, offset |-> 0]>>
  ELSE IF c.back = 2 THEN <<[weight |-> 1, lower |-> 1, offset |-> 1]>>
  ELSE IF c.back = 3 THEN <<[weight |-> 3, lower |-> 1, offset |-> 0], [weight |-> 1, lower |-> 3, offset |-> 0]>>
  ELSE <<[weight |-> 1, lower |-> 1, offset |-> 2]>>

WithBins(c, shape) ==
  [c EXCEPT !.bins = [k \in 1..(Looks(c) + (IF c.mode \in 1..3 THEN 2 ELSE 1)) |->
     IF k <= Looks(c) THEN LookBins(c) ELSE BinsOf(shape, WidthOf(c, k))]]

Modes ==
  {Plain, [Plain EXCEPT !.kind = "signed", !.w = 4], [Plain EXCEPT !.kind = "float"],
   [Plain EXCEPT !.mode = 1, !.base = 3], [Plain EXCEPT !.mode = 1, !.base = 5, !.kind = "signed"],
   [Plain EXCEPT !.mode = 2, !.base = 5, !.kind = "float", !.w = 5],
   [Plain EXCEPT !.mode = 3, !.quant = 1, !.kind = "float"],
   [Plain EXCEPT !.mode = 3, !.quant = 2, !.kind = "float"],
   [Plain EXCEPT !.mode = 4, !.dict = <<3, 0, 7, 1, 5, 2, 4, 6>>],
   [Plain EXCEPT !.mode = 4, !.dict = <<1, 15, 3, 13, 7, 5, 11, 9>>, !.w = 4]}

Deltas(c) ==
  {c, [c EXCEPT !.version = 2], [c EXCEPT !.version = 1, !.delta = 1, !.order = 2],
   [c EXCEPT !.delta = 1, !.order = 1], [c EXCEPT !.delta = 1, !.order = 3, !.secondary = TRUE],
   [c EXCEPT !.delta = 2, !.log = 2, !.back = 4], [c EXCEPT !.delta = 2, !.order = 1, !.back = 2],
   [c EXCEPT !.delta = 2, !.order = 2, !.log = 2, !.back = 3, !.secondary = TRUE]}
  \cup (IF WidthOf(c, 1) > ConvWidth THEN {}
        ELSE {[c EXCEPT !.delta = 3, !.bias = -3, !.shift = 1, !.weights = <<2, -1>>],
              [c EXCEPT !.delta = 3, !.bias = 5, !.weights = <<1>>, !.wide = 64]})

Ways == UNION {UNION {{WithBins(d, s) : s \in {"one", "halves", "turned", "three"}} : d \in Deltas(c)} : c \in Modes}

\* n numbers; those of the wider dictionary are odd.
Sample(c, n) ==
  [i \in 1..n |-> IF c.w = 4 THEN (2 * i * i + 4 * i + 7) % 16 ELSE (3 * i * i + i + 1) % Pow(c.w)]

HeaderOf(version) == IF version = 4 THEN <<4, 1>> ELSE <<version>>

\* A stream of chunks, each with a way to encode its pages and their sizes.
Stream(parts) ==
  [header |-> HeaderOf(parts[1].way.version), width |-> parts[1].way.w, kind |-> parts[1].way.kind,
   chunks |-> [k \in DOMAIN parts |-> ChunkBits(parts[k].way)],
   counts |-> [k \in DOMAIN parts |-> parts[k].sizes],
   pages |-> FlattenSeq([k \in DOMAIN parts |->
     [j \in DOMAIN parts[k].sizes |-> PageBits(parts[k].way, Sample(parts[k].way, parts[k].sizes[j]))]]),
   sound |-> TRUE,
   numbers |-> FlattenSeq([k \in DOMAIN parts |->
     FlattenSeq([j \in DOMAIN parts[k].sizes |-> Sample(parts[k].way, parts[k].sizes[j])])])]

Part(way, sizes) == [way |-> way, sizes |-> sizes]

Sound ==
  {Stream(parts) :
     parts \in {<<Part(way, <<9>>)>> : way \in Ways}
                \cup {<<Part(way, <<0, 1, 5>>), Part(way, <<2>>)>> :
                        way \in {w \in Ways : w.bins[1] = BinsOf("three", 3)}}}

\* Numbers encoded one way, under metadata that says another.
Written(way, as, sizes) ==
  [Stream(<<Part(way, sizes)>>) EXCEPT
     !.chunks = <<ChunkBits(as)>>, !.header = HeaderOf(as.version), !.width = as.w,
     !.kind = as.kind, !.sound = FALSE]

Basic == WithBins(Plain, "three")
Floats == WithBins([Plain EXCEPT !.mode = 3, !.quant = 2, !.kind = "float"], "one")
Listed == WithBins([Plain EXCEPT !.mode = 4, !.dict = <<3, 0, 7, 1, 5, 2, 4, 6>>], "halves")
Looking == WithBins([Plain EXCEPT !.delta = 2, !.log = 2, !.back = 4], "one")
Folding == WithBins([Plain EXCEPT !.delta = 3, !.bias = -3, !.shift = 1, !.weights = <<2, -1>>], "one")
Wider == WithBins([Plain EXCEPT !.w = 4], "one")

NoBins(c) == [c EXCEPT !.bins = [k \in DOMAIN @ |-> <<>>]]
Bin(weight, lower, offset) == [weight |-> weight, lower |-> lower, offset |-> offset]

\* Metadata that no chunk has.
BadWays ==
  {[Basic EXCEPT !.mode = 5], [Basic EXCEPT !.mode = 1],
   [Floats EXCEPT !.mode = 1, !.base = 3], [Floats EXCEPT !.kind = "unsigned"],
   [Floats EXCEPT !.kind = "unsigned", !.mode = 2, !.base = 5], [Floats EXCEPT !.mode = 2, !.base = 16, !.w = 5],
   [Floats EXCEPT !.quant = 0], [Floats EXCEPT !.quant = 3],
   [Basic EXCEPT !.delta = 4], [Basic EXCEPT !.delta = 1],
   [Looking EXCEPT !.log = 25], [Looking EXCEPT !.order = 3],
   [Looking EXCEPT !.bins[1] = <<Bin(1, 0, 0)>>], [Looking EXCEPT !.bins[1] = <<Bin(1, 5, 0)>>],
   [Wider EXCEPT !.delta = 3, !.weights = <<1>>],
   [Folding EXCEPT !.shift = 6], [Folding EXCEPT !.weights = <<4>>], [Folding EXCEPT !.bias = 8],
   [Wider EXCEPT !.bins[1] = <<Bin(1, 0, 5)>>], [Basic EXCEPT !.bins[1] = <<Bin(2, 0, 3)>>],
   [Basic EXCEPT !.bins[1] = <<Bin(2, 0, 2), Bin(1, 4, 2)>>],
   [Basic EXCEPT !.bins[1] = <<Bin(1, 0, 1), Bin(1, 2, 1), Bin(1, 4, 2)>>]}

\* Pages that do not fit their chunk: how they are written, and how they are said to be.
BadPages ==
  {<<Listed, [Listed EXCEPT !.dict = SubSeq(@, 1, 4)], <<9>>>>,
   <<Floats, [Floats EXCEPT !.quant = 1], <<9>>>>,
   <<Looking, [Looking EXCEPT !.log = 1], <<9>>>>,
   <<Basic, NoBins(Basic), <<1>>>>}

\* Headers, and counts of pages, that the stream s does not have.
BadShapes(s) ==
  {[s EXCEPT !.header = h] : h \in {<<>>, <<0>>, <<5, 1>>, <<4>>, <<4, 2>>, <<3, 1>>}}
    \cup {[s EXCEPT !.counts = n] : n \in {<<>>, <<<<>>>>, <<<<9, 0>>>>, <<<<9>>, <<>>>>, <<<<13>>>>}}
    \cup {[s EXCEPT !.counts = <<<<5>>>>]}

\* A byte less, a byte more, or a bit of the padding.
BadBytes(bits, padded) ==
  {SubSeq(bits, 1, Len(bits) - ByteBits), bits \o ToBits(0, ByteBits)}
    \cup (IF padded THEN {[bits EXCEPT ![Len(bits)] = 1]} ELSE {})

BadEnds(s, padded) ==
  {[s EXCEPT !.chunks = <<b>>] : b \in BadBytes(s.chunks[1], padded)}
    \cup {[s EXCEPT !.pages = <<b>>] : b \in BadBytes(s.pages[1], padded)}

DamagedFrom(basic, looking) == BadShapes(basic) \cup BadEnds(basic, TRUE) \cup BadEnds(looking, FALSE)

Damaged ==
  {Written(way[1], way[2], way[3]) : way \in {<<Basic, as, <<>>>> : as \in BadWays} \cup BadPages}
    \cup {[s EXCEPT !.sound = FALSE] :
            s \in DamagedFrom(Stream(<<Part(Basic, <<9>>)>>), Stream(<<Part(Looking, <<9>>)>>))}

MCStreams == {Sound, {Stream(<<Part(NoBins(Basic), <<0>>)>>)}, Damaged}

-----------------------------------------------------------------------------
(* Properties.                                                             *)

\* Numbers are decoded as they were encoded, whatever the way: the states of the
\* entropy decoder, the positions of the bits and the moments of the deltas keep
\* in step through batches, variables, pages and chunks (decode.go:343, 432).
DecodesWhatWasEncoded ==
  stream.sound => phase # "refused" /\ (phase = "done" => numbers = stream.numbers)

\* A stream with a byte less or more, or with metadata, counts or latents that
\* no encoder writes, is not decoded to the end (decode.go:27, 172, 288, 308, 409).
RefusesTheDamaged == ~stream.sound => phase # "done"
=============================================================================
