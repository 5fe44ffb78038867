------------------------------- MODULE Pcodec -------------------------------
(***************************************************************************)
(* Decoding a Pco stream (internal/pco, decode.go).  A chunk's metadata    *)
(* says how numbers were split into latents, how each latent variable was  *)
(* delta-encoded, and into which bins its values fall; a page holds the    *)
(* bins, entropy-coded by interleaved state machines, and offsets in them. *)
(*                                                                         *)
(* A stream is a sequence of bits, the least significant of a byte first;  *)
(* bits past its end read as 0, as after an error of the reader, and       *)
(* whoever reads there refuses the stream.                                 *)
(***************************************************************************)
EXTENDS Integers, SequencesExt

CONSTANTS Streams,    \* sets of streams to decode
          ByteBits,   \* 8
          AnsLanes,   \* states of an entropy decoder, 4
          Batch,      \* latents of a variable that are read in one go, 256
          MaxPage,    \* 2^24
          IndexWidth, \* bits of a lookback or an index into a dictionary, 32
          ConvWidth,  \* widest latents convolution is defined for, 32
          BiasWidth, WeightWidth, \* bits of the numbers of a convolution, 64 and 32
          Precision,  \* bits of a float's mantissa
          FloatMultiplier(_), \* whether these bits are a float that is finite and not 0
          FloatOf(_),         \* a natural number as the bits of a float
          FloatTimes(_, _)    \* the product of two floats, in bits

VARIABLES stream,
          phase,  \* "header", "chunk", "page", "symbols", "offsets", "values", "done", "refused"
          chunks, \* chunks that are done, and pages of the current one
          pages,
          meta,   \* the metadata of the current chunk
          pos,    \* bits of the page that are read
          start,  \* page: latents of the batches that are done
          var,    \* page: the variable that is read
          ans,    \* page: the states of each variable
          moments, \* page: the initial values of each variable, for its deltas
          batch,  \* readLatents: bins that are read
          latents, \* page: the latents of each variable
          numbers \* the numbers decoded so far

page == <<pos, start, var, ans, moments, batch, latents>>
pcoVars == <<stream, phase, chunks, pages, meta, page, numbers>>

\* 2 ^ n
Pow(n) ==
  LET pow[k \in 0..n] == IF k = 0 THEN 1 ELSE 2 * pow[k - 1]
  IN  pow[n]

Mid(w) == Pow(w - 1)
Wrap(x, w) == x % Pow(w)
BitLen(x) == CHOOSE k \in 0..(x + 1) : x < Pow(k) /\ (k = 0 \/ Pow(k - 1) <= x)
AsSigned(x, w) == IF x < Mid(w) THEN x ELSE x - Pow(w)
Min2(a, b) == IF a < b THEN a ELSE b
Max2(a, b) == IF a < b THEN b ELSE a

-----------------------------------------------------------------------------
(* The bit reader.                                                         *)

\* The last bit first, which is the highest.
Bits(data, at, n) ==
  LET Bit(i) == IF i \in 1..Len(data) /\ data[i] = 1 THEN 1 ELSE 0
      number[k \in 0..n] == IF k = 0 THEN 0 ELSE Bit(at + n - k + 1) + 2 * number[k - 1]
  IN  number[n]

\* n numbers of w bits each.
Words(data, at, n, w) == [i \in 1..n |-> Bits(data, at + (i - 1) * w, w)]

Aligned(at) == at + ((-at) % ByteBits)
Padded(data, at) == Aligned(at) <= Len(data) /\ Bits(data, at, Aligned(at) - at) = 0

\* A plausible bug: what follows the last field is not looked at.
Enough(data, at) == Padded(data, at)

Finished(data, at) == Padded(data, at) /\ Aligned(at) = Len(data)

-----------------------------------------------------------------------------
(* The metadata of a chunk.                                                *)

ModeFields(data, w) ==
  LET mode == Bits(data, 0, 4)
      size == Bits(data, 4, 25)
      at == Aligned(29)
      fits == size <= Len(data) \div w
  IN  CASE mode \in {1, 2} -> [ok |-> TRUE, mode |-> mode, base |-> Bits(data, 4, w), next |-> 4 + w]
        [] mode = 3 -> [ok |-> TRUE, mode |-> mode, quant |-> Bits(data, 4, 8), next |-> 12]
        [] mode = 4 -> [ok |-> fits /\ Padded(data, 29), mode |-> mode,
                        dict |-> IF fits THEN Words(data, at, size, w) ELSE <<>>,
                        next |-> at + size * w]
        [] OTHER -> [ok |-> mode = 0, mode |-> mode, next |-> 4]

\* The bits of the v-th float in order of size, and back.
OrderedBits(v, w) == IF v >= Mid(w) THEN v - Mid(w) ELSE Pow(w) - 1 - v
FloatOrdered(b, w) == IF b >= Mid(w) THEN Pow(w) - 1 - b ELSE b + Mid(w)

\* v counts integers from the middle of the range, and past those that a float
\* has the precision for it counts floats.
IntFloat(v, w) ==
  LET negative == v < Mid(w)
      a == IF negative THEN Mid(w) - 1 - v ELSE v - Mid(w)
      exact == Pow(Precision + 1)
      f == IF a < exact THEN FloatOf(a) ELSE Wrap(FloatOf(exact) + a - exact, w)
  IN  IF negative THEN f + Mid(w) ELSE f

ModeFits(m, w, floating) ==
  /\ m.ok
  /\ m.mode = 1 => ~floating /\ m.base # 0
  /\ m.mode = 2 => floating /\ FloatMultiplier(OrderedBits(m.base, w))
  /\ m.mode = 3 => floating /\ m.quant \in 1..Precision

NoDelta == [ok |-> TRUE, delta |-> 0, order |-> 0, secondary |-> FALSE, next |-> 4]

\* Versions before 3 knew one kind of delta only.
DeltaFields(data, version) ==
  IF version < 3
  THEN LET order == Bits(data, 0, 3)
       IN  [NoDelta EXCEPT !.delta = IF order > 0 THEN 1 ELSE 0, !.order = order, !.next = 3]
  ELSE LET delta == Bits(data, 0, 4)
           log == 1 + Bits(data, 4, 5)
           small == Bits(data, 9, 4)
           order == 1 + Bits(data, 9 + BiasWidth, 5)
           at == 14 + BiasWidth
       IN  CASE delta = 0 -> NoDelta
             [] delta = 1 ->
                  [ok |-> Bits(data, 4, 3) > 0, delta |-> 1, order |-> Bits(data, 4, 3),
                   secondary |-> Bits(data, 7, 1) = 1, next |-> 8]
             [] delta = 2 ->
                  [ok |-> log <= 24 /\ small <= log, delta |-> 2, order |-> Pow(Min2(small, log)),
                   window |-> Pow(Min2(log, 24)), secondary |-> Bits(data, 13, 1) = 1, next |-> 14]
             [] delta = 3 ->
                  [ok |-> TRUE, delta |-> 3, order |-> order, secondary |-> FALSE,
                   quant |-> Bits(data, 4, 5), bias |-> Bits(data, 9, BiasWidth) - Mid(BiasWidth),
                   weights |-> [i \in 1..order |->
                     Bits(data, at + (i - 1) * WeightWidth, WeightWidth) - Mid(WeightWidth)],
                   next |-> at + order * WeightWidth]
             [] OTHER -> [NoDelta EXCEPT !.ok = FALSE]

Sum(s) ==
  LET total[i \in 0..Len(s)] == IF i = 0 THEN 0 ELSE total[i - 1] + s[i]
  IN  total[Len(s)]

Abs(x) == Max2(x, -x)

\* The numbers of a convolution are narrowed to twice the width of a latent.
Narrowed(d, w) ==
  [d EXCEPT !.bias = AsSigned(Wrap(@, 2 * w), 2 * w),
            !.weights = [i \in DOMAIN @ |-> AsSigned(Wrap(@[i], 2 * w), 2 * w)]]

ConvolutionFits(d, w) ==
  /\ w <= ConvWidth
  /\ d.quant < 2 * w
  /\ Abs(d.bias) + Sum([i \in 1..d.order |-> Pow(w) * Abs(d.weights[i])]) < Mid(2 * w)

\* Steps of an odd number of places in a table of a power of two visit each place.
Stride(size) == LET s == (3 * size) \div 5 IN IF s % 2 = 0 THEN s + 1 ELSE s

\* The bin of each state: bins take places in turn, as many as their weight.
Symbols(bins, size) ==
  LET turns == FlattenSeq([s \in 1..Len(bins) |-> [k \in 1..bins[s].weight |-> s]])
  IN  [x \in 0..(size - 1) |->
         turns[1 + (CHOOSE step \in 0..(size - 1) : (step * Stride(size)) % size = x)]]

\* A plausible bug: the bits to read are counted for the weight of the bin.
ReadOfWeight(size, next, weight) == BitLen(size) - BitLen(weight)

ReadOf(size, next, weight) == BitLen(size) - BitLen(next)

\* The state that follows is next, and what the bits to read add to it.
AnsTable(bins, size) ==
  LET symbols == Symbols(bins, size)
      Node(x, bin) ==
        LET next == bin.weight + Cardinality({y \in 0..(x - 1) : symbols[y] = symbols[x]})
            read == ReadOf(size, next, bin.weight)
        IN  [next |-> next * Pow(read) - size, read |-> read, offset |-> bin.offset, lower |-> bin.lower]
  IN  [x \in 0..(size - 1) |-> Node(x, bins[symbols[x]])]

\* A table whose bins have been read, if they were there.
LatentOf(w, delta, log, shaped, bins, next) ==
  LET fits == /\ shaped
              /\ \A i \in DOMAIN bins : bins[i].offset <= w
              /\ bins # <<>> => Sum([i \in DOMAIN bins |-> bins[i].weight]) = Pow(log)
  IN  [ok |-> fits, width |-> w, log |-> log, delta |-> delta, bins |-> bins, next |-> next,
       table |-> IF fits /\ bins # <<>> THEN AnsTable(bins, Pow(log)) ELSE <<>>]

\* n bins from some bit on, with weights of `log` bits.
ReadBins(data, at, w, delta, log, n) ==
  LET each == log + w + BitLen(w)
      shaped == log <= 14 /\ n <= Pow(log) /\ (n > 1 \/ log = 0) /\ at + n * each <= Len(data)
      Bin(b) == [weight |-> 1 + Bits(data, b, log), lower |-> Bits(data, b + log, w),
                 offset |-> Bits(data, b + log + w, BitLen(w))]
  IN  LatentOf(w, delta, log, shaped,
               [i \in 1..(IF shaped THEN n ELSE 0) |-> Bin(at + (i - 1) * each)], at + n * each)

ParseLatent(data, at, w, delta) ==
  ReadBins(data, at + 19, w, delta, Bits(data, at, 4), Bits(data, at + 4, 15))

\* The variables of a chunk: lookbacks, when there are any, then one or two.
PrimaryWidth(m, w) == IF m.mode = 4 THEN IndexWidth ELSE w
LatentKinds(m, d, w) ==
  (IF d.delta = 2 THEN <<[width |-> IndexWidth, delta |-> FALSE]>> ELSE <<>>)
    \o <<[width |-> PrimaryWidth(m, w), delta |-> d.delta # 0]>>
    \o (IF m.mode \in 1..3 THEN <<[width |-> w, delta |-> d.secondary]>> ELSE <<>>)

\* Each starts where the one before it ends.
ParseLatents(data, at, kinds) ==
  LET parsed[i \in 1..Len(kinds)] ==
        ParseLatent(data, IF i = 1 THEN at ELSE parsed[i - 1].next, kinds[i].width, kinds[i].delta)
  IN  [i \in 1..Len(kinds) |-> parsed[i]]

ChunkOf(data, w, floating, m, d, latent) ==
  IF /\ ModeFits(m, w, floating) /\ d.ok
     /\ d.delta = 3 => ConvolutionFits(d, PrimaryWidth(m, w))
     /\ \A i \in 1..Len(latent) : latent[i].ok
     /\ d.delta = 2 => \A i \in 1..Len(latent[1].bins) : latent[1].bins[i].lower \in 1..d.window
     /\ Finished(data, Last(latent).next)
  THEN [ok |-> TRUE, mode |-> m, delta |-> d, latents |-> latent,
        primary |-> IF d.delta = 2 THEN 2 ELSE 1]
  ELSE [ok |-> FALSE]

Latents(data, at, m, d, w) == ParseLatents(data, at + d.next, LatentKinds(m, d, w))

\* What follows the mode: the delta, whose numbers may be narrowed, and the latents.
AfterMode(data, version, w, floating, m) ==
  LET Told(d) == IF d.delta = 3 THEN Narrowed(d, PrimaryWidth(m, w)) ELSE d
      d == Told(DeltaFields(SubSeq(data, m.next + 1, Len(data)), version))
  IN  ChunkOf(data, w, floating, m, d, Latents(data, m.next, m, d, w))

ParseChunk(data, version, w, floating) == AfterMode(data, version, w, floating, ModeFields(data, w))

-----------------------------------------------------------------------------
(* Undoing the deltas, and the mode.                                       *)

\* What raw, a difference in the middle of the range, adds to x.
Moved(x, raw, w) == Wrap(x + raw + Mid(w), w)

\* A plausible bug: moments are added from the first order on.
FirstMoments(state) == state

LastMoments(state) == Reverse(state)

\* Sums of sums, one round per order; rounds after the last have nothing to add.
Consecutive(raw, state, n, w) ==
  LET Round(s, moment) ==
        LET sum[i \in 1..n] == IF i = 1 THEN moment ELSE Wrap(sum[i - 1] + s[i - 1], w)
        IN  sum
      deltas == [i \in 1..n |-> IF i <= Len(raw) THEN Moved(0, raw[i], w) ELSE Mid(w)]
  IN  FoldLeft(Round, deltas, LastMoments(state))

\* A page that is shorter than the state has its values at the state's end.
Initial(state, n) == SubSeq(state, Len(state) - Min2(n, Len(state)) + 1, Len(state))

Lookback(raw, state, look, n, w) ==
  LET Back(s, i) == IF look[i] <= Len(s) THEN s[Len(s) - look[i] + 1] ELSE 0
  IN  FoldLeft(LAMBDA s, i : Append(s, Moved(Back(s, i), raw[i], w)),
               Initial(state, n), [i \in 1..Len(raw) |-> i])

Convolution(d, raw, state, n, w) ==
  LET Predicted(s) ==
        Max2(0, d.bias + Sum([j \in 1..d.order |-> s[Len(s) - d.order + j] * d.weights[j]]))
          \div Pow(d.quant)
  IN  FoldLeft(LAMBDA s, x : Append(s, Moved(Predicted(s), x, w)),
               SubSeq(state, 1, Min2(n, Len(state))), raw)

\* Before a lookback is used it is compared with the window.
LookbacksFit(c, look) ==
  c.delta.delta = 2 => \A i \in 1..Len(look) : look[i] \in 1..c.delta.window

Restored(c, v, raw, state, look, n) ==
  LET w == v.width
  IN  CASE ~v.delta -> raw
        [] v.delta /\ c.delta.delta = 1 -> Consecutive(raw, state, n, w)
        [] v.delta /\ c.delta.delta = 2 -> Lookback(raw, state, look, n, w)
        [] v.delta /\ c.delta.delta = 3 -> Convolution(c.delta, raw, state, n, w)

OfKind(v, w, kind) ==
  CASE kind = "float" -> OrderedBits(v, w)
    [] kind = "signed" -> Wrap(v + Mid(w), w)
    [] kind = "unsigned" -> v

JoinFits(m, p, s) ==
  CASE m.mode = 3 -> \A i \in DOMAIN p : s[i] < Pow(m.quant)
    [] m.mode = 4 -> \A i \in DOMAIN p : p[i] < Len(m.dict)
    [] OTHER -> TRUE

Join(m, p, s, w) ==
  CASE m.mode = 0 -> p
    [] m.mode = 1 -> Wrap(p * m.base + s, w)
    [] m.mode = 2 ->
         LET product == FloatTimes(IntFloat(p, w), OrderedBits(m.base, w))
         IN  Wrap(FloatOrdered(product, w) + s + Mid(w), w)
    [] m.mode = 3 ->
         LET low == IF p < Mid(w) \div Pow(m.quant) THEN Pow(m.quant) - 1 - s ELSE s
         IN  Wrap(p * Pow(m.quant) + low, w)
    [] m.mode = 4 -> m.dict[p + 1]

-----------------------------------------------------------------------------
(* Decode, chunk by chunk and page by page.                                *)

Refuse == phase' = "refused" /\ UNCHANGED <<stream, chunks, pages, meta, page, numbers>>

HeaderFits ==
  /\ stream.header # <<>> /\ stream.header[1] \in 1..4
  /\ stream.header[1] = 4 => Len(stream.header) = 2 /\ stream.header[2] <= 1
  /\ stream.header[1] < 4 => Len(stream.header) = 1

CountsFit ==
  LET counts == FlattenSeq(stream.counts)
  IN  /\ Len(stream.chunks) = Len(stream.counts)
      /\ Len(stream.pages) = Len(counts)
      /\ Sum(counts) <= MaxPage

Begin ==
  /\ phase = "header"
  /\ IF HeaderFits /\ CountsFit
     THEN phase' = "chunk" /\ UNCHANGED <<stream, chunks, pages, meta, page, numbers>>
     ELSE Refuse

Enter(c) ==
  IF c.ok
  THEN /\ meta' = c
       /\ pages' = 0
       /\ phase' = "page"
       /\ UNCHANGED <<stream, chunks, page, numbers>>
  ELSE Refuse

BeginChunk ==
  /\ phase = "chunk"
  /\ chunks < Len(stream.chunks)
  /\ Enter(ParseChunk(stream.chunks[chunks + 1], stream.header[1], stream.width, stream.kind = "float"))

EndOfChunks ==
  /\ phase = "chunk"
  /\ chunks = Len(stream.chunks)
  /\ phase' = "done"
  /\ UNCHANGED <<stream, chunks, pages, meta, page, numbers>>

Counts == stream.counts[chunks + 1]
Data == stream.pages[Sum([i \in 1..chunks |-> Len(stream.counts[i])]) + pages + 1]
N == Counts[pages + 1]
Vars == 1..Len(meta.latents)
Moments(v) == IF meta.latents[v].delta THEN meta.delta.order ELSE 0

\* Where the moments of variable v start: before them, those of the others, and
\* their states.
HeadOf(v) ==
  Sum([u \in 1..(v - 1) |-> Moments(u) * meta.latents[u].width + AnsLanes * meta.latents[u].log])

BeginPage ==
  /\ phase = "page"
  /\ pages < Len(Counts)
  /\ IF Padded(Data, HeadOf(Len(meta.latents) + 1))
     THEN /\ moments' = [v \in Vars |-> Words(Data, HeadOf(v), Moments(v), meta.latents[v].width)]
          /\ ans' = [v \in Vars |->
               Words(Data, HeadOf(v) + Moments(v) * meta.latents[v].width, AnsLanes, meta.latents[v].log)]
          /\ pos' = Aligned(HeadOf(Len(meta.latents) + 1))
          /\ latents' = [v \in Vars |-> <<>>]
          /\ start' = 0 /\ var' = 1 /\ batch' = <<>>
          /\ phase' = IF N = 0 THEN "values" ELSE "symbols"
          /\ UNCHANGED <<stream, chunks, pages, meta, numbers>>
     ELSE Refuse

EndOfPages ==
  /\ phase = "page"
  /\ pages = Len(Counts)
  /\ chunks' = chunks + 1
  /\ phase' = "chunk"
  /\ UNCHANGED <<stream, pages, meta, page, numbers>>

\* Deltas have as many latents less as the moments stand for.
Limit(v) ==
  IF meta.latents[v].delta \/ (meta.delta.delta = 2 /\ v = 1)
  THEN Min2(Batch, Max2(0, N - start - meta.delta.order))
  ELSE Min2(Batch, N - start)

AnsLane == (Len(batch) % AnsLanes) + 1

\* A state gives a bin, and with the bits it asks for the next state.
ReadSymbol ==
  /\ phase = "symbols"
  /\ Len(batch) < Limit(var)
  /\ IF ans[var][AnsLane] \in DOMAIN meta.latents[var].table
     THEN LET node == meta.latents[var].table[ans[var][AnsLane]]
          IN  /\ batch' = Append(batch, node)
              /\ ans' = [ans EXCEPT ![var][AnsLane] = node.next + Bits(Data, pos, node.read)]
              /\ pos' = pos + node.read
              /\ UNCHANGED <<stream, phase, chunks, pages, meta, start, var, moments, latents, numbers>>
     ELSE Refuse

Offset(i) == Sum([k \in 1..(i - 1) |-> batch[k].offset])

ReadOffsets ==
  /\ phase = "symbols"
  /\ Len(batch) = Limit(var)
  /\ IF pos + Offset(Len(batch) + 1) <= Len(Data)
     THEN /\ latents' = [latents EXCEPT ![var] = @ \o [i \in 1..Len(batch) |->
               Wrap(batch[i].lower + Bits(Data, pos + Offset(i), batch[i].offset),
                    meta.latents[var].width)]]
          /\ pos' = pos + Offset(Len(batch) + 1)
          /\ batch' = <<>>
          /\ var' = IF var = Len(meta.latents) THEN 1 ELSE var + 1
          /\ start' = IF var = Len(meta.latents) THEN start + Batch ELSE start
          /\ phase' = IF start' < N THEN "symbols" ELSE "values"
          /\ UNCHANGED <<stream, chunks, pages, meta, ans, moments, numbers>>
     ELSE Refuse

Variable(v) ==
  Restored(meta, meta.latents[v], latents[v], moments[v], latents[1], N)

FinishPage ==
  /\ phase = "values"
  /\ LET p == Variable(meta.primary)
         s == IF meta.primary < Len(meta.latents) THEN Variable(meta.primary + 1) ELSE [i \in 1..N |-> 0]
     IN  IF /\ Finished(Data, pos) /\ LookbacksFit(meta, latents[1])
            /\ JoinFits(meta.mode, p, s)
         THEN /\ numbers' = numbers \o [i \in 1..N |->
                   OfKind(Join(meta.mode, p[i], s[i], stream.width), stream.width, stream.kind)]
              /\ pages' = pages + 1
              /\ phase' = "page"
              /\ UNCHANGED <<stream, chunks, meta, page>>
         ELSE Refuse

PcoInit ==
  /\ \E streams \in Streams : stream \in streams
  /\ phase = "header"
  /\ chunks = 0 /\ pages = 0 /\ meta = [ok |-> FALSE]
  /\ pos = 0 /\ start = 0 /\ var = 1 /\ batch = <<>>
  /\ ans = <<>> /\ moments = <<>> /\ latents = <<>>
  /\ numbers = <<>>

PcoNext ==
  \/ Begin \/ BeginChunk \/ EndOfChunks
  \/ BeginPage \/ ReadSymbol \/ ReadOffsets \/ FinishPage \/ EndOfPages

PcoSpec == PcoInit /\ [][PcoNext]_pcoVars

-----------------------------------------------------------------------------
\* A state of a page stays in the table of its variable: the bits that are read
\* with a bin lead from its place to another place, never past the table
\* (decode.go:329, 446).
StatesInTable ==
  phase \in {"symbols", "values"} =>
    \A v \in DOMAIN ans : \A l \in 1..AnsLanes :
      meta.latents[v].table # <<>> => ans[v][l] \in DOMAIN meta.latents[v].table
=============================================================================
