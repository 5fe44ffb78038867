# vortex-go in TLA+

TLA+ specifications of [vortex-go](../src/README.md), a reader of Vortex
columnar files that returns Arrow record batches, with TLC configurations that
check them on small instances and TLAPS proofs of what matters most.

    tlc -workers 2 -config RecordReader_safety.cfg RecordReaderMC.tla
    tlapm RecordReaderProofs.tla

## The system

A caller gives `Open` an `io.ReaderAt` and its size. `Open` reads the footer
through `File.read` and parses it into an immutable `File`: a schema, a registry
of segments and encodings, and the root of a tree of layouts.
`File.NewRecordReader` flattens that tree into a plan per column, and the
`RecordReader` streams batches from it: it asks the zone statistics what can be
skipped, finds the piece of each column the position lies in, decodes it if its
cursor has not cached it, and returns slices of the decoded arrays.

| Part | Source | State | Operations | Talks to |
|---|---|---|---|---|
| Record reader | `scan.go` | `pos`, `offset`, `current`, `err`, `refs`, a cursor per column | `Next`, `Retain`, `Release`, accessors | plan, zones, decoders, context, consumer |
| Column cursor | `scan.go` | piece index, cached array, dictionary | `at`, `read`, `release` | plan, `decodeFlat`, `decodeLayout` |
| Zone statistics | `prune.go` | `loaded`, `zoneLen`, `values` | `newZoneRef`, `evaluate`, `release` | `decodeLayout` |
| `zoneSchema` | `prune.go` | none | reconstructs the table's type from two forms of metadata | message readers |
| Message readers | `array.go`, `internal/encoding/proto.go` | none | `protoFields`; `parseProto` and what is asked of a message | `zoneSchema`, `decodeFlat`, decoders |
| Scan plan | `scan.go` | none, once built | `NewRecordReader`, `buildFieldPlan`, `buildScalarPlan` | layout tree |
| File access | `file.go` | none | `File.read` | the source, context |
| Opening a file | `file.go`, `dtype.go` | `File`, filled once | `Open`, `parseRegistry`, `parseLayout`, `parseType` | `File.read`, generated accessors |
| Auxiliary arrays | `scan.go` | none | `decodeLayout`, `takeDictionary` | `decodeFlat`, Arrow compute |
| Segment arrays | `array.go` | none | `decodeFlat`, `parseArray`, `parseNode` | `File.read`, decoders |
| Encodings | `internal/encoding` | a budget and a depth per array | `decode`, a decoder per encoding, `patches`, `validity`, the Arrow export | its own recursion, message readers, Pcodec, zstd |
| Pcodec | `internal/pco` | bit reader, ANS states | `Decode` | none |
| Wire code | `internal/wire` | none | generated accessors | none |

What is hard in it:

- **Ownership under failure.** Arrow arrays are reference counted. A cursor, a
  zone, `Next`'s own locals, the current batch and batches the consumer kept all
  hold references; `Next` can fail between any two of them, on a canceled
  context, a failing source or bad data, and must leave nothing behind.
- **Alignment.** Pieces of different columns, zoned ranges, nested zones and the
  batch size cut the rows at different places. Each batch must lie in one piece
  of every column, and must stop at every zone boundary.
- **Pruning.** Statistics must never lose a row: short last zones, nulls,
  truncated bounds, unusable tables, tables that describe dictionary codes.
- **Arithmetic on untrusted numbers.** Row counts, offsets and lengths come from
  the file and are added and compared as `int64` and `uint64`.
- **Metadata that is not a tree.** FlatBuffer tables refer to each other by
  offset: they can be shared, and be below themselves.
- **An untrusted source.** `io.ReaderAt` may answer any count and error.
- **Index arithmetic.** Decoders map rows of a slice to rows of the array, blocks,
  lanes, words, runs and patches, and carry the validity of every column along.
- **State machines over bits.** Pcodec reads four interleaved states, their bits and
  offsets from one position; where one bit is misread nothing after it is right.
- **A shared budget.** All arrays one array is made from draw on one number of bytes.

What makes each part correct: the reader delivers a stream of contiguous batches
that omits no wanted row, owns exactly what it holds, and always returns; a zone
is skipped only when its statistics exclude it; a plan tiles the rows and is
refused exactly for trees that do not; a read returns exactly its range; a file
opens exactly when its parts lie inside it and its tables unfold within the
limits; an auxiliary decode gives back one array, of the promised rows, or none; an
encoded array decodes to the rows it stands for, within one budget, or is refused
because its parts do not agree; statistics are read where their writer put them, or
not at all; numbers come out of a Pcodec stream as they went in.

## Modules

| Module | What it is |
|---|---|
| `ZoneStats` | Zone geometry and the decision to skip, as operators |
| `Protobuf` | The two readers of messages, byte by byte, as operators; extended by `ZoneSchema` and `ArrayDecode` |
| `ProtobufWriter` | What a writer of messages may write, for the MC modules |
| `ZoneSchema` | `zoneSchema` and `newZoneRef`: from metadata to the columns of a table |
| `ZoneMap`, `ZoneMapMC` | A reader moving over a zone map, from its metadata on; all small statistics and predicates |
| `ZoneMapProofs` | What is passed over, for every layout, table and predicate |
| `RowStream` | The abstract specification: what a reader promises its consumer |
| `RecordReader` | A scan in progress; extends `ZoneStats`, instantiates `RowStream` |
| `RecordReaderMC` | Two columns, nested zones, dictionaries |
| `RecordReaderProofs` | The inductive invariant, what follows from it, that the scan implements the stream, and the reference counts, for every plan |
| `LayoutPlan`, `LayoutPlanMC` | From a layout tree to a plan, and the trees it is tried on |
| `LayoutPlanProofs` | What a plan holds and which trees get one, for every tree |
| `SegmentRead`, `SegmentReadMC` | `File.read` |
| `SegmentProofs` | The range and the errors of a read, for every size and answer; the buffers of a segment, for every segment |
| `FileOpen`, `FileOpenMC` | `Open` and `parseRegistry`, read by read and check by check |
| `FileOpenProofs` | Which files open, and what a registered segment promises a scan, for every file |
| `MetadataWalk`, `MetadataWalkMC` | `parseLayout`, `parseType`, `parseNode`: a recursion over a graph of tables |
| `MetadataWalkProofs` | Its limits, and the tree it makes, for every graph |
| `AuxiliaryDecode`, `AuxiliaryDecodeMC` | `decodeLayout` and `takeDictionary`, with reference counts |
| `AuxiliaryDecodeProofs` | The ownership and the rows of a decode, for every tree |
| `SegmentArray`, `SegmentArrayMC` | `decodeFlat` and `parseArray`: metadata and buffers of a segment, and the array in it |
| `ArrayCodecs` | What each encoding of numbers, and each composed one, makes of its decoded children, as operators |
| `ValueCodecs` | The same for bytes, decimals, timestamps, Pcodec's pages and ALP |
| `ArrowTypes` | The Arrow type of a type, and the export of decoded values |
| `ArrayDecode` | The recursion of `decode`: limits, children, budget, deferred null check |
| `ArrayMeaning` | What an encoded array stands for, row by row, and when its parts agree: the reference |
| `Pcodec`, `PcodecMC` | The Pcodec decoder, bit by bit, and an encoder of small streams to try it on |
| `FastLanes` | Where FastLanes puts numbers and bits, as operators |
| `FastLanesDecode`, `FastLanesMC` | `bitpacked` and `delta`, block by block and lane by lane |
| `CodecProofs` | FastLanes: the layout is one to one, unpacking inverts packing, and each row is the sum of its run. Pcodec: tables of the entropy decoder lead back into themselves |

`LayoutPlan` produces what `RecordReader` assumes: `PlanTilesRows` is the
assumption `TilesRows` on `Pieces`, and the bounds on `Zones`, of
`PlanAssumption`, and `LayoutPlanProofs!TilesRows` discharges it for every tree.
`ZoneMapProofs!SkipSound` is the other assumption, `ChecksSound`: statistics that
describe their rows never exclude a wanted one.
`SegmentRead` is the detail of what `RecordReader` and `FileOpen` take as one
read of the source that succeeds or has an outcome of `Outcomes`; the guard
`RangeInFile` of both is that of `SegmentRead`, and `SegmentsReadable` says that a
registered segment passes it. `MetadataWalk` is the detail of the flags `type` and
`tree` of `FileOpen` (and of an array's metadata, which is parsed per segment); the
trees it yields are what `LayoutPlan` plans. `AuxiliaryDecode` is the detail of
`LoadSucceeds` and `DecodeDictionary`, and `DecodesItsRows` is why a table that
loaded has an entry per zone. `SegmentArray` is what those take as the decoding of
one segment; its last step is its parameter `DecodeTree`, which the runs take to be
`DecodeArray` of `ArrayDecode`, composed of `ArrayCodecs`, `ValueCodecs` and, last,
`ArrowTypes`. The `bitpacked` of `ArrayDecode` takes the
numbers of a buffer as given, and `FastLanesDecode` is how they come out of it; its
`pco` takes the numbers of a page, and `Pcodec` is how those do. `ZoneMap` composes
`Protobuf`, `ZoneSchema` and `ZoneStats` into the two calls `RecordReader` makes of a
zone, `newZoneRef` and `evaluate`.

`SegmentProofs` and `CodecProofs` extend two components each. `SegmentArray` and
`Pcodec` therefore name their control `stage` and `phase`, and their specifications
`FlatSpec` and `PcoSpec`; the current chunk of a stream, `chunk` in the code, is `meta`.

Operators commented "a plausible bug" are never part of a specification. Each
stands next to the definition it is a wrong version of, and the property that
catches it is listed in `PROJECT.json`.

### How `RecordReader` corresponds to the code

`Next` runs on its caller's goroutine; other goroutines may cancel the context,
retain or release the reader and release batches. `Next` is cut into actions
where something else can happen or where it can fail: at each test of the
context and around each read of the source.

| Code | Actions |
|---|---|
| `scan.go:199-225`, entry of `Next` | `CallRefused`, `CallCanceled`, `CallBegins` |
| `:226-231` | `EndOfRows`, `LoopBegins`, `CancelSeen` |
| `:232-251` and `evaluate` | `CheckOutside`, `EvaluateUnusable`, `LoadBegins`, `LoadSucceeds`, `LoadGivenUp`, `LoadFatal`, `Evaluate` |
| `:252-255` | `SkipZone`, `KeepZone` |
| `:256-269`, `columnCursor.at` | `LocatePiece`, `Located` |
| `:276-283`, `columnCursor.read` | `ReadCached`, `DecodeValues`, `DecodeCodes`, `DecodeDictionary`, `TakeValues`, `DecodeFails`, `TakeFails` |
| `:284-290` | `CancelSeen`, `Emit` |
| the deferred functions `:207-222`, `:271-275` | part of every action that returns false (`ReturnFalse`) |
| `Retain`, `Release` | `Retain`, `ReleaseShared`, `ReleaseLast` |
| the consumer | `Cancel`, `RetainBatch`, `ReleaseBatch` |

A *block* stands for one decoded array, and `refcnt` counts its references.
Slices and batches are counted as references to the array they are cut from. The
values of column `c`, piece `i` are one block however often they are decoded
again; the count is exact all the same, since it is compared with all that hold
any of them. The struct array a column of a flat root is taken from is released
where it is read and is not distinguished from its field.

`checks` pairs each predicate with each zone of its column in the order of the
two loops; two predicates on one column share its zones, as in `getPlan`. What a
table excludes is a constant set of entries, which `RecordReaderMC` computes with
`Skip` of `ZoneStats` from statistics of real columns.

One subtlety the proof brought out: `loaded` stays set while `zoneRef.release`
drops `values`. This is harmless only because every release on a live reader is
at the end of the rows or with an error; otherwise a zone would silently stop
pruning. `ZoneInv` records it.

### How the other modules correspond to the code

| Code | Definitions |
|---|---|
| `array.go:129-164`, `internal/encoding/proto.go` | `Protobuf`: `ProtoFields`, `ParseProto`, `Num`, `Repeated` |
| `prune.go:35-65`, `:159-292` | `ZoneSchema`: `LegacySchema`, `ZonedSchema` and `Aggregate`, then `NewZoneRef` |
| `prune.go:66-142` | `ZoneMap`: `MakeZoneRef`, `EvaluateUnusable`, `GiveUp`, `Evaluate`, over `ZoneIndex`, `ZoneBound`, `Skip` of `ZoneStats` |
| `scan.go:347-433`, `:119-163` | `LayoutPlan`: `FieldPlan`, `ScalarPlan`, `GetPlan` |
| `file.go:168-203` | `SegmentRead`: `Accept`, `Refuse`, then `AskSource`, `Answer`, `StopCanceled` per piece, `Finish` |
| `file.go:60-160`, `:229-277` | `FileOpen`: an action per read, `ParseRegistry`, `ParseSchema`, `ParseTree` |
| `file.go:278-324`, `dtype.go`, `array.go:87-121` | `MetadataWalk`: a stack of calls; `Call` is the entry of any of the three functions, `Steps` the order of the rest of its body |
| `scan.go:456-561` | `AuxiliaryDecode`: a stack of calls; `Call`, `Keep`, an action per way to complete, `ChildFailed` and `FailReleasing` for the deferred releases |
| `array.go:16-86` | `SegmentArray`: an action per test, `CutBuffer` per buffer |
| `decode.go:233-507` | `ArrayDecode`: `Children` and `Shaped` what an encoding asks and tests, `Decoded` its body, `Charged` its calls of `reserve`, `NullChecked` the deferred function |
| `decode.go:51-181`, `:509-639`, `numeric.go` | `ArrayCodecs`: an operator per function |
| `binary.go`, `temporal_delta.go:11-69`, `decode.go:399-429` | `ValueCodecs`: likewise |
| `types.go`, `arrow.go` | `ArrowTypes`: `ArrowType`, `Exported` and `ExportFits` |
| `pco/decode.go` | `Pcodec`: `ParseChunk` and `ParseLatent`, an action per batch of symbols and of offsets, `FinishPage` with an operator per mode and delta |
| `numeric.go:173-194` | `FastLanes!BitRead`, `FastLanesDecode!Unpack` |
| `temporal_delta.go:71-148` | `FastLanesDecode`: `DeltaBegins`, then `DeltaLane` per lane and `DeltaCopy` per block, `DeltaTail` |

In `ArrayCodecs` the tree of `values` is a function from paths, and loops over rows
are functions of the row. A decoder that fails returns nothing, so the order of its
tests does not show; which children it decodes, and with what type and length, does.
The order in which patches are applied does not show either, because they are
refused unless their indices increase. A buffer is the numbers it holds, and a
number packed in bits is, in `FastLanesDecode`, the places of its bits. The budget
is counted per node, as what it and its children spend; what is charged before a
failure does not show, but for a child whose error is lost, which is taken to
charge nothing.

The two stacks stand for Go's. In `MetadataWalk` the three functions are one
recursion over tables of different kinds: they share `nodeBudget` and differ only
in the order of children, names and numbers, which `Steps` states kind by kind. In
`AuxiliaryDecode` the array a layout decodes to is named by its layout, and the
columns a struct array retains are counted as its own references.

## What is checked

| Run | Question | Bounds |
|---|---|---|
| `zone_map` | Is a table found, and the decision right? | all 512 legacy metadata and lists of up to 3 of 8 aggregates, in each encoding a writer may choose, and damaged ones; up to 4 rows, zones of up to 3, values -1..1 and null, all six operators |
| `reader_safety` | Is a scan right under every interleaving, does `Next` return, is everything freed? | 7 rows, 2 columns of 3 and 4 pieces with an empty one, 2 dictionaries, a zoned range with a short last zone and one nested in it, 2 predicates on a column, batch size 4, 2 references, 2 kept batches |
| `reader_deadline` | Are statistics optional? (violated) | the same scan, a source that reports a deadline |
| `layout_plan` | Is the plan that of the tree? | 3859 trees of depth up to 5, chunks of up to 3 children, an int64 of 4 bits |
| `segment_read` | Is a read right whatever the source answers? | 5 bytes in pieces of 2, ranges inside, outside, negative and wrapping |
| `file_open` | Which files open, and what may a scan rely on? | a file of 20 bytes, every piece and segment at 13 offsets and 7 lengths, those that wrap around included, an int64 of 6 bits, each flag spoiled |
| `metadata_walk` | Is a graph of tables parsed as the tree it unfolds to? | all graphs of 3 layouts with up to 2 children, arrays, structs with names of 0 to 65 bytes, extensions, lists; depth 3, budget 8 |
| `auxiliary_decode` | Who owns what when a decode stops halfway? | trees of up to 7 layouts of every id, rows up to 7 in an int64 of 4 bits, a failure or cancellation at any step |
| `segment_decode` | Are buffers cut from their own bytes, which arrays decode, and to what? | segments of up to 9 bytes, up to 3 buffers, metadata of 6 bytes at the end or elsewhere; 27 encodings, up to 4 rows (more near the limits), numbers of 3 bits, RLE blocks of 2, texts of up to 4 bytes, symbols of up to 2, decimals of 4 and 8 bits, offsets 0..2, structs with a null field, depth 3, a budget of 512 bytes |
| `segment_children` | Is every child decoded that an array asks for? (violated) | the arrays of bytes of the run above |
| `fast_lanes` | Does each number come from its place? | blocks of 1024 as in the code, widths 8 to 64, every bit width 0..64, slices in one block, across two, into and in the tail |
| `pcodec` | Do numbers come back, and only from sound streams? | numbers of 3 to 5 bits, batches of 4, 2 states in turn, 1 page of 9 numbers or 4 pages of two chunks, 4 modes and none, 3 deltas and none, up to 3 variables, old and new versions; streams cut, extended, or with wrong metadata, counts or latents |

**`zone_map`**: `FindsItsStatistics`, a table is used exactly when its metadata are
those a writer writes, and then with the columns and the row that writer had in mind;
it is what `IndexInsideTable` proves of the length of the table, and more.
`SkipIsSound`, quantified over all columns the statistics describe; `SkipIsComplete`,
the decision is as strong as usable statistics allow; `StaysInZone`, the bound of an
evaluation is the end of its zone.

**`reader_safety`**: `RefcountExact`, each array has as many references as there
are holders, in every state in between; `FalseReleasesAll`, once `Next` returned
false only what the consumer kept is alive, which
`layout_boundary_test.go` expects in two cases; `SliceInBounds`, `NoGapNoStall`,
`PruningExact`, `NoWantedRowLost`; `StatsNeverFatal`, no failure of a
statistics read ends a live scan, when the source reports no deadline;
`ImplementsRowStream`, refinement of `RowStream`; `NextReturns` and `DrainFreesAll`,
liveness under `DrainSpec`.

**`layout_plan`**: `PlanTilesRows`; `EveryRowItsLeaf` and `ZonesDescribeValues`
compare the plan, row by row, with a descent of the tree over the integers;
`RefusesExactly` compares acceptance with a declarative definition of a good
tree. With `int64` of 4 bits, chunks of 7, 7 and 3 rows add up to 1, so the guard
at `scan.go:362` is exercised; without it the sum would be accepted.

**`segment_read`**: `ReadsInsideFile`, `ReadWhole`, `FailsOnlyIfSourceDid`,
`ReadReturns`.

**`file_open`**: `OpensExactly` compares acceptance with sums over the integers
(`WellFormed`), so an offset past the end whose difference wraps around would be
seen; `SegmentsReadable`, the ranges checked here pass the check of a later read.

**`metadata_walk`**: `WorkBounded`, the depth of calls and the nodes and names of
the tree, however tables are shared; `EveryNumberResolves`, numbers checked here
and used unchecked later; `ParsesTheUnfolding`, acceptance and result against the
unfolding of the graph, defined level by level (`Unfolding`), which excludes both a
limit that refuses one node too few and one that refuses a legal tree; `ParsingEnds`,
on cyclic graphs too.

**`auxiliary_decode`**: `OwnershipExact`, in every state in between, and one array or
none at the end, which `layout_boundary_test.go` expects of a few failures;
`DecodesItsRows`, chunk rows that wrap around included.

**`segment_decode`**: `BuffersExact`, ranges of buffers against the bytes the metadata
at the end of the segment occupies, and acceptance against a sum of all the parts.
`RefusesTheUnsound` compares acceptance with `Sound`, which says in terms of rows and
values when the parts of an array agree; `DecodesItsMeaning` compares the rows of the
Arrow array with `Rows`, which says what an encoded array stands for. Neither mentions
masks that may be absent, loops or positions: a row is null or has a value at each
path. What a scalar may say is stated by reading it back (`SaysRow`): an integer has
room in a word when the word, in two's complement if the kind is signed, stands for it.
A float of a constant or a fill is not an integer to be tested: `decode.go:617-636` takes any
number of the message for its bits and keeps those of the width, and no doc or test of
the repository says that more bits are an error, so such an array is decoded, and to
those bits. Constants of every kind in and past their range are among the inputs, alone,
in a dictionary and as the fill of patches. `SharesOneBudget` counts what the columns and texts of all nested arrays take,
which is never more than one budget; an array that could take less than
it even if every copy were new is never refused for it (in `RefusesTheUnsound`).

**`fast_lanes`**: `UnpacksWhatWasPacked` against `BitWritten`, where a packer puts a
bit: lanes are streams of bits cut into words that alternate; `SumsItsRun` against
sums of runs of rows. Which deltas' validity belongs to a row is taken from the code
(`temporal_delta.go:127` explains why it is not the place of its delta).

**`pcodec`**: the encoder in `PcodecMC` takes differences and runs the entropy coder
backwards, from what the format promises; `DecodesWhatWasEncoded` compares numbers,
`StatesInTable` says that states a table leads to lie in it while a page is read (they
are locals of a page, and a later chunk has other tables), and `RefusesTheDamaged`
that a stream no encoder writes is not decoded to the end.

**Why the bounds are enough.** What differs between steps of a scan is how the
position lies relative to pieces, zones, cached arrays and dictionaries. The
small scan has each case: batches that end at a piece, at a zone, at the batch
size; a zone skipped by one predicate and kept by the other; a position before,
in and past the nested range; a dictionary kept, replaced and dropped. Two kept
batches and two references give every order of release. What the bounds leave
open is closed by the proofs, except for the properties listed under "only model
checked". A graph of three tables has every way of sharing and every short
cycle, under limits small enough for each to be the first one reached. An
auxiliary tree of depth 3 has a failure below a call that holds nothing, one
array, several, and a struct array that holds others. The small arrays have a first,
an inner and a last row, a slice that starts before, at and after an end, and in each
list of codes, ends, indices or starts every kind of step by one in the wrong
direction; blocks of FastLanes are not scaled down at all. Texts of four bytes have
views with and without a prefix, and codes that end in a symbol, an escape or the
middle of one. Metadata are read byte by byte, and a byte keeps its seven bits and its
mark of continuation; numbers are of 8 bits. A page of nine numbers in batches
of four has two full batches and a rest, and each state is used in every batch.

**Fairness.** `WF_vars(Step)`: `Next` is sequential code on its caller's
goroutine with no lock to wait for, and a read of the source is assumed to
return. `DrainFreesAll` adds a consumer that keeps calling `Next` and gives kept
batches back (`WF_vars(Call)`, `WF_vars(ReleaseBatch)`); nothing obliges it to
call `Release` or anyone to cancel. `segment_read` assumes that the source
answers, not what it answers. `metadata_walk` has `WF_vars(Next)`: parsing is
sequential and waits for nothing.

**The violated runs.** `evaluate` tells "the scan was canceled" from "the table is
unreadable" by `errors.Is(e, context.Canceled)` or `context.DeadlineExceeded`
(`prune.go:76`). A source with per-read deadlines of its own reports the latter
too, and then an optional table ends a live scan, against `prune.go:18` ("Optional
statistics never make a readable data layout unreadable"). `StatsOptional` proves
that there is no other way.

FSST with three buffers reads its validity with `codes.valid, e = d.validity(...)`
inside a block that declares an `e` of its own (`binary.go:133`), and tests the outer
one after it (`:158`). A validity child that cannot be decoded, or has nulls, is then
taken for none: every row is valid. `decode.go:249` says that every child must honour
its declared nullability before its values reach a parent. `ChildrenHonoured` states
this, and `segment_children` finds such an array; `ErrorLost` is where the model has
it, and the properties of `segment_decode` leave these arrays out.

## What is proved

The assumptions are `NullAssumption`, `BytesAssumption`, `LayoutsAssumption`,
`ValuesAssumption`, `PlanAssumption`, `ReadAssumption`, `FileAssumption`,
`WalkAssumption`, `InputsAssumption`, `TreesAssumption`, `RowsAssumption`,
`FieldsAssumption`, `HalfAssumption`, `ChildrenAssumption` and `SegmentsAssumption`: the
shape of a plan,
statistics that describe their rows, references between tables that lead to tables,
layouts that are trees, row counts that are small beside an `int64`, deltas and bases
that are numbers, as many as the code asks its children for, tables that have names
and children only where their kind has any (`HasItsFields`), tables of statistics
that, when they have as many columns as their schema, have those columns (a file
names none), rows of them and predicates over the values of the column, segments whose
metadata are described for what their bytes say, and the types of the other constants. Everything holds for every number of rows, columns, pieces,
zones, checks and layouts, every batch size and every pattern of failures.

- **`ZoneMapProofs`**: first the decision: `SkipSound`, by cases on the operator from
  what it means for an entry to describe its rows; `SkipComplete`, whose witness is a
  zone of the nulls the entry counts and then one value (`DescribedBy`, `HasMatch`);
  `BoundStaysInZone`, `IndexInsideTable` and `ZoneRowsCounted` (the rows a null count is
  compared with are those of the zone), from division with remainder
  (`ZoneIndexUnique`). Then `PrunesSoundly`, `PrunesCompletely` and
  `ReaderStaysInZone`, of a reader over any layout: `IInv` says that a `zoneRef` with
  a length is the one made of the metadata. From it, its length is a positive number,
  whatever the bytes are (`LengthType`, of what digits write), and what is read at
  the places of the schema is what the table says there (`ReadsTruth`).
- **`RecordReaderProofs`**: `TypeCorrect`, `SlicesInBounds`, `NeverGapNorStall`,
  `PrunesExactly` and `StatsOptional`. None is inductive alone. `IInv` adds
  `ControlInv` (what each program counter says of the reader: scanning means no
  error, no batch, rows left), `CursorInv` (a cursor is never past the piece that
  holds the position; once located, its piece covers the batch under
  construction), `ZoneInv` (a table that is loaded and in use is held while rows
  remain) and `CheckInv` (what the checks done so far say of the rows up to `end`
  and up to `skipUntil`). The heart is `CheckedInv`: each check shrinks the batch
  to rows with one answer, so what earlier checks established stays true. A
  lemma per group of actions, then `Inductive`, then one line per theorem.
  Its last section is the refinement: `StreamLosesNone` for the abstract stream,
  `Implements` (each action is one step of the stream or none), and
  `WantedRowsReturned`, which carries the first through the second.
  Before it stand `OwnershipExact`, that `RefcountExact` always holds, and
  `FalseFreesCaches`, for `FalseReleasesAll`. Reference counts are here sets of holders.
  Their invariant adds to `RefcountExact` that a local of `Next` is what is being built and
  not yet in a batch (`LocalsInv`), that a cache which was emptied stays empty until it is
  loaded again (`EmptiedInv`), and what becomes of the tables of zones (`TablesInv`): a
  holder added by a step was not one before, and one removed was.
- **`LayoutPlanProofs`**: `TilesRows`, `EveryRowItsLeaf`, `ZonesOfValues` and
  `RefusesTheRest`, for `PlanTilesRows`, `RowsFromTheirLeaves`, `ZonesDescribeValues` and
  `RefusesExactly`, over trees of any depth and width. A tree is a sequence of layouts
  with children before parents, and what is computed of a tree is a recursive function
  over its places, which is shown to exist before anything is said of it. `ChunkedIs` is
  the heart: when the checks of a chunked layout pass, its sum of `Int64` never wrapped,
  and its plan is those of its children one after the other, each moved by the rows
  before it. The properties then go up the tree by induction on the place of a
  layout: pieces tile the rows (`Tiles`), each row comes from its leaf (`Shows`), and a
  plan is made exactly of trees that are well formed (`Judged`).
- **`SegmentProofs`**: `StaysInsideFile`, `ReturnsTheRange`, and
  `KeepsReaderAtContract` for `FailsOnlyIfSourceDid`: the error of a read is that of the
  last answer of the source, unless that answer filled the range (`LastWhole`).
  Then `BuffersAreExact`, for `BuffersExact`, of `decodeFlat` and whatever
  `DecodeTree` makes of an array. The property says where buffers lie, not that the code's
  running end is a sum, so it is not inductive. `FlatInv` adds that the i-th buffer
  that was cut ends at the i-th sum of paddings and lengths (`Chained`), that the bytes
  left for buffers are those the metadata do not take (`Free`), and what each test passed
  so far has seen to (`Tested`). Sums grow (`EndsGrow`), so the first buffer that does not
  fit shows that the whole does not (`TooLong`): `decodeFlat`, which stops there,
  refuses nothing that a look at the sum of all parts would accept. It
  needs `SegmentsAssumption`: what is said of the bytes of a segment is what is read
  from them.
- **`FileOpenProofs`**: `SegmentsAreReadable`, from `RangeFacts`: a `uint64` range
  that passes the two comparisons is the same range in `int64`. `OpensWellFormed` for
  `OpensExactly`: a file opens only when it is well formed, and one that is not
  opened, though nothing was canceled or failed to be read, is not. `OpenInv` says which
  parts have been found good by the stage that `Open` has come to. `FileAssumption`
  asks for room for a footer in the limit of metadata (`MaxMetadata >= 8`), which the
  code's 64 MiB leaves.
- **`AuxiliaryDecodeProofs`**: `AuxiliaryOwnership` (each array has exactly the
  references that calls, other arrays and the caller hold, at every step and on every
  error path) and `AuxiliaryRows` (a decode that succeeds has the rows of its layout),
  for trees of any depth and width. `IInv` has five parts. `OrderInv`: the stack of calls is a path down
  the tree. `BalanceInv`: references equal holders, counted over the stack and over the
  parts of the arrays that are alive. `FreshInv`: layouts below and right of the path have no arrays yet.
  `RowsInv`: what each call has checked of the children it began. The last step of
  a decode then leaves one array alive, because an array other than the returned one has
  a holder with a smaller number, which is alive too.
  `ReleaseBalances` is the key lemma: giving up references frees what they alone held, and what that held,
  and every other count stays equal to its holders. It is proved by induction on
  the number of a layout. `Sum` and `Released` are recursive functions, shown to exist by
  the same induction (`UpToExists`, `LeftExists`), which is stated over a set of numbers:
  if it holds 0 and the successor of each member, it holds all, since a set of numbers
  without a least element is empty.
- **`MetadataWalkProofs`**: `StaysInBudget` and `NumbersResolve`, for graphs of any
  number of tables, cyclic or not. The invariant accounts for the budget (what is
  left, the nodes and the names never exceed `MaxNodes` together until a call fails) and says
  of every table of the tree that each of its numbers is resolved or still ahead of
  a call on the stack. `ParsesUnfoldings`, for `ParsesTheUnfolding`, adds `AheadInv`: what a
  call in progress has left to do (`Owed`) are the trees of its last children and the
  cost of its last names, how many of each is told by the step it has come to, kind by kind
  (`CountsOfSteps`); and the tree so far, followed by what every call owes from the
  innermost out (`Owing`), is the whole unfolding, in its tables and in its cost
  (`Balanced`). A call turns the first tree that is owed into its root and what the new
  call owes; a return has nothing left to owe. Parsing fails where the balance shows
  that the whole is not acceptable: a name or a node costs more than what is left, a
  table where calls nest no deeper has no place, or a table of the unfolding is malformed.
  `NamesCost`, `Forest` and `Unfolding` are recursive functions, shown to exist
  (`IterationExists`) before they are used.
- **`CodecProofs`**: `Unpacks`, that every slice of every packed array comes out
  bit by bit as it went in. It rests on `PlaceOfRowAndLane` (the lane and row
  computed from a position are the right ones), which needs that the order of the
  rows is its own inverse and that lanes are aligned (`Groups`), and on
  `ReadsTheBitWritten`, by division with remainder in one word or two. `Sums`, for
  `SumsItsRun`: each row of each slice of an array of deltas is what its own run adds up
  to. The code reduces after every addition and the property once at the end;
  `RunningIsTotal` is by induction along a run, over functions shown to exist. The lanes of a
  block are its runs: consecutive rows of a lane are stored in consecutive places
  (`LaneStoredInOrder`, `LaneIsRun`), and each place is stored by a lane (`StoredByLane`),
  so that a block leaves nothing of the one before it (`TransposeOneToOne`). The
  invariant `Summing` says that the lanes done have their sums in the scratch block, and that
  the rows of the slice in blocks done have their values, of this block and no other.
  The last part is about Pcodec. `StrideVisitsEachPlace`: the stride with which bins take
  places is odd and the size of a table a power of two, so no place is taken twice, and
  then none is left. Hence a bin has as many places as its weight, and a place that
  is the k-th of its bin leads, with the bits that `ReadOf` says are read, to an interval
  inside the table (`TableLeadsBack`): the code indexes by it without a test.
  `StatesStayInTable`, for `StatesInTable`, carries this through the pages of a chunk.
  `StatesInv` says that every table kept in `meta` leads back into itself (`Sound`),
  as `ParseLatent` tests that its bins fill it, and that the states of a page in progress
  are numbers below its size, first as bits of that width, then as places a table led to.
  The streams of this theorem are any bits, of an encoder or not. `Pow`, `Sum`, `Bits`
  and `ParseLatents` are recursive functions, shown to exist before they are used.

Only model checked: the liveness properties (fairness and `ENABLED` are beyond
the prover); `FindsItsStatistics`, which compares a writer with a reader of bytes, an
induction over them (its zones are right for every table by `IndexInsideTable` and
`ZoneRowsCounted`); `DecodesItsMeaning`, `RefusesTheUnsound` and `SharesOneBudget`, of
`ArrayDecode`, which is a `RECURSIVE` operator over trees: the prover loses its SMT
backend where one is in reach; `DecodesWhatWasEncoded` and `RefusesTheDamaged`, which
compare Pcodec with the encoder of `PcodecMC`, an induction over the streams it writes.

## What is not modelled

- Panics inside Arrow, which `Next` recovers into an error: as a failed read. An
  array live only in the panicking function is then leaked to the garbage
  collector; this is not represented.
- In `SegmentArray`, overflow of sums: paddings and lengths are of 16 and 32 bits, and
  there are at most `maxNodes` buffers, so an `uint64` holds them.
- Misuse: more releases than retains, `Retain` after the last `Release`, two
  goroutines in `Next`, a `Release` of the last reference under a running `Next`.
- In the scan, the values of decoded arrays; the Arrow schema, names and messages.
- In `ArrayDecode`: cancellation between two arrays of a tree; `vortex.list` types, which no
  encoding yields. Integer types of children are told apart by their sign only, and
  every number has one width. Metadata of an encoding are a record, except for those
  of ALPRD, which are read from their bytes, and of a primitive array, which must have
  none; that the bytes are a message at all is tested for each. A scalar is the value
  its message has. What the zstd library makes of a frame is an input; the floats of ALP and of Pcodec are bits, and what they are multiplied
  to is a parameter. Patches of packed numbers bring no nulls in the inputs. The test
  that a run-end offset cannot wrap around is left out: no end could cover such a row.
- `delta` is in `FastLanesDecode` only, and does not nest in other arrays there.
- In `Pcodec`, what it allocates: the numbers of all pages are at most `MaxPage`.
- In `zoneSchema`, the types of the columns: an aggregate has one type for a column.
- Generated wire code, fixture generators, scripts.

## Plan

In order of importance; the first nineteen are done.

1. `ZoneStats`, `RecordReader`, `RowStream`: the scan, its ownership and pruning.
2. Proofs of the scan's safety and of the refinement.
3. `LayoutPlan`: the plan the scan assumes.
4. `SegmentRead` with proofs.
5. `FileOpen` and `MetadataWalk` with proofs: what a file promises a scan.
6. `AuxiliaryDecode`: partial results and releases of `decodeLayout`.
7. `ArrayDecode`, `FastLanesDecode` with proofs: the integer encodings, and those
   composed of other arrays.
8. `SegmentArray`: metadata and buffers of a segment, and the array in it.
9. `Protobuf`, `ZoneSchema`, `ZoneMap`: statistics from their metadata on.
10. `ValueCodecs`, `ArrowTypes` and the budget in `ArrayDecode`: bytes, decimals,
    timestamps, and what a decoded array becomes.
11. `Pcodec`: the bit reader, the states, deltas and modes.
12. `RefcountExact` proved, from an invariant that accounts for every holder.
13. The ownership and the rows of `AuxiliaryDecode` proved.
14. The four properties of `LayoutPlan` proved, with its recursion as functions.
15. `SumsItsRun` proved, for every base, delta and slice.
16. `ParsesTheUnfolding` proved, for every graph, with the unfolding as functions.
17. `SkipIsSound`, `SkipIsComplete` and `StaysInZone` proved, from the metadata on, with
    `Protobuf` as recursive functions.
18. `StatesInTable` proved, for any streams, with the bit reader and the tables of
    `Pcodec` as recursive functions.
19. `BuffersExact` proved, for any segment and any decoding of its array.
20. The metadata of the other encodings from their bytes on.
21. Proofs about the budget and about the operators of `ArrayCodecs` (what `Gather` and
    `Masked` preserve).
