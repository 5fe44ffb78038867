----------------------------- MODULE ZoneSchema -----------------------------
(***************************************************************************)
(* What the metadata of a zoned layout says of its table of statistics     *)
(* (prune.go, zoneSchema and newZoneRef): the length of a zone, and the    *)
(* columns of the table in order, or nothing unless all is understood.     *)
(*                                                                         *)
(* A column has a statistic and the form of its name: "legacy" without a   *)
(* namespace, else with "()" or with "(skip_nans=false)".  A layout is a   *)
(* record of its id, metadata, rows, the rows of its table, and whether    *)
(* its column is one of signed integers.                                   *)
(***************************************************************************)
EXTENDS Protobuf, ZoneStats

CONSTANT IdOf(_) \* the aggregate that bytes name, without its namespace

Column(stat, form) == [stat |-> stat, form |-> form]

NoSchema == [ok |-> FALSE, zoneLen |-> 0, columns |-> <<>>]
Schema(zoneLen, columns) == [ok |-> TRUE, zoneLen |-> zoneLen, columns |-> columns]

-----------------------------------------------------------------------------
(* vortex.stats: a length, and a bit for each statistic.                   *)

\* A plausible bug: bounds have no flag that says they are truncated.
UnflaggedStatistics ==
  <<<<"is_constant">>, <<"is_sorted">>, <<"is_strict_sorted">>, <<"max">>, <<"min">>, <<"sum">>,
    <<"null_count">>, <<"uncompressed_size_in_bytes">>, <<>>>>

\* The columns of each bit; integers have no count of NaNs.
LegacyStatistics ==
  <<<<"is_constant">>, <<"is_sorted">>, <<"is_strict_sorted">>, <<"max", "max_is_truncated">>,
    <<"min", "min_is_truncated">>, <<"sum">>, <<"null_count">>, <<"uncompressed_size_in_bytes">>, <<>>>>

LegacySchema(metadata) ==
  LET bytes == After(metadata, ShortBytes)
      width == Septet + 1
      set == {i \in 1..(Len(bytes) * width) :
                (bytes[(i - 1) \div width + 1] \div 2 ^ ((i - 1) % width)) % 2 = 1}
      columns == FlattenSeq([i \in DOMAIN LegacyStatistics |->
                               IF i \in set THEN LegacyStatistics[i] ELSE <<>>])
  IN  IF Len(metadata) < ShortBytes \/ Len(bytes) > 2 \/ ~(set \subseteq DOMAIN LegacyStatistics)
      THEN NoSchema
      ELSE Schema(Digitwise(SubSeq(metadata, 1, ShortBytes), 2 * More),
                  [k \in DOMAIN columns |-> Column(columns[k], "legacy")])

-----------------------------------------------------------------------------
(* vortex.zoned: a version, then a message of a length and of aggregates.  *)

OnlyTags(message, tags) == message.ok /\ \A f \in Range(message.fields) : f.tag \in tags
IsBytes(f) == f.wire = 2
IsNumber(f, most) == f.wire = 0 /\ f.number \in 0..most

NoColumns == [ok |-> FALSE, columns |-> <<>>]
Columns(columns) == [ok |-> TRUE, columns |-> columns]

\* Options of min, max and sum: none, or one, whether they skip NaNs.
WithOptions(id, options) ==
  IF ~OnlyTags(options, {1}) \/ Len(options.fields) > 1
       \/ \E f \in Range(options.fields) : ~IsNumber(f, 1)
  THEN NoColumns
  ELSE Columns(<<Column(id, IF Num(options.fields, 1) # 0 THEN "()" ELSE "(skip_nans=false)")>>)

\* The column of an aggregate; a count of NaNs has none.
Aggregate(id, opts) ==
  CASE id \in {"min", "max", "sum"} -> WithOptions(id, ProtoFields(opts))
    [] id \in {"null_count", "count", "uncompressed_size_in_bytes"} /\ opts = <<>> ->
         Columns(<<Column(id, "()")>>)
    [] id = "nan_count" /\ opts = <<>> -> Columns(<<>>)
    [] OTHER -> NoColumns

AggregateOf(message, ids, opts) ==
  IF \/ ~OnlyTags(message, {1, 2}) \/ Len(ids) # 1 \/ ~IsBytes(ids[1])
     \/ opts # <<>> /\ ~IsBytes(Last(opts))
  THEN NoColumns
  ELSE Aggregate(IdOf(ids[1].data), IF opts = <<>> THEN <<>> ELSE Last(opts).data)

ReadAggregate(spec) ==
  LET Of(message) == AggregateOf(message, Tagged(message.fields, 1), Tagged(message.fields, 2))
  IN  IF IsBytes(spec) THEN Of(ProtoFields(spec.data)) ELSE NoColumns

MaxZoneLength == (2 * More) ^ ShortBytes - 1

\* One length, and columns that all differ.
SchemaWith(lengths, aggregates) ==
  LET columns == FlattenSeq([k \in DOMAIN aggregates |-> aggregates[k].columns])
  IN  IF \/ Len(lengths) # 1 \/ ~IsNumber(lengths[1], MaxZoneLength)
         \/ \E k \in DOMAIN aggregates : ~aggregates[k].ok
         \/ ~IsInjective(columns)
      THEN NoSchema
      ELSE Schema(lengths[1].number, columns)

SchemaIn(message) ==
  LET specs == Tagged(message.fields, 2)
  IN  IF ~OnlyTags(message, {1, 2}) THEN NoSchema
      ELSE SchemaWith(Tagged(message.fields, 1), [k \in DOMAIN specs |-> ReadAggregate(specs[k])])

ZonedSchema(metadata) ==
  IF Len(metadata) < 2 \/ Head(metadata) # 1 THEN NoSchema ELSE SchemaIn(ProtoFields(Tail(metadata)))

SchemaOf(layout) ==
  CASE layout.integer /\ layout.id = "stats" -> LegacySchema(layout.metadata)
    [] layout.integer /\ layout.id = "zoned" -> ZonedSchema(layout.metadata)
    [] OTHER -> NoSchema

-----------------------------------------------------------------------------
\* The last column with a statistic, or 0.
ColumnOf(columns, stat) ==
  LET those == {k \in DOMAIN columns : columns[k].stat = stat} IN IF those = {} THEN 0 ELSE Max(those)

ZoneRef(len, columns) ==
  [len |-> len, columns |-> columns,
   min |-> ColumnOf(columns, "min"), max |-> ColumnOf(columns, "max"),
   nulls |-> ColumnOf(columns, "null_count"),
   minTruncated |-> ColumnOf(columns, "min_is_truncated"),
   maxTruncated |-> ColumnOf(columns, "max_is_truncated")]

NewZoneRef(layout) ==
  LET With(schema, len) == ZoneRef(len, IF len = 0 THEN <<>> ELSE schema.columns)
      Of(schema) ==
        With(schema, UsableZoneLen(layout.rows, schema.zoneLen, schema.ok, layout.tableRows))
  IN  Of(SchemaOf(layout))
=============================================================================
