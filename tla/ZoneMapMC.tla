----------------------------- MODULE ZoneMapMC -----------------------------
(***************************************************************************)
(* Zone maps of up to 4 rows.  Their metadata are all legacy ones, and     *)
(* lists of up to 3 aggregates, in the encodings a writer may choose, and  *)
(* damaged ones.  Two schemas have every small row of statistics.          *)
(***************************************************************************)
EXTENDS ZoneMap, ProtobufWriter

CONSTANTS MaxRows,      \* rows of the column
          MaxZoneLen,   \* zone length
          Bound         \* values lie in -Bound..Bound

Small == -Bound..Bound
MCValues == -(Bound + 1)..(Bound + 1)

AllEntries(marks) ==
  [valid : {TRUE}, nulls : 0..(MaxZoneLen + 1) \cup {Null},
   min : Small \cup {Null}, max : Small \cup {Null}, minTruncated : {"exact"}, maxTruncated : marks]

SomeEntries ==
  [valid : BOOLEAN, nulls : {0, 2}, min : {-1, 0}, max : {0, 1}, minTruncated : {"exact"},
   maxTruncated : {"exact", "truncated"}]

MCIdOf(bytes) ==
  CASE bytes = <<1>> -> "min" [] bytes = <<2>> -> "max" [] bytes = <<3>> -> "sum"
    [] bytes = <<4>> -> "null_count" [] bytes = <<5>> -> "count"
    [] bytes = <<6>> -> "uncompressed_size_in_bytes" [] bytes = <<7>> -> "nan_count"
    [] OTHER -> "other"

-----------------------------------------------------------------------------
(* A writer.                                                               *)

Agg(id, opts, columns) == [spec |-> Sized(1, <<id>>) \o opts, columns |-> columns]

Keeping == "(skip_nans=false)"

\* Aggregates as they are written, options in all the ways there are.
Aggs ==
  {Agg(1, <<>>, <<Column("min", Keeping)>>),
   Agg(1, Sized(2, Numbered(1, <<1>>)), <<Column("min", "()")>>),
   Agg(2, Sized(2, <<>>), <<Column("max", Keeping)>>),
   Agg(2, Sized(2, Numbered(1, <<0>>)) \o Sized(2, Numbered(1, Overlong(1))), <<Column("max", "()")>>),
   Agg(3, Sized(2, Numbered(1, <<0>>)), <<Column("sum", Keeping)>>),
   Agg(4, Sized(2, <<>>), <<Column("null_count", "()")>>),
   Agg(5, <<>>, <<Column("count", "()")>>),
   Agg(7, <<>>, <<>>)}

Lists == {aggs \in UNION {[1..k -> Aggs] : k \in 0..3} : IsInjective(aggs)}

Message(len, aggs) ==
  Numbered(1, len) \o FlattenSeq([k \in DOMAIN aggs |-> Sized(2, aggs[k].spec)])

\* The length after the aggregates.
Reversed(len, aggs) ==
  FlattenSeq([k \in DOMAIN aggs |-> Sized(2, aggs[k].spec)]) \o Numbered(1, len)

Layout(id, metadata, rows, tableRows, columns, len) ==
  [id |-> id, metadata |-> metadata, rows |-> rows, tableRows |-> tableRows, integer |-> TRUE,
   cells |-> columns, written |-> columns, len |-> len]

ColumnsOfList(aggs) == FlattenSeq([k \in DOMAIN aggs |-> aggs[k].columns])

Zoned ==
  {Layout("zoned", <<1>> \o m, 3, 2, ColumnsOfList(aggs), 2) :
     aggs \in {<<>>}, m \in {Message(<<2>>, <<>>)}}
    \cup UNION {{Layout("zoned", <<1>> \o m, 3, 2, ColumnsOfList(aggs), 2) :
                   m \in {Message(<<2>>, aggs), Reversed(Overlong(2), aggs)}} : aggs \in Lists}

Bit(i, bits) == IF i \in bits THEN 2 ^ (i % (Septet + 1)) ELSE 0
BitByte(bits, from, to) == FoldLeft(+, 0, [k \in 1..(to - from + 1) |-> Bit(from + k - 1, bits)])

\* Statistics by their bit, and in a table the bounds with their flags.
Names ==
  <<"is_constant", "is_sorted", "is_strict_sorted", "max", "min", "sum", "null_count",
    "uncompressed_size_in_bytes">>
InTable(bits, i) ==
  IF i \notin bits THEN <<>>
  ELSE IF i \in {3, 4} THEN <<Column(Names[i + 1], "legacy"), Column(Names[i + 1] \o "_is_truncated", "legacy")>>
  ELSE <<Column(Names[i + 1], "legacy")>>

LegacyBits(bits) == <<BitByte(bits, 0, Septet), BitByte(bits, Septet + 1, 8)>>
LegacyTable(bits) == FlattenSeq([i \in 1..8 |-> InTable(bits, i - 1)])

Legacy ==
  {Layout("stats", <<2>> \o LegacyBits(bits), 3, 2, LegacyTable(bits), 2) : bits \in SUBSET (0..8)}
    \cup {Layout("stats", <<2>> \o rest, 3, 2, <<>>, 2) : rest \in {<<>>, <<0>>}}

\* Every row of statistics, for columns and tables of all lengths.
FullList ==
  <<Agg(4, <<>>, <<Column("null_count", "()")>>), Agg(2, <<>>, <<Column("max", Keeping)>>),
    Agg(1, <<>>, <<Column("min", Keeping)>>)>>

Detailed(rows, tableRows, len) ==
  {Layout("stats", <<len>> \o LegacyBits({3, 4, 6}), rows, tableRows, LegacyTable({3, 4, 6}), len)}
    \cup {Layout("zoned", <<1>> \o Message(<<len>>, FullList), rows, tableRows, ColumnsOfList(FullList), len)}

Details ==
  UNION {Detailed(rows, tableRows, len) : rows \in 1..MaxRows, tableRows \in 0..MaxRows, len \in 0..MaxZoneLen}

-----------------------------------------------------------------------------
(* Metadata that no writer writes.                                         *)

OneAgg(spec) == <<1>> \o Message(<<2>>, <<>>) \o Sized(2, spec)

Damaged ==
  {Layout("zoned", m, 3, 2, <<>>, 2) : m \in
     {<<>>, <<1>>, <<2>> \o Message(<<2>>, FullList), <<1>> \o Message(<<2>>, FullList) \o Numbered(3, <<0>>),
      <<1>> \o Message(<<2>>, FullList) \o Message(<<2>>, <<>>), <<1>> \o Message(<<>>, FullList),
      <<1>> \o Sized(1, <<2>>), <<1>> \o Message(Varied(2 * More), FullList),
      <<1>> \o Message(<<2>>, FullList \o <<FullList[1]>>),
      <<1>> \o Message(<<2>>, <<>>) \o Numbered(2, <<2>>),
      <<1>> \o Message(<<2>>, FullList) \o Varied(8 * (MaxTag + 1)) \o <<0>>,
      <<1>> \o Message(<<2, More>>, <<>>), <<1>> \o Message(<<More + 2, 4>>, <<>>),
      OneAgg(<<>>), OneAgg(Sized(1, <<8>>)), OneAgg(Sized(1, <<1>>) \o Sized(1, <<1>>)),
      OneAgg(Numbered(1, <<1>>)), OneAgg(Sized(1, <<1>>) \o Numbered(3, <<1>>)),
      OneAgg(Sized(1, <<1>>) \o Numbered(2, <<1>>)), OneAgg(Sized(1, <<1>>) \o Sized(2, Numbered(1, <<2>>))),
      OneAgg(Sized(1, <<1>>) \o Sized(2, Numbered(2, <<1>>))), OneAgg(Sized(1, <<2>>) \o Sized(2, <<8>>)),
      OneAgg(Sized(1, <<1>>) \o Sized(2, Numbered(1, <<1>>) \o Numbered(1, <<1>>))),
      OneAgg(Sized(1, <<4>>) \o Sized(2, <<0>>)), OneAgg(Sized(1, <<7>>) \o Sized(2, <<0>>)),
      OneAgg(<<8 + 3>>), OneAgg(Sized(1, <<1>>) \o <<2 * 8 + 5>>), OneAgg(<<2, 0>>)}}
    \* The last byte is lost, or there is one that belongs to nothing.
    \cup {[l EXCEPT !.metadata = IF cut THEN Front(@) ELSE Append(@, 8)] :
            l \in {z \in Zoned : Len(z.cells) <= 2}, cut \in BOOLEAN}
    \cup {Layout("stats", m, 3, 2, <<>>, 2) : m \in {<<>>, <<2, 0, 4>>, <<2, 0, 64>>, <<2, 0, 0, 0>>}}
    \cup {Layout("other", <<2>>, 3, 2, <<>>, 2)}

Unwritten == {[l EXCEPT !.written = Null] : l \in Damaged}

\* Layouts of another type of column, and tables of other columns.
Others ==
  {[l EXCEPT !.integer = FALSE] : l \in Detailed(3, 2, 2)}
    \cup {[l EXCEPT !.cells = Tail(@)] : l \in Detailed(3, 2, 2)}

MCLayouts == Zoned \cup Legacy \cup Details \cup Unwritten \cup Others

\* Those of them that have a row for each zone.
Exact == {l \in Details : l.len # 0 /\ l.tableRows = ZoneCount(l.rows, l.len)}
IsDetailed(l) == l \in Exact
MCEntries(l) == IF IsDetailed(l) THEN AllEntries(IF l.id = "zoned" THEN {"exact"} ELSE Truncation \ {"absent"}) ELSE SomeEntries
MCPreds(l) ==
  IF IsDetailed(l) THEN [op : Ops, value : Small] ELSE {[op |-> "GT", value |-> 0], [op |-> "EQ", value |-> -1]}

-----------------------------------------------------------------------------
\* The number of rows of the zone that row r lies in, counted one by one.
RowsSharingZone(r) ==
  Cardinality({s \in 0..(Rows - 1) : ZoneIndex(s, 0, zone.len) = ZoneIndex(r, 0, zone.len)})

(* The statistics of a row are read where its writer put them: a zone map   *)
(* is used only if its metadata are those a writer writes, with the length, *)
(* the columns and, for each position, the row of the table that are its    *)
(* own; and every map so written, for a column of integers, is used.        *)
FindsItsStatistics ==
  zone # Null =>
    /\ zone.len # 0 =>
         /\ layout.written # Null
         /\ zone.len = layout.len
         /\ zone.columns = layout.written
         /\ \A r \in 0..(Rows - 1) :
              /\ ZoneIndex(r, 0, zone.len) < layout.tableRows
              /\ ZoneRows(ZoneIndex(r, 0, zone.len), 0, Rows, zone.len) = RowsSharingZone(r)
    /\ /\ layout.integer /\ layout.written = layout.cells
       /\ layout.len # 0 /\ layout.len * layout.tableRows \in Rows..(Rows + layout.len - 1)
       => zone.len # 0
=============================================================================
