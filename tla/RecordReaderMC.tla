--------------------------- MODULE RecordReaderMC ---------------------------
(***************************************************************************)
(* Small scans.  The zone maps are real ones: columns of values, tables of *)
(* statistics that describe them and predicates, from which ZoneStats      *)
(* computes what each check excludes and which rows are wanted.            *)
(***************************************************************************)
EXTENDS RecordReader

P(start, stop, dict) == [start |-> start, end |-> stop, dict |-> dict]
Z(start, stop, len) == [start |-> start, end |-> stop, len |-> len]
Stats(nulls, lo, hi) ==
  [valid |-> TRUE, nulls |-> nulls, min |-> lo, max |-> hi,
   minTruncated |-> "exact", maxTruncated |-> "absent"]
Pred(op, value) == [op |-> op, value |-> value]

\* The entries of a table that exclude their zone under p.
Excluded(z, table, p) ==
  {i \in 0..(Len(table) - 1) :
     Skip(table[i + 1], ZoneRows(i, z.start, z.end, z.len), p)}

\* Column 1: plain pieces, one of them empty; column 2: two dictionaries, the
\* first used by two pieces, then plain values.
MCPieces ==
  <<<<P(0, 2, 0), P(2, 2, 0), P(2, 7, 0)>>,
    <<P(0, 1, 1), P(1, 3, 1), P(3, 5, 2), P(5, 7, 0)>>>>

\* The predicate column: a zoned range over the whole file, whose last zone is
\* a short one, and nested in a chunk of it a second range of rows 3..5.
MCData == <<1, 2, Null, Null, 5, 6, 1>>
MCZones == <<Z(0, 7, 2), Z(3, 6, 1)>>
MCWhole == <<Stats(0, 1, 2), Stats(2, Null, Null), Stats(0, 5, 6), Stats(0, 1, 1)>>
MCNested == <<Stats(Null, Null, Null), Stats(0, 5, 5), Stats(0, 6, 6)>>

MCPreds == <<Pred("GT", 1), Pred("NEQ", 6)>>

\* Two predicates on the same column share its zones.
MCChecks ==
  <<[zone |-> 1, excluded |-> Excluded(MCZones[1], MCWhole, MCPreds[1])],
    [zone |-> 2, excluded |-> Excluded(MCZones[2], MCNested, MCPreds[1])],
    [zone |-> 1, excluded |-> Excluded(MCZones[1], MCWhole, MCPreds[2])],
    [zone |-> 2, excluded |-> Excluded(MCZones[2], MCNested, MCPreds[2])]>>

MCWanted ==
  {r \in 0..6 : \A i \in 1..Len(MCPreds) : Matches(MCData[r + 1], MCPreds[i])}

\* The statistics describe the rows of their zones.
ASSUME MCTablesDescribe ==
  /\ \A i \in 0..3 :
       LET n == ZoneRows(i, 0, 7, 2)
       IN Describes(MCWhole[i + 1], SubSeq(MCData, 2 * i + 1, 2 * i + n), n)
  /\ \A i \in 0..2 : Describes(MCNested[i + 1], SubSeq(MCData, i + 4, i + 4), 1)
=============================================================================
