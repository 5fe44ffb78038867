------------------------------ MODULE ZoneMap ------------------------------
(***************************************************************************)
(* The zone map of a column, from the bytes of its layout's metadata to    *)
(* the rows that a scan passes over: newZoneRef reads the schema of the    *)
(* table of statistics, and evaluate, zone after zone, a row of it.        *)
(*                                                                         *)
(* Beside what NewZoneRef reads, a layout has what is true of it: `cells`, *)
(* the columns its table really has, and, when its metadata were written   *)
(* by a writer of this format, `written`, the columns and `len`, the       *)
(* length of a zone, that the writer wrote; else `written` is Null.        *)
(***************************************************************************)
EXTENDS ZoneSchema

CONSTANTS Layouts,    \* zoned layouts
          Entries(_), \* rows of the table of a layout, by statistic
          Preds(_),   \* predicates on its column
          Values      \* what the column may hold

Stats(columns) == [k \in DOMAIN columns |-> columns[k].stat]

\* A table names no columns: it has those of its schema, unless it has more
\* or fewer, and is then not decoded.
ASSUME LayoutsAssumption ==
  \A l \in Layouts :
    /\ l.rows \in Nat
    /\ l.metadata \in Seq(0..(2 * More - 1))
    /\ l.cells \in Seq([stat : STRING, form : STRING])
    /\ SchemaOf(l).ok /\ Len(SchemaOf(l).columns) = Len(l.cells) =>
         Stats(SchemaOf(l).columns) = Stats(l.cells)

ASSUME ValuesAssumption ==
  /\ Values \subseteq Int
  /\ \A l \in Layouts :
       /\ \A e \in Entries(l) : e \in Entry /\ {e.min, e.max} \subseteq Values \cup {Null}
       /\ \A p \in Preds(l) : p \in Predicate /\ p.value \in Values

VARIABLES layout,   \* the layout
          zone,     \* the zoneRef, or Null before there is one
          entry,    \* the row of the table for the zone under evaluation
          pred,     \* the predicate
          pos,      \* the reader's position
          skipped   \* the last evaluation excluded its zone

vars == <<layout, zone, entry, pred, pos, skipped>>

Rows == layout.rows
Usable == zone # Null /\ zone.len # 0 /\ pos < Rows

\* The row of the table, column by column, and what is read of it.
Cell(k) ==
  CASE layout.cells[k].stat = "min" -> entry.min
    [] layout.cells[k].stat = "max" -> entry.max
    [] layout.cells[k].stat = "null_count" -> entry.nulls
    [] layout.cells[k].stat = "min_is_truncated" -> entry.minTruncated
    [] layout.cells[k].stat = "max_is_truncated" -> entry.maxTruncated
    [] OTHER -> Null

CellAt(k, none) == IF k = 0 THEN none ELSE Cell(k)

Seen ==
  [valid |-> entry.valid,
   nulls |-> CellAt(zone.nulls, Null), min |-> CellAt(zone.min, Null), max |-> CellAt(zone.max, Null),
   minTruncated |-> CellAt(zone.minTruncated, "absent"),
   maxTruncated |-> CellAt(zone.maxTruncated, "absent")]

SkipsAt(p) == Skip(Seen, ZoneRows(ZoneIndex(p, 0, zone.len), 0, Rows, zone.len), pred)

-----------------------------------------------------------------------------
Init ==
  /\ layout \in Layouts
  /\ zone = Null
  /\ entry = Null
  /\ pred = Null
  /\ pos = 0
  /\ skipped = FALSE

MakeZoneRef ==
  /\ zone = Null
  /\ zone' = NewZoneRef(layout)
  /\ entry' \in Entries(layout)
  /\ pred' \in Preds(layout)
  /\ UNCHANGED <<layout, pos, skipped>>

\* A table with another number of columns than its schema is not decoded.
GiveUp ==
  /\ Usable
  /\ Len(zone.columns) # Len(layout.cells)
  /\ zone' = [zone EXCEPT !.len = 0]
  /\ pos' = Rows
  /\ skipped' = FALSE
  /\ UNCHANGED <<layout, entry, pred>>

EvaluateUnusable ==
  /\ zone # Null
  /\ zone.len = 0
  /\ pos < Rows
  /\ pos' = Rows
  /\ skipped' = FALSE
  /\ UNCHANGED <<layout, zone, entry, pred>>

\* evaluate at pos, and the reader moving to the bound it returns.
Evaluate ==
  /\ Usable
  /\ Len(zone.columns) = Len(layout.cells)
  /\ skipped' = SkipsAt(pos)
  /\ pos' = ZoneBound(pos, 0, Rows, zone.len)
  /\ UNCHANGED <<layout, zone, entry, pred>>

\* A batch ends before the zone does: the reader stops inside the zone.
StopInside ==
  /\ Usable
  /\ Len(zone.columns) = Len(layout.cells)
  /\ pos + 1 < ZoneBound(pos, 0, Rows, zone.len)
  /\ pos' = pos + 1
  /\ skipped' = FALSE
  /\ UNCHANGED <<layout, zone, entry, pred>>

Next == MakeZoneRef \/ GiveUp \/ EvaluateUnusable \/ Evaluate \/ StopInside

Spec == Init /\ [][Next]_vars

-----------------------------------------------------------------------------
\* What the table says of its zone.
Says(stat, x, none) == IF \E c \in Range(layout.cells) : c.stat = stat THEN x ELSE none

Truth ==
  [valid |-> entry.valid,
   nulls |-> Says("null_count", entry.nulls, Null),
   min |-> Says("min", entry.min, Null), max |-> Says("max", entry.max, Null),
   minTruncated |-> Says("min_is_truncated", entry.minTruncated, "absent"),
   maxTruncated |-> Says("max_is_truncated", entry.maxTruncated, "absent")]

\* All the columns of n rows that the table describes.
Described(n) ==
  LET truth == Truth
  IN  {data \in [1..n -> Values \cup {Null}] : Describes(truth, data, n)}

ReadsTable == Usable /\ Len(zone.columns) = Len(layout.cells)
Nothing(n) == \A data \in Described(n) : \A i \in 1..n : ~Matches(data[i], pred)

(* A step of the reader never leaves the zone it evaluated: every row it    *)
(* passes has the same index, and the bound is the first row that has not.  *)
StaysInZone ==
  [][ReadsTable =>
       /\ \A r \in pos..(pos' - 1) : ZoneIndex(r, 0, zone.len) = ZoneIndex(pos, 0, zone.len)
       /\ skipped' => pos' = Rows \/ ZoneIndex(pos', 0, zone.len) # ZoneIndex(pos, 0, zone.len)]_vars

(* Conservative pruning (scan.go: "excludes only row ranges whose           *)
(* statistics prove the comparison false"): no zone the table describes     *)
(* holds a row that matches when the decision is to skip it.                *)
SkipIsSound ==
  ReadsTable /\ SkipsAt(pos) => Nothing(ZoneRows(ZoneIndex(pos, 0, zone.len), 0, Rows, zone.len))

(* Pruning is not only safe but complete: when both bounds and the null     *)
(* count are usable, a zone no described column of which can match is       *)
(* skipped.                                                                 *)
SkipIsComplete ==
  ReadsTable /\ ~SkipsAt(pos) =>
    LET n == ZoneRows(ZoneIndex(pos, 0, zone.len), 0, Rows, zone.len)
        truth == Truth
    IN  ~(truth.valid /\ BoundsUsable(truth) /\ truth.nulls \in 0..n /\ Nothing(n))
=============================================================================
