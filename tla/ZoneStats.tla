------------------------------ MODULE ZoneStats ------------------------------
(***************************************************************************)
(* The arithmetic and the decision of zone pruning (prune.go).  A zoned    *)
(* column range [start, end) is cut into zones of zoneLen rows, the last   *)
(* one possibly shorter, and row i of a side table holds the statistics of *)
(* zone i.  The reader skips a zone only when its statistics prove that no *)
(* row of it satisfies the predicate.                                      *)
(*                                                                         *)
(* A nullable value, a nullable statistic and a statistic the file does    *)
(* not carry are all represented by Null where they are missing: the code  *)
(* treats the last two alike.                                              *)
(***************************************************************************)
EXTENDS Integers, FiniteSets

CONSTANT Null

ASSUME NullAssumption == Null \notin Int

Value == Int \cup {Null}
Ops == {"EQ", "NEQ", "GT", "GTE", "LT", "LTE"}

\* A boolean truncation column: not in the table, null, or one of its values.
Truncation == {"absent", "null", "exact", "truncated"}

\* One row of the statistics table.  `valid` is false on a null struct row.
Entry == [valid : BOOLEAN, nulls : Nat \cup {Null}, min : Value, max : Value,
          minTruncated : Truncation, maxTruncated : Truncation]

Predicate == [op : Ops, value : Int]

-----------------------------------------------------------------------------
(* Zone geometry.                                                          *)

Lesser(a, b) == IF a <= b THEN a ELSE b

ZoneCount(rows, zoneLen) ==
  rows \div zoneLen + (IF rows % zoneLen # 0 THEN 1 ELSE 0)

\* newZoneRef keeps a zone length only for a schema it understands whose table
\* has one row per zone; length 0 stands for statistics that are never read.
UsableZoneLen(rows, zoneLen, understood, tableRows) ==
  IF understood /\ zoneLen # 0 /\ tableRows = ZoneCount(rows, zoneLen)
    THEN zoneLen ELSE 0

ZoneIndex(pos, start, zoneLen) == (pos - start) \div zoneLen

\* Plausible bugs: the bound forgets that pos may lie inside its zone, or that
\* the last zone may be a short one.
WholeZoneBound(pos, start, end, zoneLen) == pos + Lesser(zoneLen, end - pos)
LongZoneBound(pos, start, end, zoneLen) == pos + zoneLen - ((pos - start) % zoneLen)

\* The end of the zone pos lies in.
ZoneBound(pos, start, end, zoneLen) ==
  pos + Lesser(zoneLen - ((pos - start) % zoneLen), end - pos)

ZoneRows(idx, start, end, zoneLen) ==
  Lesser(zoneLen, end - (start + idx * zoneLen))

-----------------------------------------------------------------------------
(* The decision.                                                           *)

\* A plausible bug: null rows are forgotten under "not equal".
ExcludesIgnoringNulls(p, lo, hi, nonNull) ==
  CASE p.op = "EQ"  -> p.value < lo \/ p.value > hi
    [] p.op = "NEQ" -> lo = hi /\ lo = p.value
    [] p.op = "GT"  -> hi <= p.value
    [] p.op = "GTE" -> hi < p.value
    [] p.op = "LT"  -> lo >= p.value
    [] p.op = "LTE" -> lo > p.value

\* A plausible bug: the strict and the inclusive bound are swapped.
ExcludesSwapped(p, lo, hi, nonNull) ==
  CASE p.op = "EQ"  -> p.value < lo \/ p.value > hi
    [] p.op = "NEQ" -> nonNull /\ lo = hi /\ lo = p.value
    [] p.op = "GT"  -> hi < p.value
    [] p.op = "GTE" -> hi < p.value
    [] p.op = "LT"  -> lo > p.value
    [] p.op = "LTE" -> lo > p.value

\* The switch over the operator: bounds lo and hi exclude every row.
Excludes(p, lo, hi, nonNull) ==
  CASE p.op = "EQ"  -> p.value < lo \/ p.value > hi
    [] p.op = "NEQ" -> nonNull /\ lo = hi /\ lo = p.value
    [] p.op = "GT"  -> hi <= p.value
    [] p.op = "GTE" -> hi < p.value
    [] p.op = "LT"  -> lo >= p.value
    [] p.op = "LTE" -> lo > p.value

\* The bounds of an entry may be used.
BoundsUsable(e) ==
  /\ {e.minTruncated, e.maxTruncated} \subseteq {"absent", "exact"}
  /\ e.min # Null
  /\ e.max # Null
  /\ e.min <= e.max

\* The part of evaluate that follows the table lookup, for a zone of n rows.
Skip(e, n, p) ==
  /\ e.valid
  /\ e.nulls # Null => e.nulls <= n
  /\ \/ e.nulls = n /\ p.op # "NEQ"
     \/ BoundsUsable(e) /\ Excludes(p, e.min, e.max, e.nulls = 0)

-----------------------------------------------------------------------------
(* What the decision is about.                                             *)

\* A row the consumer may want: a null row is one for "not equal" only.
Matches(v, p) ==
  IF v = Null THEN p.op = "NEQ"
  ELSE CASE p.op = "EQ"  -> v = p.value
         [] p.op = "NEQ" -> v # p.value
         [] p.op = "GT"  -> v > p.value
         [] p.op = "GTE" -> v >= p.value
         [] p.op = "LT"  -> v < p.value
         [] p.op = "LTE" -> v <= p.value

\* The writer's promise: an entry describes the n rows of its zone.  A bound
\* marked as truncated, or whose mark is null, promises nothing.
Describes(e, data, n) ==
  e.valid =>
    /\ e.nulls # Null => e.nulls = Cardinality({i \in 1..n : data[i] = Null})
    /\ {e.minTruncated, e.maxTruncated} \subseteq {"absent", "exact"} =>
         \A i \in 1..n : data[i] # Null =>
            /\ e.min # Null => e.min <= data[i]
            /\ e.max # Null => data[i] <= e.max
=============================================================================
