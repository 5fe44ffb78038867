----------------------------- MODULE ArrowTypes -----------------------------
(***************************************************************************)
(* The Arrow type and the Arrow array of decoded columns (internal/        *)
(* encoding, types.go and arrow.go).                                       *)
(*                                                                         *)
(* An Arrow type is a name and, when it is temporal, a unit; those of the  *)
(* widths of a number are one.  An extension has an id, a unit, what       *)
(* follows the unit in its metadata, and a storage type with a size.       *)
(***************************************************************************)
EXTENDS ArrayCodecs

CONSTANTS WidePrecision, \* 76
          Radix,         \* 10
          MaxDecode      \* maxDecodeBytes

Units == <<"ns", "us", "ms", "s">>

Arrow(name, unit) == [name |-> name, unit |-> unit]
NoArrow == Arrow("none", "none")

Stores(r, size) == r.storage.kind = "signed" /\ r.storage.size = size

Temporal(r) ==
  CASE r.id = "date" /\ r.rest = "none" /\ r.unit = 4 /\ Stores(r, 32) -> Arrow("date32", "day")
    [] r.id = "date" /\ r.rest = "none" /\ r.unit = 2 /\ Stores(r, 64) -> Arrow("date64", "ms")
    [] r.id = "time" /\ r.rest = "none" /\ r.unit \in 2..3 /\ Stores(r, 32) ->
         Arrow("time32", Units[r.unit + 1])
    [] r.id = "time" /\ r.rest = "none" /\ r.unit \in 0..1 /\ Stores(r, 64) ->
         Arrow("time64", Units[r.unit + 1])
    [] r.id = "timestamp" /\ r.rest = "zone" /\ r.unit \in 0..3 /\ Stores(r, 64) ->
         Arrow("timestamp", Units[r.unit + 1])
    [] OTHER -> NoArrow

DecimalType(r) ==
  IF r.precision \in 1..WidePrecision /\ r.scale \in 0..r.precision
  THEN Arrow(IF r.precision > NarrowPrecision THEN "decimal256" ELSE "decimal128", "none")
  ELSE NoArrow

\* Type.ArrowType, of the type at one path; that of a struct needs those below.
ArrowType(r) ==
  CASE r.kind = "decimal" -> DecimalType(r)
    [] r.kind = "extension" -> Temporal(r)
    [] OTHER -> Arrow(r.kind, "none")

HasArrowType(t) == \A p \in DOMAIN t : ArrowType(t[p]) # NoArrow

-----------------------------------------------------------------------------
ValidRows(col, n) == {i \in 1..n : IsValid(col, i)}

\* The bytes of the first k rows; a row that is not valid has none.
EndOf(col, k) == MapThenSumSet(LAMBDA i : Len(col.bits[i]), ValidRows(col, k))

BelowBound(x, bound) == -bound < x /\ x < bound

Exported(r, col, n) ==
  LET valid == ValidRows(col, n)
      kept == [i \in 1..n |-> IF i \in valid THEN col.bits[i] ELSE <<>>]
      variable == r.kind \in Bytes
  IN  [type |-> ArrowType(r),
       nulls |-> n - Cardinality(valid),
       valid |-> col.valid,
       ends |-> IF variable THEN [k \in 1..(n + 1) |-> EndOf(col, k - 1)] ELSE <<>>,
       data |-> CASE variable -> FlattenSeq(kept)
                  [] r.kind = "bool" -> [i \in 1..n |-> IF col.bits[i] # 0 THEN 1 ELSE 0]
                  [] OTHER -> col.bits]

ExportFits(r, col, n) ==
  /\ r.kind \in Bytes => EndOf(col, n) <= MaxDecode
  /\ r.kind = "decimal" =>
       \A i \in ValidRows(col, n) : BelowBound(col.bits[i], Radix ^ r.precision)

\* values.arrow
ArrowArray(t, v) ==
  IF ~HasArrowType(t) \/ \E p \in DOMAIN t : ~ExportFits(t[p], v.cols[p], v.n) THEN Fail
  ELSE [v EXCEPT !.cols = [p \in DOMAIN t |-> Exported(t[p], v.cols[p], v.n)]]
=============================================================================
