----------------------------- MODULE LayoutPlan -----------------------------
(***************************************************************************)
(* The plan of a scan (scan.go, NewRecordReader and buildFieldPlan): the   *)
(* layout tree of a file, flattened into the pieces and zones of a column. *)
(* What it accepts is the plan RecordReader assumes.                       *)
(*                                                                         *)
(* A tree is the sequence of its layouts, the root last and children       *)
(* before their parents, each known by its place in it.  A layout is a     *)
(* record: its id, rows and children as in the file, `zoneLen`, what       *)
(* zoneSchema makes of the metadata of a zoned layout (0 when it           *)
(* understands nothing), and `codeType`, whether the metadata of a         *)
(* dictionary names a type of codes.  A recursive function of the code is  *)
(* here a function of a layout and a first row, given itself as `build`.   *)
(* Field 0 of a piece stands for -1, a scalar array.                       *)
(***************************************************************************)
EXTENDS ZoneStats, Sequences

CONSTANTS Trees,   \* the trees a file may hold
          Fields,  \* columns of the root
          Half     \* 2^63

\* parseLayout refuses rows that an int64 cannot hold.
ASSUME TreesAssumption ==
  \A t \in Trees :
    /\ Len(t) \in Nat \ {0}
    /\ \A n \in 1..Len(t) : /\ t[n].rows \in 0..(Half - 1)
                            /\ t[n].zoneLen \in Nat
                            /\ t[n].children \in Seq(1..(n - 1))

ASSUME FieldsAssumption == IsFiniteSet(Fields) /\ Fields = 1..Cardinality(Fields)

ASSUME HalfAssumption == Half \in Nat \ {0}

VARIABLES tree,     \* File.root
          plans,    \* NewRecordReader: the plan of each column asked for
          err       \* why NewRecordReader returned no reader, or "none"

vars == <<tree, plans, err>>

Int64(n) == ((n + Half) % (2 * Half)) - Half

-----------------------------------------------------------------------------
(* Plans, and the first error that stopped one.                            *)

NoPlan == [err |-> "none", pieces |-> <<>>, zones |-> <<>>]
Refused(e) == [err |-> e, pieces |-> <<>>, zones |-> <<>>]

Leaf(t, n, start, field) ==
  [NoPlan EXCEPT !.pieces =
    <<[start |-> start, end |-> Int64(start + t[n].rows), node |-> n, field |-> field,
       dict |-> 0]>>]

\* The columnPlan of out with that of plan appended, when there is one.
Appended(out, plan) ==
  IF plan.err # "none" THEN Refused(plan.err)
  ELSE [err |-> "none", pieces |-> out.pieces \o plan.pieces, zones |-> out.zones \o plan.zones]

\* A plausible bug: only the sum of the rows is checked.
FitsAnyway(c, l, used) == TRUE

\* Rows of a chunk that do not fit what is left of its parent are refused
\* before they are added: the sum alone could wrap around to the right total.
ChunkFits(c, l, used) == c.rows <= Int64(l.rows - used)

\* A plausible bug: chunks that fall short of their parent are accepted.
SumNotOver(used, l) == used <= l.rows

SumExact(used, l) == used = l.rows

\* One chunk more, after those that made `done`.
Chunk(t, l, start, c, done, build) ==
  IF done.plan.err # "none" THEN done
  ELSE IF ~ChunkFits(t[c], l, Int64(done.offset - start))
  THEN [plan |-> Refused("invalid"), offset |-> done.offset]
  ELSE [plan |-> Appended(done.plan, build[c][done.offset]),
        offset |-> Int64(done.offset + t[c].rows)]

Chunks(t, l, start, build) ==
  LET after[k \in 0..Len(l.children)] ==
        IF k = 0 THEN [plan |-> NoPlan, offset |-> start]
        ELSE Chunk(t, l, start, l.children[k], after[k - 1], build)
  IN  after[Len(l.children)]

\* Both functions treat a chunked layout alike; `build` is the one that recurses.
ChunkedPlan(t, l, start, build) ==
  LET all == Chunks(t, l, start, build)
  IN  IF all.plan.err # "none" THEN all.plan
      ELSE IF SumExact(Int64(all.offset - start), l) THEN all.plan
      ELSE Refused("invalid")

-----------------------------------------------------------------------------
(* buildScalarPlan.                                                        *)

\* newZoneRef: the table must have one entry for each zone.
Zone(t, l, start) ==
  [start |-> start, end |-> Int64(start + l.rows),
   len |-> UsableZoneLen(l.rows, l.zoneLen, l.zoneLen # 0, t[l.children[2]].rows)]

\* The codes' pieces take the dictionary.  To stop here is a plausible bug:
\* statistics of the codes would be taken for those of the values.
CodesWithZones(l, codes) ==
  [codes EXCEPT !.pieces =
    [i \in 1..Len(codes.pieces) |-> [codes.pieces[i] EXCEPT !.dict = l.children[1]]]]

\* The zones of the codes do not describe the values predicates compare.
WithDictionary(l, codes) == [CodesWithZones(l, codes) EXCEPT !.zones = <<>>]

\* Of two children, the one that holds the rows.
TwoChildren(t, l, i) == Len(l.children) = 2 /\ t[l.children[i]].rows = l.rows

ScalarPlan(t, n, start, build) ==
  LET l == t[n]
      codes == build[l.children[2]][start]
  IN  CASE l.id = "flat" -> Leaf(t, n, start, 0)
        [] l.id = "chunked" -> ChunkedPlan(t, l, start, build)
        [] l.id = "zoned" ->
             IF ~TwoChildren(t, l, 1) THEN Refused("invalid")
             ELSE Appended([NoPlan EXCEPT !.zones = <<Zone(t, l, start)>>],
                           build[l.children[1]][start])
        [] l.id = "dict" ->
             IF ~TwoChildren(t, l, 2) \/ ~l.codeType THEN Refused("invalid")
             ELSE IF codes.err # "none" THEN codes
             ELSE IF \E i \in 1..Len(codes.pieces) : codes.pieces[i].dict # 0
             THEN Refused("unsupported")
             ELSE WithDictionary(l, codes)
        [] OTHER -> Refused("unsupported")

ScalarPlans(t) ==
  LET build[n \in 1..Len(t)] == [start \in Int |-> ScalarPlan(t, n, start, build)]
  IN  build

-----------------------------------------------------------------------------
(* buildFieldPlan.                                                         *)

\* A plausible bug: the first column is read for every column.
FirstChild(l, field) == l.children[1]

FieldChild(l, field) == l.children[field]

FieldPlan(t, n, start, field, build) ==
  LET l == t[n]
  IN  CASE l.id = "struct" ->
             IF \/ Len(l.children) # Cardinality(Fields)
                \/ \E i \in 1..Len(l.children) : t[l.children[i]].rows # l.rows
             THEN Refused("invalid")
             ELSE ScalarPlans(t)[FieldChild(l, field)][start]
        [] l.id = "chunked" -> ChunkedPlan(t, l, start, build)
        [] l.id = "flat" -> Leaf(t, n, start, field)
        [] OTHER -> Refused("unsupported")

FieldPlans(t, field) ==
  LET build[n \in 1..Len(t)] == [start \in Int |-> FieldPlan(t, n, start, field, build)]
  IN  build

-----------------------------------------------------------------------------
(* NewRecordReader asks for the plan of each column and of each predicate's *)
(* column, keeps it, and gives up at the first error.                       *)

Init ==
  /\ tree \in Trees
  /\ plans = <<>>
  /\ err = "none"

GetPlan(f) ==
  /\ err = "none"
  /\ f \notin DOMAIN plans
  /\ LET plan == FieldPlans(tree, f)[Len(tree)][0]
     IN  IF plan.err = "none"
         THEN /\ plans' = [g \in DOMAIN plans \cup {f} |-> IF g = f THEN plan ELSE plans[g]]
              /\ UNCHANGED err
         ELSE /\ err' = plan.err
              /\ UNCHANGED plans
  /\ UNCHANGED tree

Next == \E f \in Fields : GetPlan(f)

Spec == Init /\ [][Next]_vars

-----------------------------------------------------------------------------
(* What a tree means, over the integers: every row of a column has a place  *)
(* in a leaf, perhaps a dictionary, and the zoned ranges it lies in.        *)

\* Where chunk k starts, relative to its parent.
RowsBefore(t, l, k) ==
  LET upTo[i \in 0..Len(l.children)] ==
        IF i = 0 THEN 0 ELSE upTo[i - 1] + t[l.children[i]].rows
  IN  upTo[k - 1]

\* The chunk that holds row r of a chunked layout.
ChunkOf(t, l, r) ==
  CHOOSE k \in 1..Len(l.children) : RowsBefore(t, l, k) <= r /\ r < RowsBefore(t, l, k + 1)

\* The chunks hold all the rows of their layout, and no more.
ChunksAddUp(t, l) == RowsBefore(t, l, Len(l.children) + 1) = l.rows

\* A row that a tree holds no place for.
NoPlace == [node |-> 0, row |-> 0, field |-> 0, dict |-> 0, zones |-> {}]

\* The place of row r of a layout that starts at row `start` of its column.
Place(t, n, start, r, field, place) ==
  LET l == t[n]
      k == ChunkOf(t, l, r)
      before == RowsBefore(t, l, k)
  IN  CASE l.id = "flat" -> [NoPlace EXCEPT !.node = n, !.row = r, !.field = field]
        [] l.id = "struct" /\ field \in 1..Len(l.children) ->
             [place[l.children[field]][start][r] EXCEPT !.field = 0]
        [] l.id = "chunked" /\ ChunksAddUp(t, l) /\ r \in 0..(l.rows - 1) ->
             place[l.children[k]][start + before][r - before]
        [] l.id = "zoned" /\ TwoChildren(t, l, 1) ->
             [place[l.children[1]][start][r] EXCEPT !.zones = @ \cup {Zone(t, l, start)}]
        [] l.id = "dict" /\ TwoChildren(t, l, 2) ->
             [place[l.children[2]][start][r] EXCEPT !.zones = {}, !.dict = l.children[1]]
        [] OTHER -> NoPlace

Places(t, field) ==
  LET place[n \in 1..Len(t)] ==
        [start \in Int |-> [r \in Int |-> Place(t, n, start, r, field, place)]]
  IN  place

HasLeaf(t) ==
  LET has[n \in 1..Len(t)] ==
        LET l == t[n]
        IN  \/ l.id = "flat"
            \/ l.id = "chunked" /\ \E i \in 1..Len(l.children) : has[l.children[i]]
            \/ l.id = "zoned" /\ TwoChildren(t, l, 1) /\ has[l.children[1]]
            \/ l.id = "dict" /\ TwoChildren(t, l, 2) /\ has[l.children[2]]
  IN  has

\* A column the reader supports; a dictionary may not hold another's codes.
GoodColumn(t) ==
  LET good[n \in 1..Len(t)] == [inDict \in BOOLEAN |->
        LET l == t[n]
        IN  \/ l.id = "flat"
            \/ /\ l.id = "chunked" /\ ChunksAddUp(t, l)
               /\ \A i \in 1..Len(l.children) : good[l.children[i]][inDict]
            \/ /\ l.id = "zoned" /\ TwoChildren(t, l, 1)
               /\ good[l.children[1]][inDict]
            \/ /\ l.id = "dict" /\ TwoChildren(t, l, 2) /\ l.codeType
               /\ good[l.children[2]][TRUE]
               /\ ~(inDict /\ HasLeaf(t)[n])]
  IN  good

GoodRoot(t, field) ==
  LET good[n \in 1..Len(t)] ==
        LET l == t[n]
        IN  \/ l.id = "flat"
            \/ /\ l.id = "chunked" /\ ChunksAddUp(t, l)
               /\ \A i \in 1..Len(l.children) : good[l.children[i]]
            \/ /\ l.id = "struct" /\ Len(l.children) = Cardinality(Fields)
               /\ \A i \in 1..Len(l.children) : t[l.children[i]].rows = l.rows
               /\ GoodColumn(t)[l.children[field]][FALSE]
  IN  good[Len(t)]

-----------------------------------------------------------------------------
Rows == tree[Len(tree)].rows

(* The plan RecordReader assumes: pieces from row 0 to the last row without *)
(* gap or overlap, zones inside the rows, whatever the row counts of the    *)
(* tree do in int64 arithmetic.                                             *)
PlanTilesRows ==
  \A f \in DOMAIN plans :
    LET ps == plans[f].pieces
        zs == plans[f].zones
    IN  /\ \A i \in 1..Len(ps) :
              /\ ps[i].start = IF i = 1 THEN 0 ELSE ps[i - 1].end
              /\ ps[i].start <= ps[i].end
        /\ Rows = IF Len(ps) = 0 THEN 0 ELSE ps[Len(ps)].end
        /\ \A i \in 1..Len(zs) :
              0 <= zs[i].start /\ zs[i].start <= zs[i].end /\ zs[i].end <= Rows

(* The piece that holds a row is the leaf the tree puts the row in, at the  *)
(* right offset, of the right column and with the right dictionary, for     *)
(* every column whose tree has one place for each row (RefusesExactly says  *)
(* that no other column gets a plan).                                       *)
EveryRowItsLeaf ==
  \A f \in DOMAIN plans : GoodRoot(tree, f) => \A i \in 1..Len(plans[f].pieces) :
    LET p == plans[f].pieces[i]
    IN \A r \in p.start..(p.end - 1) :
         LET at == Places(tree, f)[Len(tree)][0][r]
         IN /\ p.node = at.node
            /\ r - p.start = at.row
            /\ p.field = at.field
            /\ p.dict = at.dict

(* Statistics prune only the values they describe (scan.go:415): the zones  *)
(* of a plan a row lies in are those above its leaf and above its           *)
(* dictionary, and never the statistics of dictionary codes.                *)
ZonesDescribeValues ==
  \A f \in DOMAIN plans : \A r \in 0..(Rows - 1) :
    LET zs == plans[f].zones
    IN {zs[i] : i \in {j \in 1..Len(zs) : zs[j].start <= r /\ r < zs[j].end}}
         = Places(tree, f)[Len(tree)][0][r].zones

(* A reader is refused exactly for a column whose tree does not hold one    *)
(* place for every row.                                                     *)
RefusesExactly ==
  /\ \A f \in DOMAIN plans : GoodRoot(tree, f)
  /\ err # "none" => \E f \in Fields \ DOMAIN plans : ~GoodRoot(tree, f)
=============================================================================
