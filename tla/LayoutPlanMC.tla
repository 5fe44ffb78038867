---------------------------- MODULE LayoutPlanMC ----------------------------
(***************************************************************************)
(* Small layout trees for LayoutPlan, well formed and not: an int64 of 4   *)
(* bits, so that three chunks of up to 7 rows can wrap around to the rows  *)
(* of their parent.                                                        *)
(***************************************************************************)
EXTENDS LayoutPlan, SequencesExt

MCFields == 1..2
Sizes == {0, 1, 2, 3, 7}

\* A tree as a layout with its children in it, and as the sequence of its
\* layouts: those of the children, one after the other, and the layout.
Node(id, rows, children) ==
  [id |-> id, rows |-> rows, children |-> children, zoneLen |-> 0, codeType |-> TRUE]

RECURSIVE Layouts(_, _)
Layouts(l, before) ==
  LET Add(done, c) ==
        LET all == done.layouts \o Layouts(c, before + Len(done.layouts))
        IN  [layouts |-> all, places |-> Append(done.places, before + Len(all))]
      below == FoldLeft(Add, [layouts |-> <<>>, places |-> <<>>], l.children)
  IN  Append(below.layouts, [l EXCEPT !.children = below.places])

Flat(rows) == Node("flat", rows, <<>>)
Other(rows) == Node("other", rows, <<>>)

\* Children as many as `sizes` says.
Leaves(sizes) == [i \in 1..Len(sizes) |-> Flat(sizes[i])]

Tuples(n) == UNION {[1..m -> Sizes] : m \in 0..n}

Chunked(n) ==
  {Node("chunked", rows, Leaves(sizes)) : rows \in Sizes, sizes \in Tuples(n)}

\* A zoned layout of `data`, its table of the right length or not.
Zoned(data) ==
  {[Node("zoned", rows, <<d, Flat(table)>>) EXCEPT !.zoneLen = len] :
     d \in data, rows \in {2, 3}, table \in {1, 2}, len \in {0, 1, 2}}

Dict(codes) ==
  {[Node("dict", rows, <<Flat(1), c>>) EXCEPT !.codeType = ok] :
     c \in codes, rows \in {0, 2, 3}, ok \in BOOLEAN}

Simple == {Flat(2), Flat(3), Other(2)} \cup
          {Node("chunked", 2, Leaves(s)) : s \in {<<1, 1>>, <<2, 1>>, <<0, 2>>}} \cup
          {Node("chunked", 0, <<>>)}

\* Zones, dictionaries, and each below the other.
Columns ==
  LET z == Zoned(Simple)
      d == Dict(Simple)
      Few(S) == {s \in S : s.rows = 2 /\ s.codeType}
  IN  Chunked(3) \cup z \cup d
        \cup Zoned(Few(d)) \cup Dict(Few(z)) \cup Dict(Few(d))
        \cup {Node("chunked", rows, <<a, b>>) :
                rows \in {2, 4}, a \in Few(z), b \in Few(d)}
        \cup {Node("dict", 0, <<Flat(1), c>>) : c \in Dict(Simple)}

Structs ==
  {Node("struct", c.rows, <<Flat(c.rows), c>>) : c \in Columns}

\* Chunks of structs, structs of the wrong shape, flat roots.
Roots ==
  Structs
    \cup {Node("struct", 2, cs) : cs \in {<<>>, <<Flat(2)>>, <<Flat(2), Flat(1)>>,
                                            <<Flat(1), Flat(2)>>}}
    \cup {Flat(3), Other(3), Node("zoned", 2, <<Flat(2), Flat(1)>>)}
    \cup {Node("chunked", rows, <<s, Flat(1)>>) :
            rows \in {3, 4, 5}, s \in {t \in Structs : t.rows = 2}}

MCTrees == {Layouts(l, 0) : l \in Roots}
=============================================================================
