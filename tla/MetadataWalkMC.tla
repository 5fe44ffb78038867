--------------------------- MODULE MetadataWalkMC ---------------------------
(***************************************************************************)
(* All graphs of three layout tables with up to two children each, cyclic  *)
(* and shared ones included, arrays of the same shapes, and types: structs *)
(* with names, extensions, lists.                                          *)
(***************************************************************************)
EXTENDS MetadataWalk, SequencesExt

Empty == [kind |-> "scalar", ok |-> TRUE, encoding |-> 0, children |-> <<>>,
          refs |-> <<>>, names |-> <<>>]

Children == SeqOf(0..3, 1) \cup ((1..3) \X (1..3))
Few == {<<>>, <<1>>, <<2>>, <<3, 3>>}
Encoded(kind, children, encoding, refs) ==
  [Empty EXCEPT !.kind = kind, !.children = children, !.encoding = encoding, !.refs = refs]

Trees(kind) ==
  {<<Encoded(kind, a, 0, <<>>), Encoded(kind, b, e, r), Encoded(kind, c, 0, <<0>>)>> :
     a \in Children, b \in Children, c \in Few, e \in {0, 1}, r \in {<<0>>, <<0, 1>>}}

Named(kind, children, names) ==
  [Empty EXCEPT !.kind = kind, !.children = children, !.names = names]

Types ==
  {<<Named("struct", a, n), b, c>> :
     a \in {<<2>>, <<2, 3>>, <<3, 3>>},
     n \in SeqOf({0, 1, 64, 65}, 2),
     b \in {Named("list", <<k>>, <<>>) : k \in 0..3}
             \cup {Named("extension", <<k>>, <<t>>) : k \in {0, 2, 3}, t \in {64, 129}},
     c \in {Empty, [Empty EXCEPT !.ok = FALSE]}}

MCGraphs ==
  Trees("layout") \cup {g \in Trees("array") : g[1].children = <<2, 3>>} \cup Types

=============================================================================
