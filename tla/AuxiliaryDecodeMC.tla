-------------------------- MODULE AuxiliaryDecodeMC --------------------------
(***************************************************************************)
(* Tables of statistics and dictionaries as small trees: a struct of two   *)
(* columns, flat, chunked or encoded by a dictionary; chunks of structs;   *)
(* dictionaries of dictionaries; and rows that do not agree or wrap around *)
(* in an int64 of 4 bits.                                                  *)
(***************************************************************************)
EXTENDS AuxiliaryDecode

Node(id, rows, children) == [id |-> id, rows |-> rows, children |-> children, fits |-> TRUE]
Flat(rows) == Node("flat", rows, <<>>)

Pairs ==
  {<<Node(id, rows, <<2, 3>>), Flat(a), Flat(b)>> :
     id \in {"struct", "chunked", "zoned", "dict"}, rows \in {0, 1, 2}, a \in 0..2, b \in 0..2}

\* Chunks whose rows add up to those of their parent only after wrapping around.
Threes ==
  {<<Node("chunked", rows, <<2, 3, 4>>), Flat(a), Flat(b), Flat(c)>> :
     rows \in {1, 2, 7}, a \in {1, 7}, b \in {0, 1, 7}, c \in {0, 3, 4}}

Nested ==
  {<<Node(top, 2, <<2, 3>>), Node(left, a, <<4, 5>>), Node(right, b, <<6, 7>>),
     Flat(1), Flat(1), Flat(c), Flat(2)>> :
     top \in {"struct", "chunked", "dict"}, left \in {"chunked", "struct"},
     right \in {"zoned", "dict"}, a \in {1, 2}, b \in {1, 2}, c \in {1, 2}}

Odd ==
  {<<Node(id, 0, <<>>)>> : id \in {"struct", "chunked", "dict", "other"}}
    \cup {<<Flat(9)>>, <<[Node("dict", 1, <<2, 3>>) EXCEPT !.fits = FALSE], Flat(1), Flat(1)>>}

MCTrees == Pairs \cup Threes \cup Nested \cup Odd
=============================================================================
