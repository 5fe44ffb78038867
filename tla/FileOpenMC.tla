----------------------------- MODULE FileOpenMC -----------------------------
(***************************************************************************)
(* Files of a few bytes, with an int64 of 6 bits: one sound file and those *)
(* that differ from it in a part or two.                                   *)
(***************************************************************************)
EXTENDS FileOpen

Piece(offset, length) ==
  [offset |-> offset, length |-> length, present |-> TRUE, usable |-> TRUE]

Names == {"dtype", "footer", "layout"}

Sound ==
  [size |-> 20, header |-> "VTXF", magic |-> "VTXF", version |-> 1, psLen |-> 4,
   postscript |-> TRUE, pieces |-> [name \in Names |-> Piece(4, 2)], footer |-> TRUE,
   registry |-> <<>>, type |-> TRUE, rootStruct |-> TRUE, names |-> <<"a", "b">>, tree |-> TRUE]

Offsets == {0, 4, 6, 8, 9, 19, 20, 21, 31, 32, 60, 62, 63}
Lengths == {0, 1, 2, 4, 5, 16, 20}

Registered(offset, length, usable) == [offset |-> offset, length |-> length, usable |-> usable]

Ends ==
  {[Sound EXCEPT !.size = size, !.psLen = psLen] : size \in {0, 7, 11, 12, 20}, psLen \in {0, 1, 4, 12, 13, 20}}

Placed ==
  {[Sound EXCEPT !.pieces[name] = Piece(o, l)] : name \in Names, o \in Offsets, l \in Lengths}

Segmented ==
  {[Sound EXCEPT !.registry = <<Registered(4, 2, TRUE), Registered(o, l, u)>>] :
     o \in Offsets, l \in Lengths, u \in BOOLEAN}

Spoiled ==
  {[Sound EXCEPT !.header = "x"], [Sound EXCEPT !.magic = "x"], [Sound EXCEPT !.version = 2],
   [Sound EXCEPT !.postscript = FALSE], [Sound EXCEPT !.footer = FALSE],
   [Sound EXCEPT !.type = FALSE], [Sound EXCEPT !.rootStruct = FALSE],
   [Sound EXCEPT !.names = <<"a", "b", "a">>], [Sound EXCEPT !.tree = FALSE]}
    \cup {[Sound EXCEPT !.pieces[name].present = FALSE] : name \in Names}
    \cup {[Sound EXCEPT !.pieces[name].usable = FALSE] : name \in Names}

MCFiles == Ends \cup Placed \cup Segmented \cup Spoiled
=============================================================================
