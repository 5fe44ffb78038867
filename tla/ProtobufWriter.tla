--------------------------- MODULE ProtobufWriter ---------------------------
(***************************************************************************)
(* What writers of Protocol Buffers write: the messages that the models    *)
(* are given as input.                                                     *)
(***************************************************************************)
EXTENDS Protobuf

RECURSIVE Varied(_)
Varied(x) == IF x < More THEN <<x>> ELSE <<More + (x % More)>> \o Varied(x \div More)

\* The same number with a byte more than it needs.
Overlong(x) == <<More + x, 0>>

\* A field with the bytes of a number, and one with any bytes.
Numbered(tag, x) == Varied(tag * 8) \o x
Sized(tag, data) == Varied(tag * 8 + 2) \o Varied(Len(data)) \o data
=============================================================================
