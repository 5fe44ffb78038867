---------------------------- MODULE SegmentReadMC ----------------------------
(***************************************************************************)
(* A source of 5 bytes read 2 at a time, and an int64 of 4 bits, so that   *)
(* the end of a range past the file can wrap around.                       *)
(***************************************************************************)
EXTENDS SegmentRead

MCOffsets == {-1, 0, 1, 5, 6, 7}
MCLengths == {-1, 0, 1, 3, 4, 5, 7}
=============================================================================
