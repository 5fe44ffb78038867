------------------------------ MODULE RowStream ------------------------------
(***************************************************************************)
(* What a record reader promises its consumer, with no layout, statistics  *)
(* or buffers: a stream of contiguous batches in physical row order that   *)
(* may leave out ranges, but never a wanted row, and that ends once.       *)
(***************************************************************************)
EXTENDS Integers

CONSTANTS Rows,     \* rows of the file
          Wanted    \* rows that satisfy every predicate

VARIABLES next,     \* first row not yet delivered or passed over
          batch,    \* rows of the current batch
          seen,     \* rows delivered so far
          status    \* "open", "done", "failed" or "closed"

vars == <<next, batch, seen, status>>

Init ==
  /\ next = 0
  /\ batch = {}
  /\ seen = {}
  /\ status = "open"

\* A range is passed over only when no row of it is wanted.
PassOver ==
  /\ status = "open"
  /\ \E n \in (next + 1)..Rows :
        /\ Wanted \cap (next..(n - 1)) = {}
        /\ next' = n
  /\ UNCHANGED <<batch, seen, status>>

\* The next batch starts where the stream stands.
Deliver ==
  /\ status = "open"
  /\ batch = {}
  /\ \E n \in (next + 1)..Rows :
        /\ batch' = next..(n - 1)
        /\ next' = n
  /\ seen' = seen \cup batch'
  /\ UNCHANGED status

\* The current batch goes when the consumer asks for another.
Drop ==
  /\ batch' = {}
  /\ UNCHANGED <<next, seen, status>>

\* The end is reported at the last row only.
Finish ==
  /\ status = "open"
  /\ batch = {}
  /\ next = Rows
  /\ status' = "done"
  /\ UNCHANGED <<next, batch, seen>>

\* A scan that fails, or is canceled, holds no batch.
Fail ==
  /\ status \in {"open", "done"}
  /\ status' = "failed"
  /\ batch' = {}
  /\ UNCHANGED <<next, seen>>

Close ==
  /\ status' = "closed"
  /\ batch' = {}
  /\ UNCHANGED <<next, seen>>

Next == PassOver \/ Deliver \/ Drop \/ Finish \/ Fail \/ Close

Spec == Init /\ [][Next]_vars

-----------------------------------------------------------------------------
(* Every wanted row the stream has moved past was delivered, no row was     *)
(* delivered ahead of it, and a stream that ended delivered them all.       *)
NoWantedRowLost ==
  /\ Wanted \cap (0..(next - 1)) \subseteq seen
  /\ seen \subseteq 0..(next - 1)
  /\ status = "done" => Wanted \subseteq seen
=============================================================================
