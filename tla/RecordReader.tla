---------------------------- MODULE RecordReader ----------------------------
(***************************************************************************)
(* A scan in progress (scan.go, RecordReader; prune.go, zoneRef).          *)
(*                                                                         *)
(* The goroutine that calls Next runs it to completion; other goroutines   *)
(* may meanwhile cancel the context, retain or release the reader, and     *)
(* release batches they kept.  Next is therefore split where something     *)
(* else can happen: at each test of the context and around each read of    *)
(* the source.  `pc` says where in Next the goroutine is.                  *)
(*                                                                         *)
(* The plan of the scan is constant: NewRecordReader computes it once.  A  *)
(* piece stands for one flat array of rows start..end-1 of its column,     *)
(* with the number of the dictionary its codes refer to, or 0.  A zone     *)
(* stands for one zoned range and its statistics table; len is 0 when      *)
(* newZoneRef found the table unusable.  A check is one (predicate, zone)  *)
(* pair, in the order of the two loops; `excluded` holds the entries of    *)
(* the table for which ZoneStats!Skip is true.                             *)
(*                                                                         *)
(* Decoded arrays are reference counted.  A block stands for one decoded   *)
(* array, whoever holds it: a cursor, a slice of it, a batch of slices.    *)
(***************************************************************************)
EXTENDS ZoneStats, Sequences

CONSTANTS Rows, BatchSize, NumCols,
          Pieces,     \* Pieces[c]: sequence of [start, end, dict]
          Zones,      \* sequence of [start, end, len]
          Checks,     \* sequence of [zone, excluded]
          Wanted,     \* rows that satisfy every predicate
          Faults,     \* how a read of the source may fail
          MaxHeld,    \* bound: batches the consumer keeps at a time
          MaxRefs     \* bound: references to the reader

Columns == 1..NumCols

\* The plan as buildFieldPlan leaves it: the pieces of a column follow each
\* other from row 0 to the last row, empty ones included.
TilesRows(ps) ==
  /\ \A i \in 1..Len(ps) : ps[i].start <= ps[i].end /\ ps[i].end <= Rows
  /\ \A i \in 1..Len(ps) : ps[i].start = IF i = 1 THEN 0 ELSE ps[i - 1].end
  /\ Rows = IF Len(ps) = 0 THEN 0 ELSE ps[Len(ps)].end

InZone(z, r) == Zones[z].start <= r /\ r < Zones[z].end

\* Statistics that are right about their rows; ZoneMapProofs!SkipSound.
ChecksSound ==
  \A k \in 1..Len(Checks) : \A r \in Wanted :
     LET z == Checks[k].zone
     IN InZone(z, r) /\ Zones[z].len # 0 =>
          ZoneIndex(r, Zones[z].start, Zones[z].len) \notin Checks[k].excluded

ASSUME PlanAssumption ==
  /\ Rows \in Nat /\ BatchSize \in Nat \ {0} /\ NumCols \in Nat
  /\ Pieces \in [Columns -> Seq([start : Nat, end : Nat, dict : Nat])]
  /\ \A c \in Columns : TilesRows(Pieces[c])
  /\ Zones \in Seq([start : Nat, end : Nat, len : Nat])
  /\ \A z \in 1..Len(Zones) : Zones[z].start <= Zones[z].end /\ Zones[z].end <= Rows
  /\ Checks \in Seq([zone : 1..Len(Zones), excluded : SUBSET Nat])
  /\ Wanted \subseteq 0..(Rows - 1)
  /\ ChecksSound
  /\ Faults \subseteq {"failed", "deadline"}
  /\ MaxHeld \in Nat /\ MaxRefs \in Nat \ {0}

VARIABLES
  pc,         \* "idle", "loop", "check", "load", "locate", "read", "dict" or "take"
  pos,        \* RecordReader.pos
  offset,     \* RecordReader.offset
  current,    \* RecordReader.current: the batch Next returned, or NoBatch
  returned,   \* what the last call of Next returned: "none", "true", "false"
  err,        \* RecordReader.err
  refs,       \* RecordReader.refs
  end,        \* Next: end of the batch under construction
  skipUntil,  \* Next: end of what the statistics exclude
  chk,        \* Next: the check under evaluation
  col,        \* Next: the column being read
  cols,       \* Next: blocks of the slices taken so far
  codes,      \* read: the piece whose dictionary codes are held, or 0
  cursor,     \* columnCursor of each column; 0 stands for nil
  loaded,     \* zoneRef.loaded
  zoneLen,    \* zoneRef.zoneLen: set to 0 by a failed load
  zoneValues, \* zoneRef.values # nil
  canceled,   \* the context is done
  held,       \* batches the consumer retained
  refcnt,     \* references to each block
  emitted     \* history: rows of the batches returned

readerVars == <<pos, offset, current, returned, err, emitted>>
nextVars == <<end, skipUntil, chk, col, cols, codes>>
zoneVars == <<loaded, zoneLen, zoneValues>>
outerVars == <<refs, canceled, held>>
vars == <<pc, readerVars, nextVars, cursor, zoneVars, outerVars, refcnt>>

NoBatch == [from |-> 0, to |-> 0, blocks |-> {}]

-----------------------------------------------------------------------------
(* Reference counting.                                                     *)

Values(c, i) == <<"values", c, i>>
Codes(c, i) == <<"codes", c, i>>
Dictionary(c, d) == <<"dict", c, d>>
ZoneTable(z) == <<"zone", z, 0>>

ColumnBlocks(c) ==
  UNION {{Values(c, i), Codes(c, i), Dictionary(c, Pieces[c][i].dict)} :
            i \in 1..Len(Pieces[c])}

Blocks ==
  UNION {ColumnBlocks(c) : c \in Columns} \cup {ZoneTable(z) : z \in 1..Len(Zones)}

\* How many of a sequence of sets b is in.
Times(b, sets) == Cardinality({i \in 1..Len(sets) : b \in sets[i]})

\* One Retain for each set of `gained` a block is in, one Release for each of `lost`.
Account(gained, lost) ==
  refcnt' = [b \in Blocks |-> refcnt[b] + Times(b, gained) - Times(b, lost)]

CachedValues(c) == {Values(c, i) : i \in {cursor[c].values} \ {0}}
CachedDictionary(c) == {Dictionary(c, d) : d \in {cursor[c].dictValues} \ {0}}
CachedColumns == UNION {CachedValues(c) \cup CachedDictionary(c) : c \in Columns}
CachedZones == {ZoneTable(z) : z \in {x \in 1..Len(Zones) : zoneValues[x]}}
CachedCodes == {Codes(col, i) : i \in {codes} \ {0}}

\* A plausible bug: the reference to the last batch is lost, not released.
DroppedUnreleased == {}

\* What goes with the current batch: nothing when the consumer kept the batch.
Dropped == IF current \in held THEN {} ELSE current.blocks

NoCursor(index) ==
  [index |-> index, cached |-> 0, values |-> 0, dictionary |-> 0, dictValues |-> 0]

\* columnCursor.release for every column, zoneRef.release for every zone.
EmptyCursors == [c \in Columns |-> NoCursor(cursor[c].index)]
NoZoneValues == [z \in 1..Len(Zones) |-> FALSE]

-----------------------------------------------------------------------------
(* Next returning false.                                                   *)

\* A plausible bug: only the cursors are released.
CachesButZones == <<CachedColumns>>

Caches == <<CachedColumns, CachedZones>>

\* The deferred functions of Next: the slices already taken are released, then
\* every cursor and every zone table; read itself releases the codes it holds.
ReturnFalse(e) ==
  /\ pc' = "idle"
  /\ returned' = "false"
  /\ err' = e
  /\ current' = NoBatch
  /\ cols' = {}
  /\ codes' = 0
  /\ cursor' = EmptyCursors
  /\ zoneValues' = NoZoneValues
  /\ Account(<<>>, <<Dropped, CachedCodes, cols>> \o Caches)
  /\ UNCHANGED <<pos, offset, emitted, end, skipUntil, chk, col, loaded, zoneLen, outerVars>>

\* A read of the source, and what is decoded from it, fails: File.read reports
\* a done context, the source or the decoder anything else.
Outcomes == IF canceled THEN {"canceled"} ELSE Faults
SourceFails == \E e \in Outcomes : ReturnFalse(e)

-----------------------------------------------------------------------------
(* Next: the call, and the head of its loop.                               *)

Init ==
  /\ pc = "idle" /\ pos = 0 /\ offset = 0 /\ current = NoBatch
  /\ returned = "none" /\ err = "none" /\ refs = 1
  /\ end = 0 /\ skipUntil = 0 /\ chk = 1 /\ col = 1 /\ cols = {} /\ codes = 0
  /\ cursor = [c \in Columns |-> NoCursor(1)]
  /\ loaded = [z \in 1..Len(Zones) |-> FALSE]
  /\ zoneLen = [z \in 1..Len(Zones) |-> Zones[z].len]
  /\ zoneValues = NoZoneValues
  /\ canceled = FALSE /\ held = {}
  /\ refcnt = [b \in Blocks |-> 0]
  /\ emitted = {}

\* After an error or the last Release, Next only drops the current batch.
CallRefused ==
  /\ pc = "idle"
  /\ err # "none" \/ refs = 0
  /\ returned' = "false"
  /\ current' = NoBatch
  /\ Account(<<>>, <<Dropped>>)
  /\ UNCHANGED <<pc, pos, offset, err, emitted, nextVars, cursor, zoneVars, outerVars>>

Callable == pc = "idle" /\ err = "none" /\ refs # 0

CallCanceled == Callable /\ canceled /\ ReturnFalse("canceled")

CallBegins ==
  /\ Callable
  /\ ~canceled
  /\ pc' = "loop"
  /\ current' = NoBatch
  /\ Account(<<>>, <<Dropped>>)
  /\ UNCHANGED <<pos, offset, returned, err, emitted, nextVars, cursor, zoneVars, outerVars>>

EndOfRows == pc = "loop" /\ pos >= Rows /\ ReturnFalse("none")

LoopBegins ==
  /\ pc = "loop"
  /\ pos < Rows
  /\ ~canceled
  /\ pc' = "check"
  /\ end' = pos + Lesser(BatchSize, Rows - pos)
  /\ skipUntil' = pos
  /\ chk' = 1
  /\ UNCHANGED <<readerVars, col, cols, codes, cursor, zoneVars, outerVars, refcnt>>

-----------------------------------------------------------------------------
(* Next: the predicates and their zones, and zoneRef.evaluate.             *)

Checking == pc = "check" /\ chk <= Len(Checks)
Zone == Checks[chk].zone
Inside == Checking /\ InZone(Zone, pos)

\* The check is done: bound is the end of the rows it speaks of.
Checked(bound, skip) ==
  /\ pc' = "check"
  /\ chk' = chk + 1
  /\ end' = Lesser(end, bound)
  /\ skipUntil' = IF skip /\ skipUntil < bound THEN bound ELSE skipUntil
  /\ UNCHANGED <<readerVars, col, cols, codes, cursor, loaded, zoneValues, outerVars, refcnt>>

\* Plausible bugs: a batch may run into a zone it has not reached, and a zone
\* left behind still bounds the batch.
NoBound == end
EitherBound == IF pos < Zones[Zone].start THEN Zones[Zone].start ELSE Zones[Zone].end

\* A zone the position has not reached bounds the batch, one left behind does not.
OutsideBound == IF pos < Zones[Zone].start THEN Zones[Zone].start ELSE end

CheckOutside ==
  /\ Checking
  /\ ~InZone(Zone, pos)
  /\ Checked(OutsideBound, FALSE)
  /\ UNCHANGED zoneLen

EvaluateUnusable ==
  /\ Inside
  /\ zoneLen[Zone] = 0
  /\ Checked(Zones[Zone].end, FALSE)
  /\ UNCHANGED zoneLen

\* The table is read at its first use; the flag is set before the read.
LoadBegins ==
  /\ Inside
  /\ zoneLen[Zone] # 0
  /\ ~loaded[Zone]
  /\ pc' = "load"
  /\ loaded' = [loaded EXCEPT ![Zone] = TRUE]
  /\ UNCHANGED <<readerVars, nextVars, cursor, zoneLen, zoneValues, outerVars, refcnt>>

LoadSucceeds ==
  /\ pc = "load"
  /\ ~canceled
  /\ pc' = "check"
  /\ zoneValues' = [zoneValues EXCEPT ![Zone] = TRUE]
  /\ Account(<<{ZoneTable(Zone)}>>, <<>>)
  /\ UNCHANGED <<readerVars, nextVars, cursor, loaded, zoneLen, outerVars>>

\* A plausible bug: an unreadable table fails the scan.
AnyFatal(f) == TRUE

\* evaluate passes on what errors.Is calls context.Canceled or DeadlineExceeded,
\* whether the context or the source itself reported it.
Fatal(f) == f \in {"canceled", "deadline"}

\* A table that cannot be read is given up, and the zoned range is kept.
LoadGivenUp ==
  /\ pc = "load"
  /\ ~canceled
  /\ \E f \in Faults : ~Fatal(f)
  /\ zoneLen' = [zoneLen EXCEPT ![Zone] = 0]
  /\ Checked(Zones[Zone].end, FALSE)

LoadFatal ==
  /\ pc = "load"
  /\ \E f \in Outcomes : Fatal(f) /\ ReturnFalse(f)

\* A plausible bug: the whole zoned range is passed over, not one zone of it.
RangeBound == Zones[Zone].end

EvaluateBound == ZoneBound(pos, Zones[Zone].start, Zones[Zone].end, zoneLen[Zone])

Evaluate ==
  /\ Inside
  /\ zoneLen[Zone] # 0
  /\ loaded[Zone]
  /\ Checked(EvaluateBound,
             /\ zoneValues[Zone]
             /\ ZoneIndex(pos, Zones[Zone].start, zoneLen[Zone]) \in Checks[chk].excluded)
  /\ UNCHANGED zoneLen

\* A plausible bug: the position stays where it is.
SkipNowhere == pos

SkipTarget == skipUntil

\* The position moves past what any of the ANDed predicates excludes.
SkipZone ==
  /\ pc = "check" /\ chk > Len(Checks)
  /\ skipUntil > pos
  /\ pos' = SkipTarget
  /\ pc' = "loop"
  /\ UNCHANGED <<offset, current, returned, err, emitted, nextVars, cursor, zoneVars,
                 outerVars, refcnt>>

KeepZone ==
  /\ pc = "check" /\ chk > Len(Checks)
  /\ skipUntil <= pos
  /\ pc' = "locate"
  /\ col' = 1
  /\ UNCHANGED <<readerVars, end, skipUntil, chk, cols, codes, cursor, zoneVars, outerVars,
                 refcnt>>

-----------------------------------------------------------------------------
(* Next: the piece of each column, columnCursor.at.                        *)

\* Piece k of a column is where its cursor comes to rest.
Seeks(c, k) ==
  /\ \A j \in cursor[c].index..(k - 1) : Pieces[c][j].end <= pos
  /\ k <= Len(Pieces[c]) => Pieces[c][k].end > pos

\* A plausible bug: a batch runs past the end of a piece.
UnboundedByPiece(p) == end

BoundedByPiece(p) == Lesser(end, p.end)

LocatePiece ==
  /\ pc = "locate" /\ col <= NumCols
  /\ \E k \in cursor[col].index..(Len(Pieces[col]) + 1) :
        /\ Seeks(col, k)
        /\ IF k > Len(Pieces[col]) \/ Pieces[col][k].start > pos
             THEN ReturnFalse("gap")
             ELSE /\ cursor' = [cursor EXCEPT ![col].index = k]
                  /\ end' = BoundedByPiece(Pieces[col][k])
                  /\ col' = col + 1
                  /\ UNCHANGED <<pc, readerVars, skipUntil, chk, cols, codes, zoneVars,
                                 outerVars, refcnt>>

Located ==
  /\ pc = "locate" /\ col > NumCols
  /\ IF end <= pos THEN ReturnFalse("stuck")
     ELSE /\ pc' = "read"
          /\ col' = 1
          /\ UNCHANGED <<readerVars, end, skipUntil, chk, cols, codes, cursor, zoneVars,
                         outerVars, refcnt>>

-----------------------------------------------------------------------------
(* Next: the arrays of each column, columnCursor.read, and the batch.      *)

Index == cursor[col].index
Piece == Pieces[col][Index]
Reading == pc = "read" /\ col <= NumCols
Missing == Reading /\ cursor[col].cached # Index

\* The slice of piece i that goes into the batch.
TakeSlice(i) ==
  /\ pc' = "read"
  /\ cols' = cols \cup {Values(col, i)}
  /\ col' = col + 1
  /\ UNCHANGED <<readerVars, end, skipUntil, chk, zoneVars, outerVars>>

ReadCached ==
  /\ Reading
  /\ cursor[col].cached = Index
  /\ TakeSlice(cursor[col].values)
  /\ Account(<<{Values(col, cursor[col].values)}>>, <<>>)
  /\ UNCHANGED <<codes, cursor>>

\* A plausible bug: a column that has moved on to plain values forgets the
\* dictionary it no longer uses.
ReplacedKeepingDictionary == <<CachedValues(col)>>

Replaced == <<CachedValues(col), CachedDictionary(col)>>

DecodeValues ==
  /\ Missing
  /\ ~canceled
  /\ Piece.dict = 0
  /\ cursor' = [cursor EXCEPT ![col] =
       [index |-> Index, cached |-> Index, values |-> Index, dictionary |-> 0, dictValues |-> 0]]
  /\ TakeSlice(Index)
  /\ Account(<<{Values(col, Index)}, {Values(col, Index)}>>, Replaced)
  /\ UNCHANGED codes

\* The old values go before the codes are decoded; the dictionary stays when
\* the new piece uses the same one.
DecodeCodes ==
  /\ Missing
  /\ ~canceled
  /\ Piece.dict # 0
  /\ pc' = IF cursor[col].dictionary = Piece.dict THEN "take" ELSE "dict"
  /\ cursor' = [cursor EXCEPT ![col].values = 0]
  /\ codes' = Index
  /\ Account(<<{Codes(col, Index)}>>, <<CachedValues(col)>>)
  /\ UNCHANGED <<readerVars, end, skipUntil, chk, col, cols, zoneVars, outerVars>>

DecodeDictionary ==
  /\ pc = "dict"
  /\ ~canceled
  /\ pc' = "take"
  /\ cursor' = [cursor EXCEPT ![col].dictionary = Piece.dict, ![col].dictValues = Piece.dict]
  /\ Account(<<{Dictionary(col, Piece.dict)}>>, <<CachedDictionary(col)>>)
  /\ UNCHANGED <<readerVars, nextVars, zoneVars, outerVars>>

DecodeFails == (Missing \/ pc = "dict") /\ SourceFails

\* takeDictionary: the codes give way to the values they select.
TakeValues ==
  /\ pc = "take"
  /\ cursor' = [cursor EXCEPT ![col].values = Index, ![col].cached = Index]
  /\ TakeSlice(Index)
  /\ codes' = 0
  /\ Account(<<{Values(col, Index)}, {Values(col, Index)}>>, <<CachedCodes>>)

\* An index outside the dictionary, or a null the column may not have.
TakeFails == pc = "take" /\ "failed" \in Faults /\ ReturnFalse("failed")

\* The two tests of the context inside the loop.
CancelSeen ==
  /\ canceled
  /\ \/ pc = "loop" /\ pos < Rows
     \/ pc = "read" /\ col > NumCols
  /\ ReturnFalse("canceled")

\* The batch retains the slices, and the deferred function releases them.
Emit ==
  /\ pc = "read" /\ col > NumCols
  /\ ~canceled
  /\ pc' = "idle"
  /\ returned' = "true"
  /\ current' = [from |-> pos, to |-> end, blocks |-> cols]
  /\ offset' = pos
  /\ pos' = end
  /\ emitted' = emitted \cup (pos..(end - 1))
  /\ cols' = {}
  /\ UNCHANGED <<err, end, skipUntil, chk, col, codes, cursor, zoneVars, outerVars, refcnt>>

-----------------------------------------------------------------------------
(* The other goroutines and the consumer.                                  *)

Cancel ==
  /\ ~canceled
  /\ canceled' = TRUE
  /\ UNCHANGED <<pc, readerVars, nextVars, cursor, zoneVars, refs, held, refcnt>>

Retain ==
  /\ refs \in 1..(MaxRefs - 1)
  /\ refs' = refs + 1
  /\ UNCHANGED <<pc, readerVars, nextVars, cursor, zoneVars, canceled, held, refcnt>>

ReleaseShared ==
  /\ refs > 1
  /\ refs' = refs - 1
  /\ UNCHANGED <<pc, readerVars, nextVars, cursor, zoneVars, canceled, held, refcnt>>

\* The last reference: the caller of Next has one, so Next is not running.
ReleaseLast ==
  /\ refs = 1
  /\ pc = "idle"
  /\ refs' = 0
  /\ current' = NoBatch
  /\ cursor' = EmptyCursors
  /\ zoneValues' = NoZoneValues
  /\ Account(<<>>, <<Dropped>> \o Caches)
  /\ UNCHANGED <<pc, pos, offset, returned, err, emitted, nextVars, loaded, zoneLen,
                 canceled, held>>

\* The consumer keeps the current batch past the next call.
RetainBatch ==
  /\ pc = "idle"
  /\ current # NoBatch
  /\ current \notin held
  /\ Cardinality(held) < MaxHeld
  /\ held' = held \cup {current}
  /\ UNCHANGED <<pc, readerVars, nextVars, cursor, zoneVars, refs, canceled, refcnt>>

ReleaseBatch ==
  /\ \E b \in held :
        /\ held' = held \ {b}
        /\ Account(<<>>, <<IF b = current THEN {} ELSE b.blocks>>)
  /\ UNCHANGED <<pc, readerVars, nextVars, cursor, zoneVars, refs, canceled>>

-----------------------------------------------------------------------------
Call == CallRefused \/ CallCanceled \/ CallBegins

\* The rest of Next, to its return.
Step ==
  \/ EndOfRows \/ LoopBegins \/ CancelSeen
  \/ CheckOutside \/ EvaluateUnusable \/ Evaluate \/ SkipZone \/ KeepZone
  \/ LoadBegins \/ LoadSucceeds \/ LoadGivenUp \/ LoadFatal
  \/ LocatePiece \/ Located
  \/ ReadCached \/ DecodeValues \/ DecodeCodes \/ DecodeDictionary \/ DecodeFails
  \/ TakeValues \/ TakeFails \/ Emit

Consumer == Cancel \/ Retain \/ ReleaseShared \/ ReleaseLast \/ RetainBatch \/ ReleaseBatch

Next == Call \/ Step \/ Consumer

Spec == Init /\ [][Next]_vars

\* Next runs on its caller's goroutine, and a read of the source returns.
FairSpec == Spec /\ WF_vars(Step)

\* A consumer that calls Next until it returns false, and gives its batches back.
DrainSpec == FairSpec /\ WF_vars(Call) /\ WF_vars(ReleaseBatch)

-----------------------------------------------------------------------------
(* What a scan must keep to.                                               *)

PCs == {"idle", "loop", "check", "load", "locate", "read", "dict", "take"}
Errors == {"none", "canceled", "failed", "deadline", "gap", "stuck"}
Batches == [from : Nat, to : Nat, blocks : SUBSET Blocks]
Cursors ==
  [index : Nat, cached : Nat, values : Nat, dictionary : Nat, dictValues : Nat]

TypeOK ==
  /\ pc \in PCs /\ returned \in {"none", "true", "false"} /\ err \in Errors
  /\ pos \in 0..Rows /\ offset \in 0..Rows /\ emitted \subseteq 0..(Rows - 1)
  /\ current \in Batches /\ held \subseteq Batches
  /\ refs \in 0..MaxRefs /\ canceled \in BOOLEAN
  /\ end \in 0..Rows /\ skipUntil \in 0..Rows
  /\ chk \in 1..(Len(Checks) + 1) /\ col \in 1..(NumCols + 1)
  /\ cols \subseteq Blocks /\ codes \in Nat
  /\ cursor \in [Columns -> Cursors]
  /\ loaded \in [1..Len(Zones) -> BOOLEAN]
  /\ zoneLen \in [1..Len(Zones) -> Nat]
  /\ zoneValues \in [1..Len(Zones) -> BOOLEAN]
  /\ refcnt \in [Blocks -> Int]

Live == held \cup ({current} \ {NoBatch})

\* Those who hold b: the caches, Next's own variables and the live batches.
Holders(b) ==
  Times(b, <<CachedColumns, CachedZones, CachedCodes, cols>>)
    + Cardinality({B \in Live : b \in B.blocks})

(* Ownership: every decoded array has exactly as many references as there   *)
(* are places that hold it, so none is released while it is reachable and   *)
(* none is kept alive by a holder that is gone.                             *)
RefcountExact == \A b \in Blocks : refcnt[b] = Holders(b)

(* "Failure must release caches before Release" (layout_boundary_test.go):  *)
(* once Next has returned false, whatever the step it failed in, the only   *)
(* arrays alive are those of batches the consumer itself retained.          *)
FalseReleasesAll ==
  pc = "idle" /\ (returned = "false" \/ refs = 0) =>
    \A b \in Blocks : refcnt[b] = Cardinality({B \in held : b \in B.blocks})

(* array.NewSlice panics outside its array: when the columns are read every *)
(* piece covers the batch under construction, and a slice already taken is  *)
(* of the piece its cursor stands on.                                       *)
SliceInBounds ==
  pc \in {"read", "dict", "take"} =>
    /\ pos < end
    /\ \A c \in Columns :
          /\ cursor[c].index \in 1..Len(Pieces[c])
          /\ Pieces[c][cursor[c].index].start <= pos
          /\ end <= Pieces[c][cursor[c].index].end
          /\ c < col => cursor[c].values = cursor[c].index

(* The two errors Next reserves for a plan that does not cover the rows, or *)
(* a loop that does not advance, never happen on a plan that tiles them.    *)
NoGapNoStall == err \notin {"gap", "stuck"}

\* Row r lies in a zone whose statistics are still in use and exclude it.
Pruned(r) ==
  \E k \in 1..Len(Checks) :
    LET z == Checks[k].zone
    IN /\ InZone(z, r)
       /\ zoneLen[z] # 0
       /\ ZoneIndex(r, Zones[z].start, zoneLen[z]) \in Checks[k].excluded

(* Pruning is exact: no piece is decoded, and no batch returned, for a      *)
(* range holding a row that statistics known to be usable exclude.  The     *)
(* end of a batch must stop at the bound of every zone it lies in and at    *)
(* the start of every zone it has not reached.                              *)
PruningExact ==
  pc \in {"locate", "read", "dict", "take"} => \A r \in pos..(end - 1) : ~Pruned(r)

(* "Optional statistics never make a readable data layout unreadable"       *)
(* (prune.go:18): while the context is live, no outcome of reading a        *)
(* statistics table ends the scan.                                          *)
StatsNeverFatal ==
  [][pc = "load" /\ ~canceled /\ err = "none" => err' = "none"]_vars

Status ==
  IF refs = 0 THEN "closed"
  ELSE IF err # "none" THEN "failed"
  ELSE IF returned = "false" THEN "done" ELSE "open"

\* The rows of the current batch, from RowOffset.
BatchRows == IF current = NoBatch THEN {} ELSE offset..(offset + current.to - current.from - 1)

Stream == INSTANCE RowStream WITH
  next <- pos, batch <- BatchRows, seen <- emitted, status <- Status

(* The scan implements the stream of rows: batches are contiguous, in row   *)
(* order and never repeated, only unwanted ranges are passed over, the end  *)
(* is reported after the last row, and nothing follows a failure.           *)
ImplementsRowStream == Stream!Spec

(* No row that satisfies every predicate is lost: those behind the position *)
(* were returned, and at the end of the rows all of them were.              *)
NoWantedRowLost == Stream!NoWantedRowLost

(* Next always returns, whatever the zones skip and wherever reads fail.    *)
NextReturns == pc # "idle" ~> pc = "idle"

(* A consumer that reads to the end and gives its batches back leaves no    *)
(* array alive, even without releasing the reader.                          *)
DrainFreesAll == <>[](\A b \in Blocks : refcnt[b] = 0)
=============================================================================
