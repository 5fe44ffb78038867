------------------------- MODULE RecordReaderProofs -------------------------
(***************************************************************************)
(* For every plan, batch size, predicate and pattern of failures: Next     *)
(* never slices outside a decoded array, never finds a gap, never decodes  *)
(* or returns what the statistics exclude; the scan implements the stream  *)
(* of rows, so that no wanted row is lost; and it neither leaks an array   *)
(* nor releases one twice.                                                 *)
(*                                                                         *)
(* None of these is inductive alone.  The invariant below adds what each   *)
(* program counter implies about the locals of Next, where each cursor     *)
(* stands relative to the position, and what the checks done so far have   *)
(* established about the rows from the position to the end of the batch.   *)
(***************************************************************************)
EXTENDS RecordReader, FiniteSetTheorems, TLAPS

Scanning == {"check", "load", "locate", "read", "dict", "take"}
InColumn == {"read", "dict", "take"}

\* Next runs only on an open reader, with no current batch; false without an
\* error is the end of the rows.
ControlInv ==
  /\ pc # "idle" => err = "none" /\ refs # 0 /\ current = NoBatch
  /\ pc \in Scanning => pos < Rows /\ pos < end
  /\ returned = "false" /\ err = "none" /\ refs # 0 => pos = Rows
  /\ current # NoBatch =>
       current.from = offset /\ current.to = pos /\ offset < pos

\* A cursor never stands past a piece that holds the position.
Behind(c) ==
  /\ cursor[c].index \in 1..(Len(Pieces[c]) + 1)
  /\ cursor[c].index > 1 => Pieces[c][cursor[c].index - 1].end <= pos

\* The piece of a cursor holds the batch under construction.
Covers(c) ==
  /\ cursor[c].index \in 1..Len(Pieces[c])
  /\ Pieces[c][cursor[c].index].start <= pos
  /\ end <= Pieces[c][cursor[c].index].end

CursorInv ==
  /\ \A c \in Columns : Behind(c)
  /\ \A c \in Columns :
       \/ cursor[c].cached = 0
       \/ cursor[c].values = cursor[c].cached
       \/ pc \in {"dict", "take"} /\ c = col
  /\ pc = "locate" => \A c \in Columns : c < col => Covers(c)
  /\ pc \in InColumn =>
       \A c \in Columns : Covers(c) /\ (c < col => cursor[c].values = cursor[c].index)
  /\ pc \in {"dict", "take"} => col \in Columns

\* While rows remain, a table that was read and not given up is still held:
\* only the end of the rows and a failure release it.
ZoneInv ==
  /\ \A z \in 1..Len(Zones) : zoneLen[z] \in {0, Zones[z].len}
  /\ err = "none" /\ refs # 0 /\ pos < Rows =>
       \A z \in 1..Len(Zones) :
         loaded[z] /\ zoneLen[z] # 0 => zoneValues[z] \/ (pc = "load" /\ z = Zone)
  /\ pc = "load" => chk <= Len(Checks) /\ InZone(Zone, pos) /\ zoneLen[Zone] # 0

PrunedBy(k, r) ==
  LET z == Checks[k].zone
  IN /\ InZone(z, r)
     /\ zoneLen[z] # 0
     /\ ZoneIndex(r, Zones[z].start, zoneLen[z]) \in Checks[k].excluded

\* What the checks before chk have established.
CheckInv ==
  pc \in {"check", "load"} =>
    /\ skipUntil >= pos
    /\ \A r \in pos..(skipUntil - 1) : r \notin Wanted
    /\ skipUntil = pos =>
         \A k \in 1..(chk - 1) : \A r \in pos..(end - 1) : ~PrunedBy(k, r)

IInv ==
  TypeOK /\ ControlInv /\ CursorInv /\ ZoneInv /\ CheckInv /\ PruningExact /\ NoGapNoStall

-----------------------------------------------------------------------------
LEMMA SeqElement == ASSUME NEW S, NEW s \in Seq(S), NEW i \in 1..Len(s) PROVE s[i] \in S
OBVIOUS

(* The plan, in the form the steps below use.                              *)

LEMMA PlanFacts ==
  /\ Rows \in Nat /\ BatchSize \in Nat \ {0} /\ NumCols \in Nat
  /\ Columns \subseteq Nat \ {0}
  /\ \A c \in Columns :
       /\ Len(Pieces[c]) \in Nat
       /\ \A i \in 1..Len(Pieces[c]) :
            /\ Pieces[c][i].start \in Nat /\ Pieces[c][i].end \in Nat
            /\ Pieces[c][i].dict \in Nat
            /\ Pieces[c][i].end <= Rows
            /\ Pieces[c][i].start = IF i = 1 THEN 0 ELSE Pieces[c][i - 1].end
       /\ Rows = IF Len(Pieces[c]) = 0 THEN 0 ELSE Pieces[c][Len(Pieces[c])].end
  /\ Len(Zones) \in Nat
  /\ \A z \in 1..Len(Zones) :
       /\ Zones[z].start \in Nat /\ Zones[z].end \in Nat /\ Zones[z].len \in Nat
       /\ Zones[z].start <= Zones[z].end /\ Zones[z].end <= Rows
  /\ Len(Checks) \in Nat
  /\ \A k \in 1..Len(Checks) : Checks[k].zone \in 1..Len(Zones)
  /\ \A k \in 1..Len(Checks) : Checks[k].excluded \subseteq Nat
<1>1. \A c \in Columns : Pieces[c] \in Seq([start : Nat, end : Nat, dict : Nat])
  BY PlanAssumption
<1>2. \A c \in Columns : Len(Pieces[c]) \in Nat
  BY <1>1
<1>3. ASSUME NEW c \in Columns, NEW i \in 1..Len(Pieces[c])
      PROVE  Pieces[c][i] \in [start : Nat, end : Nat, dict : Nat]
  <2> DEFINE T == [start : Nat, end : Nat, dict : Nat]
  <2> HIDE DEF T
  <2>1. Pieces[c] \in Seq(T)
    BY <1>1 DEF T
  <2>2. Pieces[c][i] \in T
    BY <2>1, SeqElement
  <2> QED BY <2>2 DEF T
<1>4. Zones \in Seq([start : Nat, end : Nat, len : Nat])
  BY PlanAssumption
<1>5. ASSUME NEW z \in 1..Len(Zones)
      PROVE  /\ Zones[z].start \in Nat /\ Zones[z].end \in Nat /\ Zones[z].len \in Nat
             /\ Zones[z].start <= Zones[z].end /\ Zones[z].end <= Rows
  <2> DEFINE T == [start : Nat, end : Nat, len : Nat]
  <2> HIDE DEF T
  <2>1. Zones \in Seq(T)
    BY <1>4 DEF T
  <2>2. Zones[z] \in T
    BY <2>1, SeqElement
  <2> QED BY <2>2, PlanAssumption DEF T
<1>6. Checks \in Seq([zone : 1..Len(Zones), excluded : SUBSET Nat])
  BY PlanAssumption
<1>7. ASSUME NEW k \in 1..Len(Checks)
      PROVE  Checks[k].zone \in 1..Len(Zones) /\ Checks[k].excluded \subseteq Nat
  <2> DEFINE T == [zone : 1..Len(Zones), excluded : SUBSET Nat]
  <2> HIDE DEF T
  <2>1. Checks \in Seq(T)
    BY <1>6 DEF T
  <2>2. Checks[k] \in T
    BY <2>1, SeqElement
  <2> QED BY <2>2 DEF T
<1>8. Len(Zones) \in Nat /\ Len(Checks) \in Nat
  BY <1>4, <1>6
<1>9. \A c \in Columns : TilesRows(Pieces[c])
  BY PlanAssumption
<1>10. ASSUME NEW c \in Columns
       PROVE  /\ \A i \in 1..Len(Pieces[c]) :
                   /\ Pieces[c][i].end <= Rows
                   /\ Pieces[c][i].start = IF i = 1 THEN 0 ELSE Pieces[c][i - 1].end
              /\ Rows = IF Len(Pieces[c]) = 0 THEN 0 ELSE Pieces[c][Len(Pieces[c])].end
  BY <1>9 DEF TilesRows
<1>11. Rows \in Nat /\ BatchSize \in Nat \ {0} /\ NumCols \in Nat
  BY PlanAssumption
<1>12. Columns \subseteq Nat \ {0}
  BY <1>11 DEF Columns
<1> QED BY <1>2, <1>3, <1>5, <1>7, <1>8, <1>10, <1>11, <1>12

(* How often a block is in a sequence of sets is a number.                  *)
LEMMA TimesType ==
  ASSUME NEW S, NEW sets \in Seq(S), NEW b
  PROVE  Times(b, sets) \in Nat
<1> DEFINE T == {i \in 1..Len(sets) : b \in sets[i]}
<1>1. Len(sets) \in Nat
  OBVIOUS
<1>2. IsFiniteSet(1..Len(sets))
  BY <1>1, FS_Interval
<1>3. IsFiniteSet(T)
  BY <1>2, FS_Subset, T \subseteq 1..Len(sets)
<1> QED BY <1>3, FS_CardinalityType DEF Times

LEMMA AccountType ==
  ASSUME refcnt \in [Blocks -> Int],
         NEW S, NEW gained \in Seq(S), NEW lost \in Seq(S), Account(gained, lost)
  PROVE  refcnt' \in [Blocks -> Int]
<1>1. \A b \in Blocks : Times(b, gained) \in Nat /\ Times(b, lost) \in Nat
  BY TimesType
<1> QED BY <1>1 DEF Account

(* What is released when Next returns false is a sequence of sets.          *)
LEMMA ReleasedType ==
  LET S == {Dropped, CachedCodes, cols, CachedColumns, CachedZones}
  IN  /\ <<Dropped, CachedCodes, cols>> \o Caches \in Seq(S)
      /\ <<Dropped>> \o Caches \in Seq(S)
      /\ <<Dropped>> \in Seq(S)
      /\ <<>> \in Seq(S)
<1> DEFINE S == {Dropped, CachedCodes, cols, CachedColumns, CachedZones}
<1>1. Caches \in Seq(S)
  BY DEF Caches
<1>2. <<Dropped, CachedCodes, cols>> \in Seq(S)
  OBVIOUS
<1>3. <<Dropped>> \in Seq(S) /\ <<>> \in Seq(S)
  OBVIOUS
<1> HIDE DEF S
<1>4. \A x, y \in Seq(S) : x \o y \in Seq(S)
  OBVIOUS
<1> QED BY <1>1, <1>2, <1>3, <1>4 DEF S

(* Blocks of the pieces and zones of the plan.                              *)
LEMMA BlockFacts ==
  \A c \in Columns : \A i \in 1..Len(Pieces[c]) : Values(c, i) \in Blocks
<1> SUFFICES ASSUME NEW c \in Columns, NEW i \in 1..Len(Pieces[c])
             PROVE  Values(c, i) \in Blocks
  OBVIOUS
<1>1. Values(c, i) \in {Values(c, i), Codes(c, i), Dictionary(c, Pieces[c][i].dict)}
  OBVIOUS
<1>2. Values(c, i) \in ColumnBlocks(c)
  BY <1>1 DEF ColumnBlocks
<1> QED BY <1>2 DEF Blocks

-----------------------------------------------------------------------------
(* Returning false, from any step, leaves an idle reader with empty caches. *)
LEMMA ReturnFalseInv ==
  ASSUME IInv, NEW e \in Errors \ {"gap", "stuck"}, e = "none" => pos >= Rows,
         ReturnFalse(e)
  PROVE  IInv'
<1> USE DEF IInv
<1>1. TypeOK'
  <2>1. refcnt' \in [Blocks -> Int]
    BY AccountType, ReleasedType DEF TypeOK, ReturnFalse
  <2>2. cursor' \in [Columns -> Cursors]
    BY DEF TypeOK, ReturnFalse, EmptyCursors, NoCursor, Cursors
  <2>3. current' \in Batches
    BY DEF ReturnFalse, NoBatch, Batches
  <2>4. zoneValues' \in [1..Len(Zones) -> BOOLEAN]
    BY DEF ReturnFalse, NoZoneValues
  <2> QED BY <2>1, <2>2, <2>3, <2>4 DEF TypeOK, ReturnFalse, PCs, outerVars, Errors
<1>2. ControlInv'
  BY PlanFacts DEF TypeOK, ControlInv, ReturnFalse, Scanning, outerVars
<1>3. CursorInv'
  <2>1. \A c \in Columns : cursor'[c].cached = 0 /\ cursor'[c].index = cursor[c].index
    BY DEF ReturnFalse, EmptyCursors, NoCursor
  <2> QED BY <2>1 DEF CursorInv, Behind, ReturnFalse, InColumn
<1>4. ZoneInv'
  BY PlanFacts DEF ZoneInv, ReturnFalse, TypeOK
<1>5. CheckInv' /\ PruningExact' /\ NoGapNoStall'
  BY DEF CheckInv, PruningExact, NoGapNoStall, ReturnFalse
<1> QED BY <1>1, <1>2, <1>3, <1>4, <1>5

(* A check keeps the rows it speaks of in step with the end of the batch.   *)
LEMMA CheckedInv ==
  ASSUME IInv, pc \in {"check", "load"}, chk <= Len(Checks),
         NEW bound \in (pos + 1)..Rows, NEW skip \in BOOLEAN,
         Checked(bound, skip),
         \A z \in 1..Len(Zones) : zoneLen'[z] \in {0, zoneLen[z]},
         zoneLen' \in [1..Len(Zones) -> Nat],
         pc = "load" => zoneLen'[Zone] = 0,
         skip => \A r \in pos..(bound - 1) : r \notin Wanted,
         ~skip => \A k \in {chk}, r \in pos..(Lesser(end, bound) - 1) : ~PrunedBy(k, r)'
  PROVE  IInv'
<1> USE DEF IInv
<1>1. pos \in Nat /\ end \in Nat /\ skipUntil \in Nat /\ bound \in Nat /\ chk \in Nat
      /\ pos < end /\ pos < Rows
  BY PlanFacts DEF TypeOK, ControlInv, Scanning
<1>2. end' \in (pos + 1)..Rows /\ end' <= end /\ end' <= bound
  BY <1>1, PlanFacts DEF TypeOK, Checked, Lesser
<1>3. skipUntil' \in pos..Rows
  BY <1>1, PlanFacts DEF TypeOK, Checked, CheckInv
<1>4. UNCHANGED <<pos, offset, current, returned, err, emitted, col, cols, codes, cursor,
                  loaded, zoneValues, refs, canceled, held, refcnt>>
      /\ pc' = "check" /\ chk' = chk + 1
  BY DEF Checked, readerVars, outerVars
<1>5. TypeOK'
  <2>1. chk' \in 1..(Len(Checks) + 1)
    BY <1>1, <1>4, PlanFacts
  <2>2. end' \in 0..Rows /\ skipUntil' \in 0..Rows
    BY <1>1, <1>2, <1>3, PlanFacts
  <2> QED BY <1>4, <2>1, <2>2 DEF TypeOK, PCs
<1>6. ControlInv'
  BY <1>1, <1>2, <1>4, PlanFacts DEF ControlInv, Scanning
<1>7. CursorInv'
  BY <1>4 DEF CursorInv, Behind, InColumn
<1>8. ZoneInv'
  <2>1. err' = "none" /\ refs' # 0 /\ pos' < Rows =>
          \A z \in 1..Len(Zones) : loaded'[z] /\ zoneLen'[z] # 0 => zoneValues'[z]
    BY <1>1, <1>4 DEF ZoneInv
  <2>2. \A z \in 1..Len(Zones) : zoneLen'[z] \in {0, Zones[z].len}
    BY DEF ZoneInv
  <2> QED BY <1>4, <2>1, <2>2 DEF ZoneInv
<1>9. CheckInv'
  <2>1. skipUntil' >= pos'
    BY <1>3, <1>4
  <2>2. \A r \in pos'..(skipUntil' - 1) : r \notin Wanted'
    BY <1>1, <1>4 DEF Checked, CheckInv
  <2>3. ASSUME skipUntil' = pos', NEW k \in 1..(chk' - 1), NEW r \in pos'..(end' - 1)
        PROVE  ~PrunedBy(k, r)'
    <3>1. ~skip /\ skipUntil = pos
      BY <1>1, <1>3, <1>4, <2>3 DEF Checked, CheckInv
    <3>2. r \in pos..(end - 1) /\ r \in pos..(Lesser(end, bound) - 1)
      BY <1>1, <1>2, <1>4, <2>3 DEF Checked
    <3>3. CASE k = chk
      BY <3>1, <3>2, <3>3, <1>4
    <3>4. CASE k # chk
      <4>1. k \in 1..(chk - 1) /\ k \in 1..Len(Checks)
        BY <1>1, <1>4, <2>3, <3>4, PlanFacts
      <4>2. ~PrunedBy(k, r)
        BY <3>1, <3>2, <4>1 DEF CheckInv
      <4>3. zoneLen'[Checks[k].zone] \in {0, zoneLen[Checks[k].zone]}
        BY <4>1, PlanFacts
      <4> QED BY <4>2, <4>3 DEF PrunedBy
    <3> QED BY <3>3, <3>4
  <2> QED BY <2>1, <2>2, <2>3 DEF CheckInv
<1>10. PruningExact' /\ NoGapNoStall'
  BY <1>4 DEF PruningExact, NoGapNoStall
<1> QED BY <1>5, <1>6, <1>7, <1>8, <1>9, <1>10

-----------------------------------------------------------------------------
(* The actions.                                                            *)

LEMMA CallInv == ASSUME IInv, Call PROVE IInv'
<1> USE DEF IInv
<1>1. CASE CallRefused
  <2>1. refcnt' \in [Blocks -> Int]
    BY <1>1, AccountType, ReleasedType DEF TypeOK, CallRefused
  <2>2. TypeOK'
    BY <1>1, <2>1 DEF TypeOK, CallRefused, NoBatch, Batches, nextVars, zoneVars, outerVars
  <2>3. ControlInv'
    BY <1>1 DEF ControlInv, CallRefused, Scanning, nextVars, outerVars
  <2>4. CursorInv'
    BY <1>1 DEF CursorInv, Behind, Covers, CallRefused, InColumn, nextVars
  <2>5. ZoneInv' /\ CheckInv' /\ PruningExact' /\ NoGapNoStall'
    BY <1>1 DEF ZoneInv, CheckInv, PruningExact, NoGapNoStall, CallRefused, nextVars, zoneVars,
           outerVars
  <2> QED BY <2>2, <2>3, <2>4, <2>5
<1>2. CASE CallCanceled
  BY <1>2, ReturnFalseInv DEF CallCanceled, Errors
<1>3. CASE CallBegins
  <2>1. refcnt' \in [Blocks -> Int]
    BY <1>3, AccountType, ReleasedType DEF TypeOK, CallBegins
  <2>2. TypeOK'
    BY <1>3, <2>1
    DEF TypeOK, CallBegins, Callable, NoBatch, Batches, PCs, nextVars, zoneVars, outerVars
  <2>3. ControlInv'
    BY <1>3 DEF ControlInv, CallBegins, Callable, Scanning, nextVars, outerVars
  <2>4. CursorInv'
    BY <1>3 DEF CursorInv, Behind, Covers, CallBegins, Callable, InColumn, nextVars
  <2>5. ZoneInv' /\ CheckInv' /\ PruningExact' /\ NoGapNoStall'
    BY <1>3
    DEF ZoneInv, CheckInv, PruningExact, NoGapNoStall, CallBegins, Callable, nextVars, zoneVars,
        outerVars
  <2> QED BY <2>2, <2>3, <2>4, <2>5
<1> QED BY <1>1, <1>2, <1>3 DEF Call

LEMMA LoopInv == ASSUME IInv, EndOfRows \/ LoopBegins \/ CancelSeen PROVE IInv'
<1> USE DEF IInv
<1>1. CASE EndOfRows
  BY <1>1, ReturnFalseInv DEF EndOfRows, Errors
<1>2. CASE CancelSeen
  BY <1>2, ReturnFalseInv DEF CancelSeen, Errors
<1>3. CASE LoopBegins
  <2>1. end' \in (pos + 1)..Rows
    BY <1>3, PlanFacts DEF TypeOK, LoopBegins, Lesser
  <2>2. TypeOK'
    BY <1>3, <2>1, PlanFacts, SMTT(30) DEF TypeOK, LoopBegins, PCs, readerVars, zoneVars, outerVars
  <2>3. ControlInv'
    BY <1>3, <2>1, PlanFacts DEF TypeOK, ControlInv, LoopBegins, Scanning, readerVars, outerVars
  <2>4. CursorInv'
    BY <1>3 DEF CursorInv, Behind, LoopBegins, InColumn, readerVars
  <2>5. CheckInv'
    BY <1>3, PlanFacts DEF TypeOK, CheckInv, LoopBegins, readerVars
  <2>6. ZoneInv' /\ PruningExact' /\ NoGapNoStall'
    BY <1>3 DEF ZoneInv, PruningExact, NoGapNoStall, LoopBegins, readerVars, zoneVars, outerVars
  <2> QED BY <2>2, <2>3, <2>4, <2>5, <2>6
<1> QED BY <1>1, <1>2, <1>3

(* Division by the zone length, in the form the provers can use: the index  *)
(* of a row is the number of whole zones before it.                         *)
LEMMA DivMod ==
  ASSUME NEW len \in Nat \ {0}, NEW x \in Nat
  PROVE  x \div len \in Nat /\ x % len \in 0..(len - 1) /\ x = len * (x \div len) + (x % len)
<1>1. x \div len \in Int /\ x % len \in 0..(len - 1) /\ x = len * (x \div len) + (x % len)
  BY SMTT(30)
<1>2. x \div len \in Nat
  BY SMTT(30)
<1> QED BY <1>1, <1>2

LEMMA ProductType == ASSUME NEW len \in Nat, NEW q \in Nat PROVE len * q \in Nat
BY SMTT(30)

LEMMA TimesNext == ASSUME NEW len \in Nat, NEW q \in Nat PROVE len * (q + 1) = len * q + len
BY SMTT(30)

LEMMA TimesLess ==
  ASSUME NEW len \in Nat, NEW q \in Nat, NEW d \in Nat, q < d
  PROVE  len * q + len <= len * d
<1>1. len * (q + 1) <= len * d
  BY SMTT(30)
<1> DEFINE a == len * d
           b == len * q
           c == len * (q + 1)
<1>2. a \in Nat /\ b \in Nat /\ c = b + len
  BY TimesNext
<1> HIDE DEF a, b, c
<1>3. c <= a
  BY <1>1 DEF a, c
<1>4. b + len <= a
  BY <1>2, <1>3
<1> QED BY <1>4 DEF a, b

LEMMA ZoneIndexUnique ==
  ASSUME NEW len \in Nat \ {0}, NEW x \in Nat, NEW q \in Nat,
         len * q <= x, x < len * q + len
  PROVE  x \div len = q
<1> DEFINE d == x \div len
           m == x % len
           a == len * d
           b == len * q
<1>0. d \in Nat /\ m \in 0..(len - 1) /\ x = a + m
  BY DivMod
<1>1. d \in Nat /\ m \in 0..(len - 1) /\ x = a + m /\ a \in Nat /\ b \in Nat
  <2> HIDE DEF d, m
  <2> QED BY <1>0, ProductType
<1>2. (d < q => a + len <= b) /\ (q < d => b + len <= a)
  BY <1>1, TimesLess
<1>3. b <= x /\ x < b + len
  OBVIOUS
<1> HIDE DEF d, m, a, b
<1>4. ~(d < q) /\ ~(q < d)
  BY <1>1, <1>2, <1>3
<1>5. d = q
  BY <1>1, <1>4
<1> QED BY <1>5 DEF d

(* The bound evaluate returns lies after the position, inside the zoned     *)
(* range, and every row before it is a row of the zone the position is in.  *)
LEMMA BoundStaysInZone ==
  ASSUME NEW len \in Nat \ {0}, NEW start \in Nat, NEW last \in Nat,
         NEW at \in start..(last - 1)
  PROVE  /\ ZoneBound(at, start, last, len) \in (at + 1)..last
         /\ \A r \in at..(ZoneBound(at, start, last, len) - 1) :
               ZoneIndex(r, start, len) = ZoneIndex(at, start, len)
<1> DEFINE x == at - start
           d == x \div len
           m == x % len
           a == len * d
           bound == ZoneBound(at, start, last, len)
<1>1. x \in Nat /\ at = start + x
  OBVIOUS
<1>2. d \in Nat /\ m \in 0..(len - 1) /\ x = a + m
  <2> HIDE DEF x
  <2> QED BY <1>1, DivMod
<1>3. a \in Nat /\ len * (d + 1) = a + len
  <2> HIDE DEF d
  <2> QED BY <1>2, TimesNext
<1>4. bound = at + Lesser(len - m, last - at)
  BY DEF ZoneBound
<1>5. ZoneIndex(at, start, len) = d
  BY DEF ZoneIndex
<1> HIDE DEF x, d, m, a, bound
<1>6. bound \in (at + 1)..last /\ bound <= at + (len - m)
  BY <1>2, <1>4 DEF Lesser
<1>7. ASSUME NEW r \in at..(bound - 1) PROVE ZoneIndex(r, start, len) = d
  <2>1. r - start \in Nat /\ a <= r - start /\ r - start < a + len
    BY <1>1, <1>2, <1>3, <1>6
  <2>2. (r - start) \div len = d
    <3> DEFINE y == r - start
    <3> HIDE DEF y
    <3>1. y \in Nat /\ len * d <= y /\ y < len * d + len
      BY <2>1 DEF y, a
    <3>2. y \div len = d
      BY <1>2, <3>1, ZoneIndexUnique
    <3> QED BY <3>2 DEF y
  <2> QED BY <2>2 DEF ZoneIndex
<1> QED BY <1>5, <1>6, <1>7 DEF bound

(* The zone under evaluation is one of the plan.                            *)
LEMMA ZoneFacts ==
  ASSUME TypeOK, chk <= Len(Checks)
  PROVE  /\ chk \in 1..Len(Checks) /\ Zone \in 1..Len(Zones)
         /\ Zones[Zone].start \in Nat /\ Zones[Zone].end \in Nat
         /\ Zones[Zone].start <= Zones[Zone].end /\ Zones[Zone].end <= Rows
         /\ Checks[chk].excluded \subseteq Nat
BY PlanFacts DEF TypeOK, Zone

LEMMA EvaluateInv ==
  ASSUME IInv, CheckOutside \/ EvaluateUnusable \/ Evaluate
  PROVE  IInv'
<1> USE DEF IInv
<1>1. /\ pc = "check" /\ chk <= Len(Checks) /\ chk \in 1..Len(Checks)
      /\ Zone \in 1..Len(Zones) /\ Zones[Zone].start \in Nat /\ Zones[Zone].end \in Nat
      /\ Zones[Zone].start <= Zones[Zone].end /\ Zones[Zone].end <= Rows
  BY ZoneFacts DEF CheckOutside, EvaluateUnusable, Evaluate, Inside, Checking
<1>2. pos \in Nat /\ end \in Nat /\ pos < end /\ end <= Rows /\ Rows \in Nat
  BY <1>1, PlanFacts DEF TypeOK, ControlInv, Scanning
<1>3. zoneLen' = zoneLen /\ zoneLen \in [1..Len(Zones) -> Nat]
  BY DEF TypeOK, CheckOutside, EvaluateUnusable, Evaluate
<1>4. \A z \in 1..Len(Zones) : zoneLen'[z] \in {0, zoneLen[z]}
  BY <1>3
<1>5. CASE CheckOutside
  <2>1. OutsideBound \in (pos + 1)..Rows
    BY <1>1, <1>2, <1>5 DEF CheckOutside, InZone, OutsideBound
  <2>2. \A k \in {chk}, r \in pos..(Lesser(end, OutsideBound) - 1) : ~PrunedBy(k, r)'
    <3> SUFFICES ASSUME NEW r \in pos..(Lesser(end, OutsideBound) - 1)
                 PROVE  ~InZone(Zone, r)
      BY DEF PrunedBy, Zone
    <3> QED BY <1>1, <1>2, <1>5 DEF CheckOutside, OutsideBound, Lesser, InZone
  <2> QED BY <1>1, <1>3, <1>4, <1>5, <2>1, <2>2, CheckedInv DEF CheckOutside
<1>6. CASE EvaluateUnusable
  <2>1. Zones[Zone].end \in (pos + 1)..Rows
    BY <1>1, <1>2, <1>6 DEF EvaluateUnusable, Inside, InZone
  <2>2. \A k \in {chk}, r \in pos..(Lesser(end, Zones[Zone].end) - 1) : ~PrunedBy(k, r)'
    BY <1>3, <1>6 DEF EvaluateUnusable, PrunedBy, Zone
  <2> QED BY <1>1, <1>3, <1>4, <1>6, <2>1, <2>2, CheckedInv DEF EvaluateUnusable
<1>7. CASE Evaluate
  <2> DEFINE len == zoneLen[Zone]
             idx == ZoneIndex(pos, Zones[Zone].start, len)
             skip == zoneValues[Zone] /\ idx \in Checks[chk].excluded
  <2>1. len \in Nat \ {0} /\ len = Zones[Zone].len
    BY <1>1, <1>3, <1>7 DEF Evaluate, ZoneInv
  <2>2. pos \in Zones[Zone].start..(Zones[Zone].end - 1)
    BY <1>1, <1>2, <1>7 DEF Evaluate, Inside, InZone
  <2>3. /\ EvaluateBound \in (pos + 1)..Zones[Zone].end
        /\ \A r \in pos..(EvaluateBound - 1) : ZoneIndex(r, Zones[Zone].start, len) = idx
    <3> DEFINE first == Zones[Zone].start
               last == Zones[Zone].end
    <3>1. first \in Nat /\ last \in Nat /\ pos \in first..(last - 1) /\ len \in Nat \ {0}
      BY <1>1, <2>1, <2>2
    <3> HIDE DEF first, last, len
    <3>2. /\ ZoneBound(pos, first, last, len) \in (pos + 1)..last
          /\ \A r \in pos..(ZoneBound(pos, first, last, len) - 1) :
               ZoneIndex(r, first, len) = ZoneIndex(pos, first, len)
      BY <3>1, BoundStaysInZone
    <3> QED BY <3>2 DEF EvaluateBound, first, last, len
  <2>4. EvaluateBound \in (pos + 1)..Rows
    BY <1>1, <1>2, <2>3
  <2>5. \A r \in pos..(EvaluateBound - 1) : InZone(Zone, r)
    BY <1>1, <1>2, <2>2, <2>3 DEF InZone
  <2>6. skip => \A r \in pos..(EvaluateBound - 1) : r \notin Wanted
    <3> SUFFICES ASSUME skip, NEW r \in pos..(EvaluateBound - 1) PROVE r \notin Wanted
      OBVIOUS
    <3>1. InZone(Zone, r) /\ ZoneIndex(r, Zones[Zone].start, Zones[Zone].len) \in Checks[chk].excluded
      BY <2>1, <2>3, <2>5
    <3> QED BY <1>1, <2>1, <3>1, PlanAssumption DEF ChecksSound, Zone
  <2>7. ASSUME ~skip
        PROVE  \A k \in {chk}, r \in pos..(Lesser(end, EvaluateBound) - 1) : ~PrunedBy(k, r)'
    <3> SUFFICES ASSUME NEW r \in pos..(Lesser(end, EvaluateBound) - 1)
                 PROVE  ZoneIndex(r, Zones[Zone].start, len) \notin Checks[chk].excluded
      BY <1>3 DEF PrunedBy, Zone
    <3>1. r \in pos..(EvaluateBound - 1)
      BY <1>2, <2>4 DEF Lesser
    <3>2. zoneValues[Zone]
      BY <1>1, <1>2, <1>7, <2>2 DEF Evaluate, ZoneInv, ControlInv, InZone
    <3> QED BY <2>3, <2>7, <3>1, <3>2
  <2>8. Checked(EvaluateBound, skip)
    BY <1>7 DEF Evaluate
  <2>9. skip \in BOOLEAN
    BY <1>1 DEF TypeOK
  <2> QED BY <1>1, <1>3, <1>4, <2>4, <2>6, <2>7, <2>8, <2>9, CheckedInv
<1> QED BY <1>5, <1>6, <1>7

LEMMA LoadInv ==
  ASSUME IInv, LoadBegins \/ LoadSucceeds \/ LoadGivenUp \/ LoadFatal
  PROVE  IInv'
<1> USE DEF IInv
<1>1. CASE LoadBegins
  <2>1. chk \in 1..Len(Checks) /\ Zone \in 1..Len(Zones)
    BY <1>1, ZoneFacts DEF LoadBegins, Inside, Checking
  <2>2. TypeOK'
    BY <1>1, <2>1 DEF TypeOK, LoadBegins, PCs, readerVars, nextVars, outerVars
  <2>3. ControlInv'
    BY <1>1 DEF ControlInv, LoadBegins, Inside, Checking, Scanning, readerVars, nextVars, outerVars
  <2>4. CursorInv'
    BY <1>1 DEF CursorInv, Behind, LoadBegins, Inside, Checking, InColumn, readerVars
  <2>5. ZoneInv'
    BY <1>1, <2>1
    DEF TypeOK, ZoneInv, LoadBegins, Inside, Checking, InZone, Zone, readerVars, nextVars, outerVars
  <2>6. CheckInv'
    BY <1>1 DEF CheckInv, LoadBegins, Inside, Checking, PrunedBy, readerVars, nextVars
  <2>7. PruningExact' /\ NoGapNoStall'
    BY <1>1 DEF PruningExact, NoGapNoStall, LoadBegins, readerVars
  <2> QED BY <2>2, <2>3, <2>4, <2>5, <2>6, <2>7
<1>2. CASE LoadSucceeds
  <2>1. chk \in 1..Len(Checks) /\ Zone \in 1..Len(Zones)
    BY <1>2, ZoneFacts DEF LoadSucceeds, ZoneInv
  <2>2. refcnt' \in [Blocks -> Int]
    <3> DEFINE S == {{ZoneTable(Zone)}}
    <3>1. <<{ZoneTable(Zone)}>> \in Seq(S) /\ <<>> \in Seq(S)
      OBVIOUS
    <3> HIDE DEF S
    <3> QED BY <1>2, <3>1, AccountType DEF TypeOK, LoadSucceeds
  <2>3. TypeOK'
    BY <1>2, <2>1, <2>2 DEF TypeOK, LoadSucceeds, PCs, readerVars, nextVars, outerVars
  <2>4. ControlInv'
    BY <1>2 DEF ControlInv, LoadSucceeds, Scanning, readerVars, nextVars, outerVars
  <2>5. CursorInv'
    BY <1>2 DEF CursorInv, Behind, LoadSucceeds, InColumn, readerVars
  <2>6. ZoneInv'
    BY <1>2, <2>1 DEF TypeOK, ZoneInv, LoadSucceeds, readerVars, nextVars, outerVars
  <2>7. CheckInv'
    BY <1>2 DEF CheckInv, LoadSucceeds, PrunedBy, readerVars, nextVars
  <2>8. PruningExact' /\ NoGapNoStall'
    BY <1>2 DEF PruningExact, NoGapNoStall, LoadSucceeds, readerVars
  <2> QED BY <2>3, <2>4, <2>5, <2>6, <2>7, <2>8
<1>3. CASE LoadGivenUp
  <2>1. pc = "load" /\ chk <= Len(Checks) /\ InZone(Zone, pos)
    BY <1>3 DEF LoadGivenUp, ZoneInv
  <2>2. /\ Zone \in 1..Len(Zones) /\ Zones[Zone].end \in Nat /\ Zones[Zone].end <= Rows
        /\ pos \in Nat
    BY <2>1, ZoneFacts DEF TypeOK
  <2>3. Zones[Zone].end \in (pos + 1)..Rows
    BY <2>1, <2>2, PlanFacts DEF InZone
  <2>4. /\ zoneLen' \in [1..Len(Zones) -> Nat] /\ zoneLen'[Zone] = 0
        /\ \A z \in 1..Len(Zones) : zoneLen'[z] \in {0, zoneLen[z]}
    BY <1>3, <2>2 DEF TypeOK, LoadGivenUp
  <2>5. \A k \in {chk}, r \in pos..(Lesser(end, Zones[Zone].end) - 1) : ~PrunedBy(k, r)'
    BY <2>4 DEF PrunedBy, Zone
  <2>6. Checked(Zones[Zone].end, FALSE)
    BY <1>3 DEF LoadGivenUp
  <2> QED BY <2>1, <2>3, <2>4, <2>5, <2>6, CheckedInv
<1>4. CASE LoadFatal
  BY <1>4, ReturnFalseInv, PlanAssumption DEF LoadFatal, Outcomes, Errors
<1> QED BY <1>1, <1>2, <1>3, <1>4

LEMMA SkipInv == ASSUME IInv, SkipZone \/ KeepZone PROVE IInv'
<1> USE DEF IInv
<1>1. CASE SkipZone
  <2>1. pos' \in Nat /\ pos' > pos /\ pos' <= Rows
    BY <1>1, PlanFacts DEF TypeOK, SkipZone, SkipTarget
  <2>2. TypeOK'
    BY <1>1, <2>1, PlanFacts DEF TypeOK, SkipZone, PCs, nextVars, zoneVars, outerVars
  <2>3. ControlInv'
    BY <1>1, <2>1, PlanFacts DEF TypeOK, ControlInv, SkipZone, Scanning, nextVars, outerVars
  <2>4. CursorInv'
    <3>1. ASSUME NEW c \in Columns PROVE Behind(c)'
      <4>1. cursor' = cursor /\ pos \in Nat /\ Behind(c)
        BY <1>1, PlanFacts DEF TypeOK, CursorInv, SkipZone
      <4>2. cursor[c].index > 1 =>
              Pieces[c][cursor[c].index - 1].end \in Nat
        <5>1. Len(Pieces[c]) \in Nat
          BY PlanFacts
        <5>2. cursor[c].index > 1 => cursor[c].index - 1 \in 1..Len(Pieces[c])
          BY <4>1, <5>1 DEF Behind
        <5> QED BY <5>2, PlanFacts
      <4> QED BY <2>1, <4>1, <4>2 DEF Behind
    <3> QED BY <1>1, <3>1 DEF CursorInv, SkipZone, InColumn, nextVars
  <2>5. ZoneInv'
    BY <1>1, <2>1, PlanFacts DEF TypeOK, ZoneInv, SkipZone, nextVars, zoneVars, outerVars
  <2>6. CheckInv' /\ PruningExact' /\ NoGapNoStall'
    BY <1>1 DEF CheckInv, PruningExact, NoGapNoStall, SkipZone
  <2> QED BY <2>2, <2>3, <2>4, <2>5, <2>6
<1>2. CASE KeepZone
  <2>1. TypeOK'
    BY <1>2, PlanFacts DEF TypeOK, KeepZone, PCs, readerVars, zoneVars, outerVars
  <2>2. ControlInv'
    BY <1>2 DEF ControlInv, KeepZone, Scanning, readerVars, outerVars
  <2>3. CursorInv'
    BY <1>2, PlanFacts DEF CursorInv, Behind, KeepZone, InColumn, readerVars
  <2>4. ZoneInv'
    BY <1>2 DEF ZoneInv, KeepZone, readerVars, zoneVars, outerVars
  <2>5. PruningExact'
    <3> SUFFICES ASSUME NEW r \in pos..(end - 1), NEW k \in 1..Len(Checks)
                 PROVE  ~PrunedBy(k, r)
      BY <1>2 DEF PruningExact, Pruned, PrunedBy, KeepZone, readerVars, zoneVars
    <3>1. skipUntil = pos /\ k \in 1..(chk - 1)
      BY <1>2, PlanFacts DEF TypeOK, CheckInv, KeepZone
    <3> QED BY <1>2, <3>1 DEF CheckInv, KeepZone
  <2>6. CheckInv' /\ NoGapNoStall'
    BY <1>2 DEF CheckInv, NoGapNoStall, KeepZone, readerVars
  <2> QED BY <2>1, <2>2, <2>3, <2>4, <2>5, <2>6
<1> QED BY <1>1, <1>2

LEMMA LocateInv == ASSUME IInv, LocatePiece \/ Located PROVE IInv'
<1> USE DEF IInv
<1>1. pos \in Nat /\ end \in Nat /\ pos < end /\ end <= Rows /\ pos < Rows /\ pc = "locate"
  BY PlanFacts DEF TypeOK, ControlInv, Scanning, LocatePiece, Located
<1>2. CASE LocatePiece
  <2>1. col \in Columns /\ col \in Nat
    BY <1>2, PlanFacts DEF TypeOK, LocatePiece, Columns
  <2>2. PICK k \in cursor[col].index..(Len(Pieces[col]) + 1) :
          /\ Seeks(col, k)
          /\ IF k > Len(Pieces[col]) \/ Pieces[col][k].start > pos
               THEN ReturnFalse("gap")
               ELSE /\ cursor' = [cursor EXCEPT ![col].index = k]
                    /\ end' = BoundedByPiece(Pieces[col][k])
                    /\ col' = col + 1
                    /\ UNCHANGED <<pc, readerVars, skipUntil, chk, cols, codes, zoneVars,
                                   outerVars, refcnt>>
    BY <1>2 DEF LocatePiece
  <2>3. Behind(col) /\ Len(Pieces[col]) \in Nat
    BY <2>1, PlanFacts DEF CursorInv
  <2>4. k \in 1..(Len(Pieces[col]) + 1) /\ cursor[col].index \in Nat \ {0}
    BY <2>2, <2>3 DEF Behind
  \* Whatever lies before piece k ends at or before the position.
  <2>5. k > 1 => Pieces[col][k - 1].end <= pos
    <3>1. CASE k = cursor[col].index
      BY <2>3, <3>1 DEF Behind
    <3>2. CASE k > cursor[col].index
      <4>1. k - 1 \in cursor[col].index..(k - 1)
        BY <2>4, <3>2
      <4> QED BY <2>2, <4>1 DEF Seeks
    <3> QED BY <2>2, <2>4, <3>1, <3>2
  <2>6. k <= Len(Pieces[col])
    <3> SUFFICES ASSUME k = Len(Pieces[col]) + 1 PROVE FALSE
      BY <2>3, <2>4
    <3>1. Rows = IF Len(Pieces[col]) = 0 THEN 0 ELSE Pieces[col][Len(Pieces[col])].end
      BY <2>1, PlanFacts
    <3>2. k - 1 = Len(Pieces[col])
      BY <2>3
    <3> QED BY <1>1, <2>3, <2>4, <2>5, <3>1, <3>2, PlanFacts
  <2>7. k \in 1..Len(Pieces[col])
    BY <2>4, <2>6
  <2>8. /\ Pieces[col][k].start \in Nat /\ Pieces[col][k].end \in Nat
        /\ Pieces[col][k].end > pos
        /\ Pieces[col][k].start <= pos
    <3>1. Pieces[col][k].start = IF k = 1 THEN 0 ELSE Pieces[col][k - 1].end
      BY <2>1, <2>7, PlanFacts
    <3>2. Pieces[col][k].start \in Nat /\ Pieces[col][k].end \in Nat
      BY <2>1, <2>7, PlanFacts
    <3>3. Pieces[col][k].end > pos
      BY <2>2, <2>6 DEF Seeks
    <3>4. k # 1 => k > 1
      BY <2>4
    <3>5. Pieces[col][k].start <= pos
      BY <1>1, <2>5, <3>1, <3>4
    <3> QED BY <3>2, <3>3, <3>5
  <2>9. /\ cursor' = [cursor EXCEPT ![col].index = k]
        /\ end' = Lesser(end, Pieces[col][k].end)
        /\ col' = col + 1
        /\ UNCHANGED <<pc, pos, offset, current, returned, err, emitted, skipUntil, chk, cols,
                       codes, loaded, zoneLen, zoneValues, refs, canceled, held, refcnt>>
    <3>1. ~(k > Len(Pieces[col]) \/ Pieces[col][k].start > pos)
      BY <1>1, <2>3, <2>7, <2>8
    <3>2. /\ cursor' = [cursor EXCEPT ![col].index = k]
          /\ end' = BoundedByPiece(Pieces[col][k])
          /\ col' = col + 1
          /\ UNCHANGED <<pc, readerVars, skipUntil, chk, cols, codes, zoneVars,
                         outerVars, refcnt>>
      BY <2>2, <3>1
    <3> QED BY <3>2 DEF BoundedByPiece, readerVars, zoneVars, outerVars
  <2>10. end' \in (pos + 1)..Rows /\ end' <= end /\ end' <= Pieces[col][k].end
    BY <1>1, <2>8, <2>9, PlanFacts, SMTT(30) DEF Lesser
  <2>11. TypeOK'
    <3>1. cursor' \in [Columns -> Cursors]
      <4>1. cursor \in [Columns -> Cursors] /\ cursor[col] \in Cursors /\ k \in Nat
        BY <2>1, <2>4 DEF TypeOK
      <4>2. [cursor[col] EXCEPT !.index = k] \in Cursors
        BY <4>1 DEF Cursors
      <4> QED BY <2>9, <4>1, <4>2
    <3>2. col' \in 1..(NumCols + 1) /\ end' \in 0..Rows
      BY <1>1, <2>1, <2>9, <2>10, PlanFacts, SMTT(30) DEF Columns
    <3> QED BY <2>9, <3>1, <3>2 DEF TypeOK
  <2>12. ControlInv'
    BY <1>1, <2>9, <2>10 DEF ControlInv, Scanning
  <2>13. \A c \in Columns : /\ cursor'[c].index = IF c = col THEN k ELSE cursor[c].index
                            /\ cursor'[c].cached = cursor[c].cached
                            /\ cursor'[c].values = cursor[c].values
    BY <2>1, <2>9 DEF TypeOK, Cursors
  <2>14. CursorInv'
    <3>1. ASSUME NEW c \in Columns PROVE Behind(c)'
      BY <2>4, <2>5, <2>9, <2>13 DEF CursorInv, Behind
    <3>2. ASSUME NEW c \in Columns, c < col' PROVE Covers(c)'
      <4>1. CASE c = col
        BY <2>7, <2>8, <2>9, <2>10, <2>13, <4>1 DEF Covers
      <4>2. CASE c # col
        <5>1. Covers(c)
          BY <1>1, <2>1, <2>9, <3>2, <4>2, PlanFacts DEF CursorInv
        <5>2. Pieces[c][cursor[c].index].end \in Nat
          BY <5>1, PlanFacts DEF Covers
        <5> QED BY <1>1, <2>9, <2>10, <2>13, <4>2, <5>1, <5>2 DEF Covers
      <4> QED BY <4>1, <4>2
    <3>3. pc' = "locate"
      BY <1>1, <2>9
    <3>4. \A c \in Columns : cursor'[c].cached = 0 \/ cursor'[c].values = cursor'[c].cached
      BY <1>1, <2>13 DEF CursorInv
    <3> QED BY <3>1, <3>2, <3>3, <3>4 DEF CursorInv, InColumn
  <2>15. ZoneInv' /\ CheckInv' /\ NoGapNoStall'
    BY <1>1, <2>9 DEF ZoneInv, CheckInv, NoGapNoStall
  <2>16. PruningExact'
    <3>1. \A r : Pruned(r)' <=> Pruned(r)
      BY <2>9 DEF Pruned
    <3>2. end' \in Int /\ end \in Int /\ pos \in Int
      BY <1>1, <2>10, PlanFacts DEF TypeOK
    <3>3. end' <= end
      BY <2>10
    <3>4. ASSUME NEW r \in pos..(end' - 1) PROVE r \in pos..(end - 1)
      <4> DEFINE e == end'
      <4>1. e \in Int /\ e <= end /\ r \in pos..(e - 1)
        BY <3>2, <3>3
      <4> HIDE DEF e
      <4> QED BY <3>2, <4>1
    <3> QED BY <1>1, <2>9, <3>1, <3>4 DEF PruningExact
  <2> QED BY <2>11, <2>12, <2>14, <2>15, <2>16
<1>3. CASE Located
  <2>1. /\ pc' = "read" /\ col' = 1 /\ col > NumCols
        /\ UNCHANGED <<pos, offset, current, returned, err, emitted, end, skipUntil, chk, cols,
                       codes, cursor, loaded, zoneLen, zoneValues, refs, canceled, held, refcnt>>
    BY <1>1, <1>3 DEF Located, readerVars, zoneVars, outerVars
  <2>2. TypeOK'
    BY <2>1, PlanFacts DEF TypeOK, PCs
  <2>3. ControlInv'
    BY <1>1, <2>1 DEF ControlInv, Scanning
  <2>4. CursorInv'
    <3>1. ASSUME NEW c \in Columns PROVE Behind(c)' /\ Covers(c)' /\ ~(c < col')
      BY <1>1, <2>1, PlanFacts DEF TypeOK, CursorInv, Behind, Covers, Columns
    <3>2. \A c \in Columns : cursor'[c].cached = 0 \/ cursor'[c].values = cursor'[c].cached
      BY <1>1, <2>1 DEF CursorInv
    <3> QED BY <2>1, <3>1, <3>2 DEF CursorInv, InColumn
  <2>5. ZoneInv' /\ CheckInv' /\ NoGapNoStall'
    BY <1>1, <2>1 DEF ZoneInv, CheckInv, NoGapNoStall
  <2>6. PruningExact'
    BY <1>1, <2>1 DEF PruningExact, Pruned
  <2> QED BY <2>2, <2>3, <2>4, <2>5, <2>6
<1> QED BY <1>2, <1>3

(* Reading leaves the position, the batch and the checks alone: what is     *)
(* left to show of a read is the state of its own cursor.                   *)
LEMMA ReadFrame ==
  ASSUME IInv, pc \in InColumn, pc' \in InColumn,
         UNCHANGED <<readerVars, end, skipUntil, chk, zoneVars, outerVars>>,
         TypeOK', col \in Columns, col' \in {col, col + 1},
         pc' \in {"dict", "take"} => col' = col,
         \A c \in Columns : cursor'[c].index = cursor[c].index,
         \A c \in Columns \ {col} : cursor'[c] = cursor[c],
         pc' \in {"dict", "take"} \/ cursor'[col].values = cursor'[col].cached
           \/ cursor'[col].cached = 0,
         col' = col + 1 => cursor'[col].values = cursor'[col].index
  PROVE  IInv'
<1> USE DEF IInv
<1>1. UNCHANGED <<pos, offset, current, returned, err, emitted, end, skipUntil, chk,
                  loaded, zoneLen, zoneValues, refs, canceled, held>>
  BY DEF readerVars, zoneVars, outerVars
<1>2. ControlInv'
  BY <1>1 DEF ControlInv, Scanning, InColumn
<1>3. CursorInv'
  <2>1. ASSUME NEW c \in Columns PROVE Behind(c)' /\ Covers(c)'
    BY <1>1 DEF CursorInv, Behind, Covers
  <2>2. ASSUME NEW c \in Columns, c < col' PROVE cursor'[c].values = cursor'[c].index
    <3>1. CASE c = col
      BY <2>2, <3>1, PlanFacts
    <3>2. CASE c # col
      <4>1. c < col
        BY <2>2, <3>2, PlanFacts
      <4> QED BY <3>2, <4>1 DEF CursorInv
    <3> QED BY <3>1, <3>2
  <2>3. ASSUME NEW c \in Columns
        PROVE  \/ cursor'[c].cached = 0
               \/ cursor'[c].values = cursor'[c].cached
               \/ pc' \in {"dict", "take"} /\ c = col'
    BY DEF CursorInv
  <2> QED BY <2>1, <2>2, <2>3 DEF CursorInv, InColumn
<1>4. ZoneInv' /\ CheckInv' /\ NoGapNoStall'
  BY <1>1 DEF ZoneInv, CheckInv, NoGapNoStall, InColumn
<1>5. PruningExact'
  <2>1. \A r : Pruned(r)' <=> Pruned(r)
    BY <1>1 DEF Pruned
  <2> QED BY <1>1, <2>1 DEF PruningExact, InColumn
<1> QED BY <1>2, <1>3, <1>4, <1>5

(* The types a read leaves, given those of the cursor and the codes.        *)
LEMMA ReadTypes ==
  ASSUME TypeOK, col \in Columns, pc' \in PCs,
         UNCHANGED <<readerVars, end, skipUntil, chk, zoneVars, outerVars>>,
         col' \in {col, col + 1}, cols' \subseteq Blocks, codes' \in Nat,
         cursor' \in [Columns -> Cursors], refcnt' \in [Blocks -> Int]
  PROVE  TypeOK'
<1>1. col' \in 1..(NumCols + 1)
  BY PlanFacts DEF Columns
<1> QED BY <1>1 DEF TypeOK, readerVars, zoneVars, outerVars

(* One or two blocks gained and one or two sets lost are sequences of sets. *)
LEMMA SmallAccount ==
  ASSUME NEW a, NEW b
  PROVE  /\ <<a>> \in Seq({a, b}) /\ <<a, a>> \in Seq({a, b}) /\ <<b>> \in Seq({a, b})
         /\ <<>> \in Seq({a, b})
OBVIOUS

LEMMA ReadInv ==
  ASSUME IInv,
         ReadCached \/ DecodeValues \/ DecodeCodes \/ DecodeDictionary \/ TakeValues
  PROVE  IInv'
<1> USE DEF IInv
<1>1. /\ col \in Columns /\ col \in Nat /\ pc \in InColumn
      /\ Index \in 1..Len(Pieces[col]) /\ Index \in Nat \ {0}
      /\ Piece.dict \in Nat
      /\ Values(col, Index) \in Blocks
  <2>1. col \in Columns /\ pc \in InColumn
    BY PlanFacts
    DEF TypeOK, CursorInv, Columns, InColumn, ReadCached, DecodeValues, DecodeCodes,
        DecodeDictionary, TakeValues, Missing, Reading
  <2>2. Index \in 1..Len(Pieces[col])
    BY <2>1 DEF CursorInv, Covers, Index
  <2> QED BY <2>1, <2>2, PlanFacts, BlockFacts DEF Piece
<1>2. /\ cursor \in [Columns -> Cursors] /\ cursor[col] \in Cursors
      /\ cols \subseteq Blocks /\ refcnt \in [Blocks -> Int]
  BY <1>1 DEF TypeOK
<1>3. cursor[col].index = Index
  BY DEF Index
<1>4. CASE ReadCached
  <2>1. cursor[col].values = Index /\ cursor[col].cached = Index
    BY <1>1, <1>4 DEF CursorInv, ReadCached, Reading
  <2>2. /\ pc' = "read" /\ col' = col + 1 /\ cols' = cols \cup {Values(col, Index)}
        /\ UNCHANGED <<readerVars, end, skipUntil, chk, zoneVars, outerVars, codes, cursor>>
    BY <1>4, <2>1 DEF ReadCached, TakeSlice
  <2>3. refcnt' \in [Blocks -> Int]
    BY <1>2, <1>4, AccountType, SmallAccount DEF ReadCached
  <2>4. TypeOK'
    BY <1>1, <1>2, <2>2, <2>3, ReadTypes DEF TypeOK, PCs
  <2> QED BY <1>1, <1>3, <2>1, <2>2, <2>4, ReadFrame DEF InColumn
<1>5. CASE DecodeValues
  <2> DEFINE fresh == [index |-> Index, cached |-> Index, values |-> Index,
                       dictionary |-> 0, dictValues |-> 0]
  <2>1. /\ pc' = "read" /\ col' = col + 1 /\ cols' = cols \cup {Values(col, Index)}
        /\ UNCHANGED <<readerVars, end, skipUntil, chk, zoneVars, outerVars, codes>>
        /\ cursor' = [cursor EXCEPT ![col] = fresh]
    BY <1>5 DEF DecodeValues, TakeSlice
  <2>2. fresh \in Cursors
    BY <1>1 DEF Cursors
  <2>3. /\ cursor' \in [Columns -> Cursors] /\ cursor'[col] = fresh
        /\ \A c \in Columns \ {col} : cursor'[c] = cursor[c]
    BY <1>1, <1>2, <2>1, <2>2
  <2>4. refcnt' \in [Blocks -> Int]
    <3>1. Replaced \in Seq({CachedValues(col), CachedDictionary(col), {Values(col, Index)}})
      BY DEF Replaced
    <3>2. <<{Values(col, Index)}, {Values(col, Index)}>>
            \in Seq({CachedValues(col), CachedDictionary(col), {Values(col, Index)}})
      OBVIOUS
    <3> QED BY <1>2, <1>5, <3>1, <3>2, AccountType DEF DecodeValues
  <2>5. TypeOK'
    BY <1>1, <1>2, <2>1, <2>3, <2>4, ReadTypes DEF TypeOK, PCs
  <2>6. \A c \in Columns : cursor'[c].index = cursor[c].index
    BY <1>3, <2>3
  <2> QED BY <1>1, <2>1, <2>3, <2>5, <2>6, ReadFrame DEF InColumn
<1>6. CASE DecodeCodes
  <2>1. /\ pc' \in {"take", "dict"} /\ codes' = Index
        /\ UNCHANGED <<readerVars, end, skipUntil, chk, col, cols, zoneVars, outerVars>>
        /\ cursor' = [cursor EXCEPT ![col].values = 0]
    BY <1>6 DEF DecodeCodes
  <2>2. /\ cursor' \in [Columns -> Cursors]
        /\ \A c \in Columns \ {col} : cursor'[c] = cursor[c]
        /\ \A c \in Columns : cursor'[c].index = cursor[c].index
    <3>1. [cursor[col] EXCEPT !.values = 0] \in Cursors
      BY <1>2 DEF Cursors
    <3> QED BY <1>1, <1>2, <2>1, <3>1 DEF Cursors
  <2>3. refcnt' \in [Blocks -> Int]
    BY <1>2, <1>6, AccountType, SmallAccount DEF DecodeCodes
  <2>4. TypeOK'
    BY <1>1, <1>2, <2>1, <2>2, <2>3, ReadTypes DEF PCs
  <2> QED BY <1>1, <2>1, <2>2, <2>4, ReadFrame DEF InColumn
<1>7. CASE DecodeDictionary
  <2>1. /\ pc' = "take"
        /\ UNCHANGED <<readerVars, end, skipUntil, chk, col, cols, codes, zoneVars, outerVars>>
        /\ cursor' = [cursor EXCEPT ![col].dictionary = Piece.dict,
                                    ![col].dictValues = Piece.dict]
    BY <1>7 DEF DecodeDictionary, nextVars
  <2>2. /\ cursor' \in [Columns -> Cursors]
        /\ \A c \in Columns \ {col} : cursor'[c] = cursor[c]
        /\ \A c \in Columns : cursor'[c].index = cursor[c].index
    <3>1. [cursor[col] EXCEPT !.dictionary = Piece.dict, !.dictValues = Piece.dict] \in Cursors
      BY <1>1, <1>2 DEF Cursors
    <3> QED BY <1>1, <1>2, <2>1, <3>1 DEF Cursors
  <2>3. refcnt' \in [Blocks -> Int]
    BY <1>2, <1>7, AccountType, SmallAccount DEF DecodeDictionary
  <2>4. TypeOK'
    BY <1>1, <1>2, <2>1, <2>2, <2>3, ReadTypes DEF TypeOK, PCs
  <2> QED BY <1>1, <2>1, <2>2, <2>4, ReadFrame DEF InColumn
<1>8. CASE TakeValues
  <2>1. /\ pc' = "read" /\ col' = col + 1 /\ cols' = cols \cup {Values(col, Index)}
        /\ codes' = 0
        /\ UNCHANGED <<readerVars, end, skipUntil, chk, zoneVars, outerVars>>
        /\ cursor' = [cursor EXCEPT ![col].values = Index, ![col].cached = Index]
    BY <1>8 DEF TakeValues, TakeSlice
  <2>2. /\ cursor' \in [Columns -> Cursors]
        /\ \A c \in Columns \ {col} : cursor'[c] = cursor[c]
        /\ cursor'[col].values = Index /\ cursor'[col].cached = Index
        /\ \A c \in Columns : cursor'[c].index = cursor[c].index
    <3>1. [cursor[col] EXCEPT !.values = Index, !.cached = Index] \in Cursors
      BY <1>1, <1>2 DEF Cursors
    <3> QED BY <1>1, <1>2, <2>1, <3>1 DEF Cursors
  <2>3. refcnt' \in [Blocks -> Int]
    BY <1>2, <1>8, AccountType, SmallAccount DEF TakeValues
  <2>4. TypeOK'
    BY <1>1, <1>2, <2>1, <2>2, <2>3, ReadTypes DEF PCs
  <2> QED BY <1>1, <1>3, <2>1, <2>2, <2>4, ReadFrame DEF InColumn
<1> QED BY <1>4, <1>5, <1>6, <1>7, <1>8

(* A read that fails returns false with what made it fail.                  *)
LEMMA FailInv ==
  ASSUME IInv, EndOfRows \/ CancelSeen \/ LoadFatal \/ DecodeFails \/ TakeFails
  PROVE  IInv'
<1>1. Faults \subseteq {"failed", "deadline"}
  BY PlanAssumption
<1>2. \A e \in Outcomes : e \in Errors \ {"gap", "stuck"} /\ e # "none"
  BY <1>1 DEF Outcomes, Errors
<1>3. CASE EndOfRows
  BY <1>3, ReturnFalseInv DEF EndOfRows, Errors
<1>4. CASE CancelSeen
  BY <1>4, ReturnFalseInv DEF CancelSeen, Errors
<1>5. CASE LoadFatal
  BY <1>2, <1>5, ReturnFalseInv DEF LoadFatal
<1>6. CASE DecodeFails
  BY <1>2, <1>6, ReturnFalseInv DEF DecodeFails, SourceFails
<1>7. CASE TakeFails
  BY <1>7, ReturnFalseInv DEF TakeFails, Errors
<1> QED BY <1>3, <1>4, <1>5, <1>6, <1>7

LEMMA EmitInv == ASSUME IInv, Emit PROVE IInv'
<1> USE DEF IInv
<1>1. /\ pc = "read" /\ pc' = "idle" /\ returned' = "true"
      /\ current' = [from |-> pos, to |-> end, blocks |-> cols]
      /\ offset' = pos /\ pos' = end /\ emitted' = emitted \cup (pos..(end - 1)) /\ cols' = {}
      /\ UNCHANGED <<err, end, skipUntil, chk, col, codes, cursor, loaded, zoneLen,
                     zoneValues, refs, canceled, held, refcnt>>
  BY DEF Emit, zoneVars, outerVars
<1>2. pos \in Nat /\ end \in Nat /\ pos < end /\ end <= Rows /\ Rows \in Nat
  BY <1>1, PlanFacts DEF TypeOK, ControlInv, Scanning
<1>3. TypeOK'
  <2>1. current' \in Batches
    BY <1>1, <1>2 DEF TypeOK, Batches
  <2>2. emitted' \subseteq 0..(Rows - 1)
    BY <1>1, <1>2 DEF TypeOK
  <2> QED BY <1>1, <1>2, <2>1, <2>2 DEF TypeOK, PCs
<1>4. ControlInv'
  <2>1. current'.from = offset' /\ current'.to = pos' /\ offset' < pos'
    BY <1>1, <1>2
  <2> QED BY <1>1, <2>1 DEF ControlInv, Scanning
<1>5. CursorInv'
  <2>1. ASSUME NEW c \in Columns PROVE Behind(c)'
    <3>1. Behind(c) /\ cursor[c].index \in 1..(Len(Pieces[c]) + 1)
      BY DEF CursorInv, Behind
    <3>2. cursor[c].index > 1 => Pieces[c][cursor[c].index - 1].end \in Nat
      BY <3>1, PlanFacts
    <3> QED BY <1>1, <1>2, <3>1, <3>2 DEF Behind
  <2>2. \A c \in Columns : cursor[c].cached = 0 \/ cursor[c].values = cursor[c].cached
    BY <1>1 DEF CursorInv
  <2> QED BY <1>1, <2>1, <2>2 DEF CursorInv, InColumn
<1>6. ZoneInv'
  BY <1>1, <1>2 DEF ZoneInv, ControlInv
<1>7. CheckInv' /\ PruningExact' /\ NoGapNoStall'
  BY <1>1 DEF CheckInv, PruningExact, NoGapNoStall
<1> QED BY <1>3, <1>4, <1>5, <1>6, <1>7

(* What the consumer does while Next runs changes none of its locals.       *)
LEMMA ConsumerInv == ASSUME IInv, Consumer PROVE IInv'
<1> USE DEF IInv
<1>1. CASE ReleaseLast
  <2>1. /\ pc = "idle" /\ refs = 1 /\ refs' = 0 /\ current' = NoBatch
        /\ cursor' = EmptyCursors /\ zoneValues' = NoZoneValues
        /\ UNCHANGED <<pc, pos, offset, returned, err, emitted, end, skipUntil, chk, col,
                       cols, codes, loaded, zoneLen, canceled, held>>
    BY <1>1 DEF ReleaseLast, nextVars
  <2>2. refcnt' \in [Blocks -> Int]
    BY <1>1, AccountType, ReleasedType DEF TypeOK, ReleaseLast
  <2>3. cursor' \in [Columns -> Cursors]
    BY <2>1 DEF TypeOK, EmptyCursors, NoCursor, Cursors
  <2>4. current' \in Batches /\ zoneValues' \in [1..Len(Zones) -> BOOLEAN]
    BY <2>1 DEF NoBatch, Batches, NoZoneValues
  <2>5. TypeOK'
    BY <2>1, <2>2, <2>3, <2>4, PlanAssumption DEF TypeOK
  <2>6. CursorInv'
    <3>1. \A c \in Columns : cursor'[c].cached = 0 /\ cursor'[c].index = cursor[c].index
      BY <2>1 DEF EmptyCursors, NoCursor
    <3> QED BY <2>1, <3>1 DEF CursorInv, Behind, InColumn
  <2>7. ControlInv' /\ ZoneInv'
    BY <2>1 DEF ControlInv, ZoneInv, Scanning
  <2>8. CheckInv' /\ PruningExact' /\ NoGapNoStall'
    BY <2>1 DEF CheckInv, PruningExact, NoGapNoStall
  <2> QED BY <2>5, <2>6, <2>7, <2>8
<1>2. ASSUME UNCHANGED <<pc, readerVars, nextVars, cursor, zoneVars>>, TypeOK',
             refs' = 0 <=> refs = 0
      PROVE  IInv'
  <2>1. UNCHANGED <<pc, pos, offset, current, returned, err, emitted, end, skipUntil, chk, col,
                    cols, codes, cursor, loaded, zoneLen, zoneValues>>
    BY <1>2 DEF readerVars, nextVars, zoneVars
  <2>2. ControlInv' /\ ZoneInv'
    BY <1>2, <2>1 DEF ControlInv, ZoneInv, Scanning, Zone
  <2>3. CursorInv'
    BY <2>1 DEF CursorInv, Behind, Covers, InColumn
  <2>4. CheckInv'
    BY <2>1 DEF CheckInv, PrunedBy
  <2>5. PruningExact' /\ NoGapNoStall'
    BY <2>1 DEF PruningExact, Pruned, NoGapNoStall
  <2> QED BY <1>2, <2>2, <2>3, <2>4, <2>5
<1>3. CASE Cancel
  <2>1. TypeOK'
    BY <1>3 DEF TypeOK, Cancel, readerVars, nextVars, zoneVars
  <2> QED BY <1>2, <1>3, <2>1 DEF Cancel
<1>4. MaxRefs \in Nat \ {0} /\ refs \in 0..MaxRefs
  BY PlanAssumption DEF TypeOK
<1>5. CASE Retain
  <2>1. refs' \in 0..MaxRefs /\ refs' # 0 /\ refs # 0
    BY <1>4, <1>5 DEF Retain
  <2>2. TypeOK'
    BY <1>5, <2>1 DEF TypeOK, Retain, readerVars, nextVars, zoneVars
  <2> QED BY <1>2, <1>5, <2>1, <2>2 DEF Retain
<1>6. CASE ReleaseShared
  <2>1. refs' \in 0..MaxRefs /\ refs' # 0 /\ refs # 0
    BY <1>4, <1>6 DEF ReleaseShared
  <2>2. TypeOK'
    BY <1>6, <2>1 DEF TypeOK, ReleaseShared, readerVars, nextVars, zoneVars
  <2> QED BY <1>2, <1>6, <2>1, <2>2 DEF ReleaseShared
<1>7. CASE RetainBatch
  <2>1. TypeOK'
    BY <1>7 DEF TypeOK, RetainBatch, readerVars, nextVars, zoneVars
  <2> QED BY <1>2, <1>7, <2>1 DEF RetainBatch
<1>8. CASE ReleaseBatch
  <2>1. refcnt' \in [Blocks -> Int]
    <3>1. PICK b \in held : Account(<<>>, <<IF b = current THEN {} ELSE b.blocks>>)
      BY <1>8 DEF ReleaseBatch
    <3> QED BY <3>1, AccountType, SmallAccount DEF TypeOK
  <2>2. held' \subseteq held
    BY <1>8 DEF ReleaseBatch
  <2>3. TypeOK'
    BY <1>8, <2>1, <2>2 DEF TypeOK, ReleaseBatch, readerVars, nextVars, zoneVars
  <2> QED BY <1>2, <1>8, <2>3 DEF ReleaseBatch
<1> QED BY <1>1, <1>3, <1>5, <1>6, <1>7, <1>8 DEF Consumer

-----------------------------------------------------------------------------
(* The invariant.                                                          *)

LEMMA InitInv == ASSUME Init PROVE IInv
<1>1. TypeOK
  <2>1. cursor \in [Columns -> Cursors] /\ refcnt \in [Blocks -> Int]
    BY DEF Init, NoCursor, Cursors
  <2>2. zoneLen \in [1..Len(Zones) -> Nat] /\ zoneValues \in [1..Len(Zones) -> BOOLEAN]
        /\ loaded \in [1..Len(Zones) -> BOOLEAN]
    BY PlanFacts DEF Init, NoZoneValues
  <2>3. current \in Batches /\ held \subseteq Batches
    BY DEF Init, NoBatch, Batches
  <2>4. refs \in 0..MaxRefs
    BY PlanAssumption DEF Init
  <2>5. pos \in 0..Rows /\ offset \in 0..Rows /\ end \in 0..Rows /\ skipUntil \in 0..Rows
        /\ chk \in 1..(Len(Checks) + 1) /\ col \in 1..(NumCols + 1)
    BY PlanFacts DEF Init
  <2> QED BY <2>1, <2>2, <2>3, <2>4, <2>5 DEF TypeOK, Init, PCs, Errors
<1>2. ControlInv
  BY DEF ControlInv, Init, Scanning
<1>3. CursorInv
  BY PlanFacts DEF CursorInv, Behind, Init, NoCursor, InColumn
<1>4. ZoneInv /\ CheckInv /\ PruningExact /\ NoGapNoStall
  BY PlanFacts DEF ZoneInv, CheckInv, PruningExact, NoGapNoStall, Init
<1> QED BY <1>1, <1>2, <1>3, <1>4 DEF IInv

LEMMA StutterInv == ASSUME IInv, UNCHANGED vars PROVE IInv'
<1>1. UNCHANGED <<pc, pos, offset, current, returned, err, emitted, end, skipUntil, chk, col,
                  cols, codes, cursor, loaded, zoneLen, zoneValues, refs, canceled, held,
                  refcnt>>
  BY DEF vars, readerVars, nextVars, zoneVars, outerVars
<1>2. TypeOK'
  BY <1>1 DEF IInv, TypeOK
<1>3. ControlInv' /\ ZoneInv'
  BY <1>1 DEF IInv, ControlInv, ZoneInv, Scanning, Zone
<1>4. CursorInv'
  BY <1>1 DEF IInv, CursorInv, Behind, Covers, InColumn
<1>5. CheckInv' /\ PruningExact' /\ NoGapNoStall'
  BY <1>1 DEF IInv, CheckInv, PrunedBy, PruningExact, Pruned, NoGapNoStall
<1> QED BY <1>2, <1>3, <1>4, <1>5 DEF IInv

LEMMA Inductive == ASSUME IInv, [Next]_vars PROVE IInv'
<1>1. CASE Call
  BY <1>1, CallInv
<1>2. CASE EndOfRows \/ LoopBegins \/ CancelSeen
  BY <1>2, LoopInv
<1>3. CASE CheckOutside \/ EvaluateUnusable \/ Evaluate
  BY <1>3, EvaluateInv
<1>4. CASE LoadBegins \/ LoadSucceeds \/ LoadGivenUp \/ LoadFatal
  BY <1>4, LoadInv, FailInv
<1>5. CASE SkipZone \/ KeepZone
  BY <1>5, SkipInv
<1>6. CASE LocatePiece \/ Located
  BY <1>6, LocateInv
<1>7. CASE ReadCached \/ DecodeValues \/ DecodeCodes \/ DecodeDictionary \/ TakeValues
  BY <1>7, ReadInv
<1>8. CASE DecodeFails \/ TakeFails
  BY <1>8, FailInv
<1>9. CASE Emit
  BY <1>9, EmitInv
<1>10. CASE Consumer
  BY <1>10, ConsumerInv
<1>11. CASE UNCHANGED vars
  BY <1>11, StutterInv
<1> QED BY <1>1, <1>2, <1>3, <1>4, <1>5, <1>6, <1>7, <1>8, <1>9, <1>10, <1>11 DEF Next, Step

(* Whatever Next, its consumer and its canceler do, the invariant holds.    *)
THEOREM Invariance == Spec => []IInv
<1>1. Init => IInv
  BY InitInv
<1>2. IInv /\ [Next]_vars => IInv'
  BY Inductive
<1> QED BY <1>1, <1>2, PTL DEF Spec

(* Every field of the reader, the cursors and the zones keeps its type.     *)
THEOREM TypeCorrect == Spec => []TypeOK
<1>1. IInv => TypeOK
  BY DEF IInv
<1> QED BY <1>1, Invariance, PTL

(* Next never asks array.NewSlice for rows outside a decoded array, however *)
(* pieces, zones and batch size fall.                                       *)
THEOREM SlicesInBounds == Spec => []SliceInBounds
<1>1. IInv => SliceInBounds
  BY DEF IInv, SliceInBounds, ControlInv, CursorInv, Covers, Scanning, InColumn
<1> QED BY <1>1, Invariance, PTL

(* On any plan that tiles the rows, the errors for a gap in the pieces and  *)
(* for a loop that does not advance are never returned.                     *)
THEOREM NeverGapNorStall == Spec => []NoGapNoStall
<1>1. IInv => NoGapNoStall
  BY DEF IInv
<1> QED BY <1>1, Invariance, PTL

(* What the statistics in use exclude is neither decoded nor returned.      *)
THEOREM PrunesExactly == Spec => []PruningExact
<1>1. IInv => PruningExact
  BY DEF IInv
<1> QED BY <1>1, Invariance, PTL

(* While the source reports no deadline of its own, reading the statistics  *)
(* never ends a scan whose context is live.                                 *)
THEOREM StatsOptional ==
  ASSUME "deadline" \notin Faults
  PROVE  Spec => StatsNeverFatal
<1> DEFINE Kept == pc = "load" /\ ~canceled /\ err = "none" => err' = "none"
<1>1. ASSUME [Next]_vars PROVE [Kept]_vars
  <2> SUFFICES ASSUME pc = "load", ~canceled, err = "none" PROVE err' = "none"
    OBVIOUS
  <2>1. ~LoadFatal
    BY PlanAssumption DEF LoadFatal, Outcomes, Fatal
  <2>2. CASE UNCHANGED vars
    BY <2>2 DEF vars, readerVars
  <2>3. CASE Consumer
    BY <2>3 DEF Consumer, Cancel, Retain, ReleaseShared, ReleaseLast, RetainBatch, ReleaseBatch,
                readerVars
  <2>4. CASE LoadSucceeds \/ LoadGivenUp
    BY <2>4 DEF LoadSucceeds, LoadGivenUp, Checked, readerVars
  <2>5. ~Call
    BY DEF Call, CallRefused, CallCanceled, CallBegins, Callable
  <2>6. Step => LoadSucceeds \/ LoadGivenUp \/ LoadFatal
    BY DEF Step, EndOfRows, LoopBegins, CancelSeen, CheckOutside, EvaluateUnusable, Evaluate,
           Inside, Checking, SkipZone, KeepZone, LoadBegins, LocatePiece, Located, Reading,
           Missing, ReadCached, DecodeValues, DecodeCodes, DecodeDictionary, DecodeFails,
           TakeValues, TakeFails, Emit
  <2> QED BY <1>1, <2>1, <2>2, <2>3, <2>4, <2>5, <2>6 DEF Next
<1> QED BY <1>1, PTL DEF Spec, StatsNeverFatal

-----------------------------------------------------------------------------
(***************************************************************************)
(* The scan implements the stream of rows.  The position is the stream's,  *)
(* the current batch its batch, and its status is read off the reader's    *)
(* references, its error and what Next returned last.  Every action is one *)
(* step of the stream or none:                                             *)
(*   SkipZone                        PassOver                              *)
(*   Emit                            Deliver                               *)
(*   CallBegins, CallRefused         Drop                                  *)
(*   EndOfRows                       Finish, or none when already done     *)
(*   whatever fails, CallCanceled    Fail                                  *)
(*   ReleaseLast                     Close                                 *)
(*   all others                      none                                  *)
(***************************************************************************)

LEMMA InitMaps == ASSUME Init PROVE Stream!Init
BY DEF Init, Stream!Init, BatchRows, Status

LEMMA StutterMaps ==
  ASSUME UNCHANGED readerVars, refs' = 0 <=> refs = 0
  PROVE  UNCHANGED Stream!vars
BY DEF readerVars, Stream!vars, BatchRows, Status

LEMMA FailMaps ==
  ASSUME refs # 0, err = "none", NEW e, e # "none", ReturnFalse(e)
  PROVE  Stream!Fail
BY DEF ReturnFalse, outerVars, Stream!Fail, BatchRows, Status

LEMMA EndMaps == ASSUME IInv, EndOfRows PROVE [Stream!Next]_(Stream!vars)
<1>1. /\ refs # 0 /\ err = "none" /\ current = NoBatch
  BY DEF IInv, ControlInv, EndOfRows
<1>2. pos = Rows
  BY PlanFacts DEF IInv, TypeOK, EndOfRows
<1>3. /\ returned' = "false" /\ err' = "none" /\ current' = NoBatch
      /\ UNCHANGED <<pos, emitted, refs>>
  BY DEF EndOfRows, ReturnFalse, outerVars
<1>4. BatchRows = {} /\ BatchRows' = {} /\ Status' = "done"
  BY <1>1, <1>3 DEF BatchRows, Status
<1>5. CASE returned = "false"
  BY <1>1, <1>3, <1>4, <1>5 DEF Status, Stream!vars
<1>6. CASE returned # "false"
  <2>1. Status = "open"
    BY <1>1, <1>6 DEF Status
  <2>2. Stream!Finish
    BY <1>2, <1>3, <1>4, <2>1 DEF Stream!Finish
  <2> QED BY <2>2 DEF Stream!Next
<1> QED BY <1>5, <1>6

\* While rows are being scanned the stream is open and holds no batch.
LEMMA ScanningIsOpen ==
  ASSUME IInv, pc \in Scanning
  PROVE  /\ refs # 0 /\ err = "none" /\ returned # "false" /\ current = NoBatch
         /\ Status = "open" /\ BatchRows = {}
         /\ pos \in Nat /\ end \in Nat /\ pos < end /\ end <= Rows /\ pos < Rows
<1>1. /\ refs # 0 /\ err = "none" /\ current = NoBatch /\ pos < Rows /\ pos < end
      /\ pos \in Nat /\ end \in Nat /\ end <= Rows
  BY PlanFacts DEF IInv, ControlInv, TypeOK, Scanning
<1>2. returned # "false"
  BY <1>1, PlanFacts DEF IInv, ControlInv
<1> QED BY <1>1, <1>2 DEF Status, BatchRows

LEMMA EmitMaps == ASSUME IInv, Emit PROVE Stream!Deliver
<1>1. Status = "open" /\ BatchRows = {} /\ pos \in Nat /\ end \in Nat /\ pos < end
      /\ end <= Rows /\ refs # 0 /\ err = "none"
  BY ScanningIsOpen DEF Emit, Scanning
<1>2. /\ returned' = "true" /\ err' = err /\ refs' = refs /\ offset' = pos /\ pos' = end
      /\ current' = [from |-> pos, to |-> end, blocks |-> cols]
      /\ emitted' = emitted \cup (pos..(end - 1))
  BY DEF Emit, outerVars
<1>3. current' # NoBatch
  <2>1. current'.from = pos /\ current'.to = end
    BY <1>2
  <2>2. NoBatch.from = 0 /\ NoBatch.to = 0
    BY DEF NoBatch
  <2> QED BY <1>1, <2>1, <2>2
<1>4. BatchRows' = pos..(end - 1)
  <2>1. BatchRows' = pos..(pos + end - pos - 1)
    BY <1>2, <1>3 DEF BatchRows
  <2> QED BY <1>1, <2>1
<1>5. Status' = "open"
  BY <1>1, <1>2 DEF Status
<1>6. end \in (pos + 1)..Rows
  BY <1>1, PlanFacts
<1> QED BY <1>1, <1>2, <1>4, <1>5, <1>6 DEF Stream!Deliver

LEMMA SkipMaps == ASSUME IInv, SkipZone PROVE Stream!PassOver
<1>1. Status = "open" /\ refs # 0 /\ err = "none" /\ returned # "false" /\ pos \in Nat
  BY ScanningIsOpen DEF SkipZone, Scanning
<1>2. /\ pos' = skipUntil /\ skipUntil > pos /\ pc = "check"
      /\ UNCHANGED <<offset, current, returned, err, emitted, refs>>
  BY DEF SkipZone, SkipTarget, outerVars
<1>3. skipUntil \in (pos + 1)..Rows
  BY <1>1, <1>2, PlanFacts DEF IInv, TypeOK
<1>4. Wanted \cap (pos..(skipUntil - 1)) = {}
  BY <1>2 DEF IInv, CheckInv
<1>5. BatchRows' = BatchRows /\ Status' = Status
  BY <1>2 DEF BatchRows, Status
<1> QED BY <1>1, <1>2, <1>3, <1>4, <1>5 DEF Stream!PassOver

LEMMA CallMaps == ASSUME IInv, Call PROVE [Stream!Next]_(Stream!vars)
<1>1. CASE CallRefused
  <2>1. Stream!Drop
    BY <1>1 DEF CallRefused, outerVars, Stream!Drop, BatchRows, Status
  <2> QED BY <2>1 DEF Stream!Next
<1>2. CASE CallCanceled
  <2>1. Stream!Fail
    BY <1>2, FailMaps DEF CallCanceled, Callable
  <2> QED BY <2>1 DEF Stream!Next
<1>3. CASE CallBegins
  <2>1. Stream!Drop
    BY <1>3 DEF CallBegins, outerVars, Stream!Drop, BatchRows, Status
  <2> QED BY <2>1 DEF Stream!Next
<1> QED BY <1>1, <1>2, <1>3 DEF Call

LEMMA FailuresMap ==
  ASSUME IInv,
         \/ CancelSeen \/ LoadFatal \/ DecodeFails \/ TakeFails
         \/ ReturnFalse("gap") /\ pc = "locate"
         \/ ReturnFalse("stuck") /\ pc = "locate"
  PROVE  Stream!Fail
<1>1. pc # "idle"
  BY DEF CancelSeen, LoadFatal, DecodeFails, TakeFails, Missing, Reading
<1>2. refs # 0 /\ err = "none"
  BY <1>1 DEF IInv, ControlInv
<1>3. \E e : e # "none" /\ ReturnFalse(e)
  <2>1. \A e \in Outcomes : e # "none"
    BY PlanAssumption DEF Outcomes
  <2> QED BY <2>1 DEF CancelSeen, LoadFatal, DecodeFails, SourceFails, TakeFails
<1> QED BY <1>2, <1>3, FailMaps

LEMMA LocateMaps == ASSUME IInv, LocatePiece \/ Located PROVE [Stream!Next]_(Stream!vars)
<1>1. CASE UNCHANGED readerVars /\ UNCHANGED outerVars
  BY <1>1, StutterMaps DEF outerVars
<1>2. CASE ReturnFalse("gap") \/ ReturnFalse("stuck")
  BY <1>2, FailuresMap DEF LocatePiece, Located, Stream!Next
<1> QED BY <1>1, <1>2 DEF LocatePiece, Located

LEMMA ConsumerMaps == ASSUME IInv, Consumer PROVE [Stream!Next]_(Stream!vars)
<1>1. CASE ReleaseLast
  <2>1. Stream!Close
    BY <1>1 DEF ReleaseLast, Stream!Close, BatchRows, Status
  <2> QED BY <2>1 DEF Stream!Next
<1>2. CASE Cancel \/ RetainBatch \/ ReleaseBatch
  BY <1>2, StutterMaps DEF Cancel, RetainBatch, ReleaseBatch
<1>3. CASE Retain \/ ReleaseShared
  <2>1. refs \in Int
    BY PlanAssumption DEF IInv, TypeOK
  <2>2. refs' # 0 /\ refs # 0
    BY <1>3, <2>1 DEF Retain, ReleaseShared
  <2> QED BY <1>3, <2>2, StutterMaps DEF Retain, ReleaseShared
<1> QED BY <1>1, <1>2, <1>3 DEF Consumer

LEMMA StepMaps == ASSUME IInv, [Next]_vars PROVE [Stream!Next]_(Stream!vars)
<1>1. CASE Call
  BY <1>1, CallMaps
<1>2. CASE EndOfRows
  BY <1>2, EndMaps
<1>3. CASE CancelSeen \/ LoadFatal \/ DecodeFails \/ TakeFails
  BY <1>3, FailuresMap DEF Stream!Next
<1>4. CASE SkipZone
  BY <1>4, SkipMaps DEF Stream!Next
<1>5. CASE LocatePiece \/ Located
  BY <1>5, LocateMaps
<1>6. CASE Emit
  BY <1>6, EmitMaps DEF Stream!Next
<1>7. CASE LoopBegins \/ CheckOutside \/ EvaluateUnusable \/ Evaluate \/ KeepZone
             \/ LoadBegins \/ LoadSucceeds \/ LoadGivenUp
  BY <1>7, StutterMaps
  DEF LoopBegins, CheckOutside, EvaluateUnusable, Evaluate, KeepZone, LoadBegins, LoadSucceeds,
      LoadGivenUp, Checked, outerVars
<1>8. CASE ReadCached \/ DecodeValues \/ DecodeCodes \/ DecodeDictionary \/ TakeValues
  BY <1>8, StutterMaps
  DEF ReadCached, DecodeValues, DecodeCodes, DecodeDictionary, TakeValues, TakeSlice, outerVars
<1>9. CASE Consumer
  BY <1>9, ConsumerMaps
<1>10. CASE UNCHANGED vars
  BY <1>10, StutterMaps DEF vars, outerVars
<1> QED BY <1>1, <1>2, <1>3, <1>4, <1>5, <1>6, <1>7, <1>8, <1>9, <1>10 DEF Next, Step

(* Every scan of every plan is a stream of rows: batches contiguous and in  *)
(* order, only unwanted ranges passed over, the end reported once at the    *)
(* last row, nothing after a failure.                                       *)
THEOREM Implements == Spec => ImplementsRowStream
<1>1. Init => Stream!Init
  BY InitMaps
<1>2. IInv /\ [Next]_vars => [Stream!Next]_(Stream!vars)
  BY StepMaps
<1> QED BY <1>1, <1>2, Invariance, PTL DEF Spec, Stream!Spec, ImplementsRowStream

-----------------------------------------------------------------------------
(* A stream of rows loses none.  What was delivered, and what was passed    *)
(* over, lies behind its position.                                          *)
StreamInv ==
  /\ pos \in 0..Rows
  /\ Wanted \cap (0..(pos - 1)) \subseteq emitted
  /\ emitted \subseteq 0..(pos - 1)
  /\ Status = "done" => pos = Rows

LEMMA StreamStep == ASSUME StreamInv, [Stream!Next]_(Stream!vars) PROVE StreamInv'
<1> USE DEF StreamInv
<1>1. CASE Stream!PassOver
  <2>1. PICK n \in (pos + 1)..Rows : Wanted \cap (pos..(n - 1)) = {} /\ pos' = n
    BY <1>1 DEF Stream!PassOver
  <2>2. Wanted \cap (0..(n - 1)) \subseteq emitted
    <3>1. ASSUME NEW r \in Wanted, r \in 0..(n - 1) PROVE r \in 0..(pos - 1)
      BY <2>1, <3>1
    <3> QED BY <3>1
  <2>3. emitted \subseteq 0..(n - 1)
    BY <2>1
  <2>4. emitted' = emitted /\ Status' = Status /\ Status = "open"
    BY <1>1 DEF Stream!PassOver
  <2> QED BY <2>1, <2>2, <2>3, <2>4, PlanFacts
<1>2. CASE Stream!Deliver
  <2>1. PICK n \in (pos + 1)..Rows : BatchRows' = pos..(n - 1) /\ pos' = n
    BY <1>2 DEF Stream!Deliver
  <2>2. emitted' = emitted \cup (pos..(n - 1)) /\ Status' = Status /\ Status = "open"
    BY <1>2, <2>1 DEF Stream!Deliver
  <2>3. Wanted \cap (0..(n - 1)) \subseteq emitted'
    <3>1. ASSUME NEW r \in Wanted, r \in 0..(n - 1)
          PROVE  r \in 0..(pos - 1) \/ r \in pos..(n - 1)
      BY <2>1, <3>1
    <3> QED BY <2>2, <3>1
  <2>4. emitted' \subseteq 0..(n - 1)
    BY <2>1, <2>2
  <2> QED BY <2>1, <2>2, <2>3, <2>4, PlanFacts
<1>3. CASE Stream!Finish
  BY <1>3 DEF Stream!Finish
<1>4. CASE Stream!Drop \/ UNCHANGED Stream!vars
  BY <1>4 DEF Stream!Drop, Stream!vars
<1>5. CASE Stream!Fail \/ Stream!Close
  BY <1>5 DEF Stream!Fail, Stream!Close
<1> QED BY <1>1, <1>2, <1>3, <1>4, <1>5 DEF Stream!Next

(* A stream of rows delivers every wanted row it moves past, whatever its   *)
(* batches and whichever ranges it passes over.                             *)
THEOREM StreamLosesNone == ImplementsRowStream => []NoWantedRowLost
<1>1. Stream!Init => StreamInv
  BY PlanFacts DEF Stream!Init, StreamInv
<1>2. StreamInv /\ [Stream!Next]_(Stream!vars) => StreamInv'
  BY StreamStep
<1>3. StreamInv => NoWantedRowLost
  BY PlanAssumption DEF StreamInv, NoWantedRowLost, Stream!NoWantedRowLost
<1> QED BY <1>1, <1>2, <1>3, PTL DEF ImplementsRowStream, Stream!Spec

(* A row that satisfies every predicate is returned before the scan is past *)
(* it, and all of them are when Next reports the end of the rows.           *)
THEOREM WantedRowsReturned == Spec => []NoWantedRowLost
BY Implements, StreamLosesNone, PTL

-----------------------------------------------------------------------------
(* Ownership: each decoded array has as many references as there are        *)
(* places that hold it, and once Next has returned false only the batches   *)
(* the consumer retained are alive.                                         *)
(*                                                                          *)
(* Counting needs to know that what a step adds was not there before: that  *)
(* a new batch is none of those held, that a slice taken is the first of    *)
(* its column, that the codes, the values a read replaces and the table a   *)
(* load fills are gone or not there yet.                                    *)

Decoding == {"dict", "take"}

\* The batches a consumer keeps are finitely many and lie before the position.
HeldInv ==
  /\ IsFiniteSet(held)
  /\ \A B \in held : B.from < B.to /\ B.to <= pos

\* Next holds slices of the columns already read, and codes or a replaced
\* array's place only while it decodes a dictionary.
LocalsInv ==
  /\ pc \notin InColumn => cols = {}
  /\ \A b \in cols : \E c \in 1..(col - 1), i \in Nat : b = Values(c, i)
  /\ pc \notin Decoding => codes = 0
  /\ pc \in Decoding => cursor[col].values = 0 /\ Piece.dict # 0

\* A reader that returned false, failed or was closed caches nothing.
Emptied ==
  /\ current = NoBatch
  /\ \A c \in Columns : cursor[c].values = 0 /\ cursor[c].dictValues = 0
  /\ \A z \in 1..Len(Zones) : ~zoneValues[z]

EmptiedInv == pc = "idle" /\ (returned = "false" \/ refs = 0 \/ err # "none") => Emptied

\* A table is read once.
TablesInv ==
  /\ \A z \in 1..Len(Zones) : zoneValues[z] => loaded[z]
  /\ pc = "load" => loaded[Zone] /\ ~zoneValues[Zone]

OwnedInv == HeldInv /\ LocalsInv /\ EmptiedInv /\ TablesInv

-----------------------------------------------------------------------------
(* Counting.                                                               *)

In(b, S) == IF b \in S THEN 1 ELSE 0

\* How many batches of a set have a slice of b.
InBatches(b, batches) == Cardinality({B \in batches : b \in B.blocks})

\* How often b is in the first n sets of s.
First(b, s, n) == Cardinality({i \in 1..n : b \in s[i]})

\* One set more is one occurrence more, or none.
LEMMA FirstNext ==
  ASSUME NEW n \in Nat, NEW s, NEW b
  PROVE  First(b, s, n) \in Nat /\ First(b, s, n + 1) = First(b, s, n) + In(b, s[n + 1])
<1> DEFINE T == {i \in 1..n : b \in s[i]}
           U == {i \in 1..(n + 1) : b \in s[i]}
<1>1. First(b, s, n) = Cardinality(T) /\ First(b, s, n + 1) = Cardinality(U)
  BY DEF First
<1>2. IsFiniteSet(T) /\ Cardinality(T) \in Nat
  <2>1. IsFiniteSet(1..n)
    BY FS_Interval
  <2> QED BY <2>1, FS_Subset, FS_CardinalityType, T \subseteq 1..n
<1>3. CASE b \in s[n + 1]
  <2>1. U = T \cup {n + 1}
    BY <1>3
  <2>2. n + 1 \notin T
    OBVIOUS
  <2> HIDE DEF T, U
  <2>3. Cardinality(T \cup {n + 1}) = Cardinality(T) + 1
    BY <1>2, <2>2, FS_AddElement
  <2> QED BY <1>1, <1>2, <1>3, <2>1, <2>3 DEF In
<1>4. CASE b \notin s[n + 1]
  <2>1. U = T
    BY <1>4
  <2> HIDE DEF T, U
  <2> QED BY <1>1, <1>2, <1>4, <2>1 DEF In
<1> QED BY <1>3, <1>4

(* The counts of the short sequences the steps account for.                *)
LEMMA TimesOf ==
  ASSUME NEW b, NEW s
  PROVE  /\ Len(s) = 0 => Times(b, s) = 0
         /\ Len(s) = 1 => Times(b, s) = In(b, s[1])
         /\ Len(s) = 2 => Times(b, s) = In(b, s[1]) + In(b, s[2])
         /\ Len(s) = 3 => Times(b, s) = In(b, s[1]) + In(b, s[2]) + In(b, s[3])
         /\ Len(s) = 4 => Times(b, s) = In(b, s[1]) + In(b, s[2]) + In(b, s[3]) + In(b, s[4])
         /\ Len(s) = 5 => Times(b, s) = In(b, s[1]) + In(b, s[2]) + In(b, s[3]) + In(b, s[4])
                                          + In(b, s[5])
<1>1. Times(b, s) = First(b, s, Len(s))
  BY DEF Times, First
<1>2. First(b, s, 0) = 0
  <2>1. {i \in 1..0 : b \in s[i]} = {}
    OBVIOUS
  <2> QED BY <2>1, FS_EmptySet DEF First
<1>3. \A n \in 0..4 : First(b, s, n + 1) = First(b, s, n) + In(b, s[n + 1])
  BY FirstNext
<1>4. \A n \in 1..5 : In(b, s[n]) \in Nat
  BY DEF In
<1>5. First(b, s, 0 + 1) = First(b, s, 0) + In(b, s[0 + 1])
  BY <1>3
<1>6. First(b, s, 1 + 1) = First(b, s, 1) + In(b, s[1 + 1])
  BY <1>3
<1>7. First(b, s, 2 + 1) = First(b, s, 2) + In(b, s[2 + 1])
  BY <1>3
<1>8. First(b, s, 3 + 1) = First(b, s, 3) + In(b, s[3 + 1])
  BY <1>3
<1>9. First(b, s, 4 + 1) = First(b, s, 4) + In(b, s[4 + 1])
  BY <1>3
<1>10. /\ First(b, s, 1) = In(b, s[1])
       /\ First(b, s, 2) = First(b, s, 1) + In(b, s[2])
       /\ First(b, s, 3) = First(b, s, 2) + In(b, s[3])
       /\ First(b, s, 4) = First(b, s, 3) + In(b, s[4])
       /\ First(b, s, 5) = First(b, s, 4) + In(b, s[5])
  BY <1>2, <1>4, <1>5, <1>6, <1>7, <1>8, <1>9
<1> QED BY <1>1, <1>2, <1>10

(* The same, of the tuples themselves.                                     *)
LEMMA TimesNone == \A b : Times(b, <<>>) = 0
BY TimesOf

LEMMA TimesOne ==
  ASSUME NEW b, NEW A
  PROVE  Times(b, <<A>>) = In(b, A)
<1> DEFINE s == <<A>>
<1>1. Len(s) = 1 /\ s[1] = A
  OBVIOUS
<1> HIDE DEF s
<1>2. Times(b, s) = In(b, A)
  BY <1>1, TimesOf
<1> QED BY <1>2 DEF s

LEMMA TimesTwo ==
  ASSUME NEW b, NEW A, NEW B
  PROVE  Times(b, <<A, B>>) = In(b, A) + In(b, B)
<1> DEFINE s == <<A, B>>
<1>1. Len(s) = 2 /\ s[1] = A /\ s[2] = B
  OBVIOUS
<1> HIDE DEF s
<1>2. Times(b, s) = In(b, A) + In(b, B)
  BY <1>1, TimesOf
<1> QED BY <1>2 DEF s

LEMMA TimesThree ==
  ASSUME NEW b, NEW A, NEW B, NEW C
  PROVE  Times(b, <<A>> \o <<B, C>>) = In(b, A) + In(b, B) + In(b, C)
<1> DEFINE s == <<A>> \o <<B, C>>
<1>1. Len(s) = 3 /\ s[1] = A /\ s[2] = B /\ s[3] = C
  OBVIOUS
<1> HIDE DEF s
<1>2. Times(b, s) = In(b, A) + In(b, B) + In(b, C)
  BY <1>1, TimesOf
<1> QED BY <1>2 DEF s

LEMMA TimesFive ==
  ASSUME NEW b, NEW A, NEW B, NEW C, NEW D, NEW E
  PROVE  Times(b, <<A, B, C>> \o <<D, E>>) = In(b, A) + In(b, B) + In(b, C) + In(b, D) + In(b, E)
<1> DEFINE s == <<A, B, C>> \o <<D, E>>
<1>1. Len(s) = 5 /\ s[1] = A /\ s[2] = B /\ s[3] = C /\ s[4] = D /\ s[5] = E
  OBVIOUS
<1> HIDE DEF s
<1>2. Times(b, s) = In(b, A) + In(b, B) + In(b, C) + In(b, D) + In(b, E)
  BY <1>1, TimesOf
<1> QED BY <1>2 DEF s

LEMMA InType == \A b, S : In(b, S) \in Nat
BY DEF In

(* A batch more, or a batch less, in a set of batches.                     *)
LEMMA BatchMore ==
  ASSUME NEW b, NEW H, IsFiniteSet(H), NEW B, B \notin H
  PROVE  /\ IsFiniteSet(H \cup {B})
         /\ InBatches(b, H) \in Nat
         /\ InBatches(b, H \cup {B}) = InBatches(b, H) + In(b, B.blocks)
<1> DEFINE T == {X \in H : b \in X.blocks}
           U == {X \in H \cup {B} : b \in X.blocks}
<1>1. InBatches(b, H) = Cardinality(T) /\ InBatches(b, H \cup {B}) = Cardinality(U)
  BY DEF InBatches
<1>2. IsFiniteSet(T) /\ Cardinality(T) \in Nat
  BY FS_Subset, FS_CardinalityType, T \subseteq H
<1>3. IsFiniteSet(H \cup {B})
  BY FS_AddElement
<1>4. CASE b \in B.blocks
  <2>1. U = T \cup {B} /\ B \notin T
    BY <1>4
  <2> HIDE DEF T, U
  <2>2. Cardinality(T \cup {B}) = Cardinality(T) + 1
    BY <1>2, <2>1, FS_AddElement
  <2> QED BY <1>1, <1>2, <1>3, <1>4, <2>1, <2>2 DEF In
<1>5. CASE b \notin B.blocks
  <2>1. U = T
    BY <1>5
  <2> HIDE DEF T, U
  <2> QED BY <1>1, <1>2, <1>3, <1>5, <2>1 DEF In
<1> QED BY <1>4, <1>5

LEMMA BatchLess ==
  ASSUME NEW b, NEW H, IsFiniteSet(H), NEW B \in H
  PROVE  /\ IsFiniteSet(H \ {B})
         /\ InBatches(b, H \ {B}) \in Nat
         /\ InBatches(b, H) = InBatches(b, H \ {B}) + In(b, B.blocks)
<1> DEFINE G == H \ {B}
<1>1. IsFiniteSet(G)
  BY FS_Subset, G \subseteq H
<1>2. H = G \cup {B} /\ B \notin G
  OBVIOUS
<1> HIDE DEF G
<1>3. InBatches(b, G) \in Nat /\ InBatches(b, G \cup {B}) = InBatches(b, G) + In(b, B.blocks)
  BY <1>1, <1>2, BatchMore
<1> QED BY <1>1, <1>2, <1>3 DEF G

LEMMA InBatchesType == ASSUME NEW b, NEW H, IsFiniteSet(H) PROVE InBatches(b, H) \in Nat
<1> DEFINE T == {X \in H : b \in X.blocks}
<1>1. IsFiniteSet(T)
  BY FS_Subset, T \subseteq H
<1> QED BY <1>1, FS_CardinalityType DEF InBatches

\* The live batches are those held and the one that would be dropped.
LEMMA LiveShare ==
  ASSUME NEW b, NEW H, IsFiniteSet(H), NEW cur
  PROVE  InBatches(b, H \cup ({cur} \ {NoBatch}))
           = InBatches(b, H) + In(b, IF cur \in H THEN {} ELSE cur.blocks)
<1>1. InBatches(b, H) \in Nat
  BY InBatchesType
<1>2. CASE cur \in H
  <2>1. H \cup ({cur} \ {NoBatch}) = H
    BY <1>2
  <2> QED BY <1>1, <1>2, <2>1 DEF In
<1>3. CASE cur \notin H /\ cur = NoBatch
  <2>1. H \cup ({cur} \ {NoBatch}) = H
    BY <1>3
  <2>2. b \notin cur.blocks
    BY <1>3 DEF NoBatch
  <2>3. In(b, IF cur \in H THEN {} ELSE cur.blocks) = 0
    BY <1>3, <2>2 DEF In
  <2> QED BY <1>1, <2>1, <2>3
<1>4. CASE cur \notin H /\ cur # NoBatch
  <2>1. H \cup ({cur} \ {NoBatch}) = H \cup {cur}
    BY <1>4
  <2> QED BY <1>4, <2>1, BatchMore
<1> QED BY <1>2, <1>3, <1>4

\* Who holds b, holder by holder.
Shares(b) ==
  In(b, CachedColumns) + In(b, CachedZones) + In(b, CachedCodes) + In(b, cols)
    + InBatches(b, held) + In(b, Dropped)

SharesType(b) ==
  /\ In(b, CachedColumns) \in Nat /\ In(b, CachedZones) \in Nat /\ In(b, CachedCodes) \in Nat
  /\ In(b, cols) \in Nat /\ InBatches(b, held) \in Nat /\ In(b, Dropped) \in Nat

LEMMA SharesAreNats == ASSUME IsFiniteSet(held), NEW b PROVE SharesType(b)
BY InType, InBatchesType DEF SharesType

LEMMA HoldersAre ==
  /\ IsFiniteSet(held) => \A b : Holders(b) = Shares(b)
  /\ IsFiniteSet(held)' => \A b : Holders(b)' = Shares(b)'
<1>1. ASSUME IsFiniteSet(held), NEW b PROVE Holders(b) = Shares(b)
  <2>1. Cardinality({B \in Live : b \in B.blocks}) = InBatches(b, held) + In(b, Dropped)
    BY <1>1, LiveShare DEF InBatches, Live, Dropped
  <2>2. Times(b, <<CachedColumns, CachedZones, CachedCodes, cols>>)
          = In(b, CachedColumns) + In(b, CachedZones) + In(b, CachedCodes) + In(b, cols)
    <3> DEFINE s == <<CachedColumns, CachedZones, CachedCodes, cols>>
    <3>1. /\ Len(s) = 4 /\ s[1] = CachedColumns /\ s[2] = CachedZones
          /\ s[3] = CachedCodes /\ s[4] = cols
      OBVIOUS
    <3> HIDE DEF s
    <3>2. Times(b, s) = In(b, CachedColumns) + In(b, CachedZones) + In(b, CachedCodes)
                         + In(b, cols)
      BY <3>1, TimesOf
    <3> QED BY <3>2 DEF s
  <2>3. InBatches(b, held) \in Nat
    BY <1>1, InBatchesType
  <2> QED BY <2>1, <2>2, <2>3, InType DEF Holders, Shares
<1>2. ASSUME IsFiniteSet(held)', NEW b PROVE Holders(b)' = Shares(b)'
  <2>1. Cardinality({B \in Live' : b \in B.blocks}) = InBatches(b, held') + In(b, Dropped')
    BY <1>2, LiveShare DEF InBatches, Live, Dropped
  <2>2. Times(b, <<CachedColumns', CachedZones', CachedCodes', cols'>>)
          = In(b, CachedColumns') + In(b, CachedZones') + In(b, CachedCodes') + In(b, cols')
    <3> DEFINE s == <<CachedColumns, CachedZones, CachedCodes, cols>>
    <3>1. /\ Len(s') = 4 /\ s'[1] = CachedColumns' /\ s'[2] = CachedZones'
          /\ s'[3] = CachedCodes' /\ s'[4] = cols'
      OBVIOUS
    <3> HIDE DEF s
    <3>2. Times(b, s') = In(b, CachedColumns') + In(b, CachedZones') + In(b, CachedCodes')
                         + In(b, cols')
      BY <3>1, TimesOf
    <3> QED BY <3>2 DEF s
  <2>3. InBatches(b, held') \in Nat
    BY <1>2, InBatchesType
  <2> QED BY <2>1, <2>2, <2>3, InType DEF Holders, Shares
<1> QED BY <1>1, <1>2

(* Counts stay exact when the account is of what the holders gain and lose. *)
LEMMA Balanced ==
  ASSUME RefcountExact, IsFiniteSet(held), IsFiniteSet(held)',
         NEW gained, NEW lost, Account(gained, lost),
         \A b \in Blocks : Shares(b)' = Shares(b) + Times(b, gained) - Times(b, lost)
  PROVE  RefcountExact'
<1>1. ASSUME NEW b \in Blocks PROVE refcnt'[b] = Holders(b)'
  <2>1. refcnt'[b] = refcnt[b] + Times(b, gained) - Times(b, lost)
    BY DEF Account
  <2>2. refcnt[b] = Shares(b) /\ Holders(b)' = Shares(b)'
    BY HoldersAre DEF RefcountExact
  <2> QED BY <2>1, <2>2
<1>2. Blocks' = Blocks
  BY DEF Blocks, ColumnBlocks
<1> QED BY <1>1 DEF RefcountExact

-----------------------------------------------------------------------------
(* The caches of one column.                                               *)

ValuesIn(k, c) == {Values(c, i) : i \in {k[c].values} \ {0}}
DictionaryIn(k, c) == {Dictionary(c, d) : d \in {k[c].dictValues} \ {0}}
ColumnsIn(k, cs) == UNION {ValuesIn(k, c) \cup DictionaryIn(k, c) : c \in cs}

LEMMA CachesOfCursor ==
  /\ CachedColumns = ColumnsIn(cursor, Columns) /\ CachedColumns' = ColumnsIn(cursor', Columns)
  /\ \A c : CachedValues(c) = ValuesIn(cursor, c) /\ CachedDictionary(c) = DictionaryIn(cursor, c)
BY DEF CachedColumns, ColumnsIn, CachedValues, CachedDictionary, ValuesIn, DictionaryIn, Columns

\* A block of one column is no block of another, and its kind tells it apart.
LEMMA ColumnShare ==
  ASSUME NEW k, NEW c \in Columns, NEW b
  PROVE  In(b, ColumnsIn(k, Columns))
           = In(b, ColumnsIn(k, Columns \ {c})) + In(b, ValuesIn(k, c)) + In(b, DictionaryIn(k, c))
<1>1. b \in ColumnsIn(k, Columns)
        <=> b \in ColumnsIn(k, Columns \ {c}) \/ b \in ValuesIn(k, c) \/ b \in DictionaryIn(k, c)
  BY DEF ColumnsIn
<1>2. b \in ValuesIn(k, c) => b[1] = "values" /\ b[2] = c
  BY DEF ValuesIn, Values
<1>3. b \in DictionaryIn(k, c) => b[1] = "dict" /\ b[2] = c
  BY DEF DictionaryIn, Dictionary
<1>4. b \in ColumnsIn(k, Columns \ {c}) => b[2] # c
  BY DEF ColumnsIn, ValuesIn, DictionaryIn, Values, Dictionary
<1> QED BY <1>1, <1>2, <1>3, <1>4 DEF In

\* A step on column c leaves the caches of the others alone.
LEMMA ColumnMoves ==
  ASSUME NEW c \in Columns, NEW b,
         \A x \in Columns \ {c} : /\ cursor'[x].values = cursor[x].values
                                  /\ cursor'[x].dictValues = cursor[x].dictValues
  PROVE  In(b, CachedColumns)'
           = In(b, CachedColumns) - In(b, CachedValues(c)) - In(b, CachedDictionary(c))
               + In(b, ValuesIn(cursor', c)) + In(b, DictionaryIn(cursor', c))
<1>1. ColumnsIn(cursor', Columns \ {c}) = ColumnsIn(cursor, Columns \ {c})
  BY DEF ColumnsIn, ValuesIn, DictionaryIn
<1>2. In(b, ColumnsIn(cursor', Columns))
        = In(b, ColumnsIn(cursor', Columns \ {c})) + In(b, ValuesIn(cursor', c))
            + In(b, DictionaryIn(cursor', c))
  BY ColumnShare
<1>3. In(b, ColumnsIn(cursor, Columns))
        = In(b, ColumnsIn(cursor, Columns \ {c})) + In(b, ValuesIn(cursor, c))
            + In(b, DictionaryIn(cursor, c))
  BY ColumnShare
<1>4. In(b, CachedColumns)' = In(b, ColumnsIn(cursor', Columns))
  BY CachesOfCursor DEF In
<1>5. In(b, CachedColumns) = In(b, ColumnsIn(cursor, Columns))
      /\ In(b, CachedValues(c)) = In(b, ValuesIn(cursor, c))
      /\ In(b, CachedDictionary(c)) = In(b, DictionaryIn(cursor, c))
  BY CachesOfCursor
<1> QED BY <1>1, <1>2, <1>3, <1>4, <1>5, InType

-----------------------------------------------------------------------------
(* The steps.                                                              *)

Exact == IInv /\ OwnedInv /\ RefcountExact

(* Steps that neither take nor give up a reference.                        *)
LEMMA QuietExact ==
  ASSUME Exact,
         UNCHANGED <<zoneValues, current, held, codes, cols, refcnt>>,
         col' = col \/ codes = 0,
         \A c \in Columns : /\ cursor'[c].values = cursor[c].values
                            /\ cursor'[c].dictValues = cursor[c].dictValues
  PROVE  RefcountExact'
<1> USE DEF Exact, OwnedInv
<1>1. CachedColumns' = CachedColumns
  BY CachesOfCursor DEF ColumnsIn, ValuesIn, DictionaryIn
<1>2. CachedZones' = CachedZones /\ CachedCodes' = CachedCodes /\ Dropped' = Dropped
  BY DEF CachedZones, CachedCodes, Dropped
<1>3. \A b : Shares(b)' = Shares(b)
  BY <1>1, <1>2 DEF Shares, In, InBatches
<1>4. IsFiniteSet(held) /\ IsFiniteSet(held)'
  BY DEF HeldInv
<1>5. \A b \in Blocks : Holders(b)' = Holders(b)
  BY <1>3, <1>4, HoldersAre
<1>6. Blocks' = Blocks
  BY DEF Blocks, ColumnBlocks
<1> QED BY <1>5, <1>6 DEF RefcountExact

(* Returning false gives up everything but the batches held.               *)
LEMMA ReturnFalseExact ==
  ASSUME Exact, NEW e, ReturnFalse(e)
  PROVE  OwnedInv' /\ RefcountExact'
<1> USE DEF Exact, OwnedInv
<1>1. /\ pc' = "idle" /\ current' = NoBatch /\ cols' = {} /\ codes' = 0
      /\ cursor' = EmptyCursors /\ zoneValues' = NoZoneValues
      /\ Account(<<>>, <<Dropped, CachedCodes, cols>> \o Caches)
      /\ UNCHANGED <<pos, col, loaded, held>>
  BY DEF ReturnFalse, outerVars
<1>2. Emptied'
  BY <1>1 DEF Emptied, EmptyCursors, NoCursor, NoZoneValues
<1>3. OwnedInv'
  <2>1. HeldInv'
    BY <1>1 DEF HeldInv
  <2>2. LocalsInv' /\ EmptiedInv' /\ TablesInv'
    BY <1>1, <1>2 DEF LocalsInv, EmptiedInv, TablesInv, InColumn, Decoding, NoZoneValues
  <2> QED BY <2>1, <2>2
<1>4. RefcountExact'
  <2>1. CachedColumns' = {}
    BY <1>1 DEF CachedColumns, CachedValues, CachedDictionary, EmptyCursors, NoCursor
  <2>2. CachedZones' = {} /\ CachedCodes' = {} /\ cols' = {} /\ Dropped' = {}
    BY <1>1 DEF CachedZones, NoZoneValues, CachedCodes, Dropped, NoBatch
  <2>3. IsFiniteSet(held) /\ IsFiniteSet(held)'
    BY <1>1 DEF HeldInv
  <2>4. ASSUME NEW b \in Blocks
        PROVE  Shares(b)' = Shares(b) + Times(b, <<>>)
                              - Times(b, <<Dropped, CachedCodes, cols>> \o Caches)
    <3>1. Shares(b)' = InBatches(b, held)
      BY <1>1, <2>1, <2>2, <2>3, InBatchesType DEF Shares, In
    <3>2. Times(b, <<>>) = 0
      BY TimesNone
    <3>3. Times(b, <<Dropped, CachedCodes, cols>> \o Caches)
            = In(b, Dropped) + In(b, CachedCodes) + In(b, cols) + In(b, CachedColumns)
                + In(b, CachedZones)
      BY TimesFive DEF Caches
    <3>4. Shares(b) = In(b, CachedColumns) + In(b, CachedZones) + In(b, CachedCodes)
                        + In(b, cols) + InBatches(b, held) + In(b, Dropped)
      BY DEF Shares
    <3>5. SharesType(b)
      BY <2>3, SharesAreNats
    <3> QED BY <3>1, <3>2, <3>3, <3>4, <3>5, SMTT(30) DEF SharesType
  <2> QED BY <1>1, <2>3, <2>4, Balanced
<1> QED BY <1>3, <1>4

\* Dropping the current batch gives up its slices, unless the consumer holds it.
LEMMA DroppedExact ==
  ASSUME Exact, UNCHANGED <<cursor, zoneValues, held, codes, cols, col>>,
         current' = NoBatch, Account(<<>>, <<Dropped>>)
  PROVE  RefcountExact'
<1> USE DEF Exact, OwnedInv
<1>1. CachedColumns' = CachedColumns /\ CachedZones' = CachedZones /\ CachedCodes' = CachedCodes
  BY DEF CachedColumns, CachedValues, CachedDictionary, CachedZones, CachedCodes
<1>2. Dropped' = {}
  BY DEF Dropped, NoBatch
<1>3. IsFiniteSet(held) /\ IsFiniteSet(held)'
  BY DEF HeldInv
<1>4. ASSUME NEW b \in Blocks
      PROVE  Shares(b)' = Shares(b) + Times(b, <<>>) - Times(b, <<Dropped>>)
  <2>1. Shares(b)' = In(b, CachedColumns) + In(b, CachedZones) + In(b, CachedCodes)
                       + In(b, cols) + InBatches(b, held)
    <3>1. SharesType(b) /\ In(b, Dropped') = 0
      BY <1>2, <1>3, SharesAreNats DEF In
    <3> QED BY <1>1, <3>1 DEF Shares, SharesType
  <2>2. Times(b, <<>>) = 0 /\ Times(b, <<Dropped>>) = In(b, Dropped)
    BY TimesNone, TimesOne
  <2>3. Shares(b) = In(b, CachedColumns) + In(b, CachedZones) + In(b, CachedCodes)
                      + In(b, cols) + InBatches(b, held) + In(b, Dropped)
    BY DEF Shares
  <2>4. SharesType(b)
    BY <1>3, SharesAreNats
  <2> QED BY <2>1, <2>2, <2>3, <2>4 DEF SharesType
<1> QED BY <1>3, <1>4, Balanced

LEMMA CallExact == ASSUME Exact, Call PROVE OwnedInv' /\ RefcountExact'
<1> USE DEF Exact, OwnedInv
<1>1. CASE CallRefused
  <2>1. /\ pc = "idle" /\ (err # "none" \/ refs = 0)
        /\ current' = NoBatch /\ Account(<<>>, <<Dropped>>)
        /\ UNCHANGED <<pc, pos, err, cursor, loaded, zoneValues, refs, held, codes, cols, col>>
    BY <1>1 DEF CallRefused, nextVars, zoneVars, outerVars
  <2>2. RefcountExact'
    BY <2>1, DroppedExact
  <2>3. Emptied
    BY <2>1 DEF EmptiedInv
  <2>4. HeldInv' /\ LocalsInv'
    BY <2>1 DEF HeldInv, LocalsInv, InColumn, Decoding
  <2>5. EmptiedInv' /\ TablesInv'
    BY <2>1, <2>3 DEF EmptiedInv, Emptied, TablesInv
  <2> QED BY <2>2, <2>4, <2>5
<1>2. CASE CallCanceled
  BY <1>2, ReturnFalseExact DEF CallCanceled
<1>3. CASE CallBegins
  <2>1. /\ pc = "idle" /\ pc' = "loop" /\ current' = NoBatch /\ Account(<<>>, <<Dropped>>)
        /\ UNCHANGED <<pos, cursor, loaded, zoneValues, held, codes, cols, col>>
    BY <1>3 DEF CallBegins, Callable, nextVars, zoneVars, outerVars
  <2>2. RefcountExact'
    BY <2>1, DroppedExact
  <2>3. HeldInv' /\ LocalsInv' /\ EmptiedInv' /\ TablesInv'
    BY <2>1 DEF HeldInv, LocalsInv, InColumn, Decoding, EmptiedInv, TablesInv
  <2> QED BY <2>2, <2>3
<1> QED BY <1>1, <1>2, <1>3 DEF Call

(* Between the columns: the loop, the checks, the pieces.                  *)
LEMMA LoopExact ==
  ASSUME Exact,
         \/ LoopBegins \/ CheckOutside \/ EvaluateUnusable \/ Evaluate \/ LoadBegins
         \/ LoadGivenUp \/ SkipZone \/ KeepZone
  PROVE  OwnedInv' /\ RefcountExact'
<1> USE DEF Exact, OwnedInv
<1>1. /\ UNCHANGED <<zoneValues, current, held, codes, cols, cursor, refcnt>>
      /\ pc \in {"loop", "check", "load"} /\ pc' \in {"loop", "check", "load", "locate"}
  BY DEF LoopBegins, CheckOutside, EvaluateUnusable, Evaluate, LoadBegins, LoadGivenUp, SkipZone,
         KeepZone, Inside, Checking, Checked, readerVars, nextVars, zoneVars, outerVars
<1>2. pos \in Nat /\ pos' \in Nat /\ pos <= pos'
  <2>1. pos \in Nat /\ skipUntil \in Nat
    BY PlanFacts DEF IInv, TypeOK
  <2>2. pos' = pos \/ (pos' = skipUntil /\ skipUntil > pos)
    BY DEF LoopBegins, CheckOutside, EvaluateUnusable, Evaluate, LoadBegins, LoadGivenUp,
           SkipZone, KeepZone, Checked, SkipTarget, readerVars
  <2> QED BY <2>1, <2>2
<1>3. codes = 0 /\ codes' = 0 /\ cols = {} /\ cols' = {}
  BY <1>1 DEF LocalsInv, InColumn, Decoding
<1>4. RefcountExact'
  BY <1>1, <1>3, QuietExact
<1>5. HeldInv'
  <2>1. ASSUME NEW B \in held PROVE B.from \in Nat /\ B.to \in Nat
    <3>1. B \in Batches
      BY DEF IInv, TypeOK
    <3> QED BY <3>1 DEF Batches
  <2> QED BY <1>1, <1>2, <2>1 DEF HeldInv
<1>6. LocalsInv' /\ EmptiedInv'
  BY <1>1, <1>3 DEF LocalsInv, EmptiedInv, InColumn, Decoding
<1>7. TablesInv'
  <2>1. CASE LoadBegins
    <3>1. /\ ~loaded[Zone] /\ loaded' = [loaded EXCEPT ![Zone] = TRUE] /\ Zone' = Zone
          /\ zoneValues' = zoneValues
      BY <2>1 DEF LoadBegins, nextVars, Zone
    <3>2. Zone \in 1..Len(Zones)
      BY <2>1, PlanFacts DEF LoadBegins, Inside, Checking, IInv, TypeOK, Zone
    <3>3. loaded \in [1..Len(Zones) -> BOOLEAN]
      BY DEF IInv, TypeOK
    <3>4. loaded'[Zone] /\ \A z \in 1..Len(Zones) : loaded[z] => loaded'[z]
      BY <3>1, <3>2, <3>3
    <3> QED BY <3>1, <3>2, <3>4 DEF TablesInv
  <2>2. CASE ~LoadBegins
    <3>1. pc' # "load" /\ loaded' = loaded
      BY <2>2
      DEF LoopBegins, CheckOutside, EvaluateUnusable, Evaluate, LoadGivenUp, SkipZone, KeepZone,
          Checked, zoneVars
    <3> QED BY <1>1, <3>1 DEF TablesInv
  <2> QED BY <2>1, <2>2
<1> QED BY <1>4, <1>5, <1>6, <1>7

LEMMA LocateExact == ASSUME Exact, LocatePiece \/ Located PROVE OwnedInv' /\ RefcountExact'
<1> USE DEF Exact, OwnedInv
<1>1. CASE \E e : ReturnFalse(e)
  BY <1>1, ReturnFalseExact
<1>2. CASE ~ \E e : ReturnFalse(e)
  <2>1. /\ UNCHANGED <<pos, current, held, codes, cols, loaded, zoneValues, refcnt>>
        /\ pc = "locate" /\ pc' \in {"locate", "read"}
    BY <1>2 DEF LocatePiece, Located, readerVars, zoneVars, outerVars
  <2>2. \A c \in Columns : /\ cursor'[c].values = cursor[c].values
                           /\ cursor'[c].dictValues = cursor[c].dictValues
    <3>1. \A c \in Columns : cursor[c] \in Cursors
      BY DEF IInv, TypeOK
    <3>2. cursor' = cursor \/ \E k : cursor' = [cursor EXCEPT ![col].index = k]
      BY <1>2 DEF LocatePiece, Located
    <3>3. cursor \in [Columns -> Cursors]
      BY DEF IInv, TypeOK
    <3> QED BY <3>1, <3>2, <3>3 DEF Cursors
  <2>3. codes = 0 /\ cols = {}
    BY <2>1 DEF LocalsInv, InColumn, Decoding
  <2>4. RefcountExact'
    BY <2>1, <2>2, <2>3, QuietExact
  <2>5. HeldInv' /\ LocalsInv' /\ EmptiedInv' /\ TablesInv'
    BY <2>1, <2>3 DEF HeldInv, LocalsInv, EmptiedInv, TablesInv, InColumn, Decoding
  <2> QED BY <2>4, <2>5
<1> QED BY <1>1, <1>2

(* A table that was not there is one more array, and the zone holds it.    *)
LEMMA LoadExact == ASSUME Exact, LoadSucceeds PROVE OwnedInv' /\ RefcountExact'
<1> USE DEF Exact, OwnedInv
<1>1. /\ UNCHANGED <<pos, current, held, codes, cols, col, cursor, loaded>>
      /\ pc = "load" /\ pc' = "check"
      /\ zoneValues' = [zoneValues EXCEPT ![Zone] = TRUE]
      /\ Account(<<{ZoneTable(Zone)}>>, <<>>)
  BY DEF LoadSucceeds, readerVars, nextVars, outerVars
<1>2. Zone \in 1..Len(Zones)
  <2>1. chk \in 1..Len(Checks)
    BY <1>1, PlanFacts DEF IInv, TypeOK, ZoneInv
  <2> QED BY <2>1, PlanFacts DEF Zone
<1>3. zoneValues \in [1..Len(Zones) -> BOOLEAN] /\ ~zoneValues[Zone] /\ loaded[Zone]
  BY <1>1 DEF IInv, TypeOK, TablesInv
<1>4. OwnedInv'
  <2>1. HeldInv' /\ LocalsInv' /\ EmptiedInv'
    BY <1>1 DEF HeldInv, LocalsInv, EmptiedInv, InColumn, Decoding
  <2>2. TablesInv'
    BY <1>1, <1>2, <1>3 DEF TablesInv
  <2> QED BY <2>1, <2>2
<1>5. CachedColumns' = CachedColumns /\ CachedCodes' = CachedCodes /\ Dropped' = Dropped
  BY <1>1 DEF CachedColumns, CachedValues, CachedDictionary, CachedCodes, Dropped
<1>6. CachedZones' = CachedZones \cup {ZoneTable(Zone)} /\ ZoneTable(Zone) \notin CachedZones
  BY <1>1, <1>2, <1>3 DEF CachedZones, ZoneTable
<1>7. IsFiniteSet(held) /\ IsFiniteSet(held)'
  BY <1>1 DEF HeldInv
<1>8. ASSUME NEW b \in Blocks
      PROVE  Shares(b)' = Shares(b) + Times(b, <<{ZoneTable(Zone)}>>) - Times(b, <<>>)
  <2>1. Times(b, <<>>) = 0 /\ Times(b, <<{ZoneTable(Zone)}>>) = In(b, {ZoneTable(Zone)})
    BY TimesNone, TimesOne
  <2>2. In(b, CachedZones') = In(b, CachedZones) + In(b, {ZoneTable(Zone)})
    BY <1>6 DEF In
  <2>3. Shares(b)' = In(b, CachedColumns) + In(b, CachedZones') + In(b, CachedCodes)
                       + In(b, cols) + InBatches(b, held) + In(b, Dropped)
    BY <1>1, <1>5 DEF Shares
  <2>4. Shares(b) = In(b, CachedColumns) + In(b, CachedZones) + In(b, CachedCodes)
                      + In(b, cols) + InBatches(b, held) + In(b, Dropped)
    BY DEF Shares
  <2>5. SharesType(b) /\ In(b, {ZoneTable(Zone)}) \in Nat
    BY <1>7, SharesAreNats, InType
  <2> QED BY <2>1, <2>2, <2>3, <2>4, <2>5 DEF SharesType
<1> QED BY <1>1, <1>4, <1>7, <1>8, Balanced

(* The batch takes over the slices, and Next's last caller may drop it.    *)
LEMMA EmitExact == ASSUME Exact, Emit PROVE OwnedInv' /\ RefcountExact'
<1> USE DEF Exact, OwnedInv
<1>1. /\ pc = "read" /\ pc' = "idle" /\ returned' = "true"
      /\ current' = [from |-> pos, to |-> end, blocks |-> cols]
      /\ pos' = end /\ cols' = {}
      /\ UNCHANGED <<err, col, codes, cursor, loaded, zoneValues, refs, held, refcnt>>
  BY DEF Emit, zoneVars, outerVars
<1>2. pos \in Nat /\ end \in Nat /\ pos < end /\ current = NoBatch /\ err = "none" /\ refs # 0
  BY <1>1, PlanFacts DEF IInv, TypeOK, ControlInv, Scanning
<1>3. ASSUME NEW B \in held PROVE B.to \in Nat /\ B.from \in Nat /\ B.to <= pos
  <2>1. B \in Batches
    BY DEF IInv, TypeOK
  <2> QED BY <2>1 DEF Batches, HeldInv
<1>4. current' \notin held
  <2>1. current'.to = end
    BY <1>1
  <2> QED BY <1>2, <1>3, <2>1
<1>5. codes = 0
  BY <1>1 DEF LocalsInv, Decoding
<1>6. OwnedInv'
  <2>1. HeldInv'
    BY <1>1, <1>2, <1>3 DEF HeldInv
  <2>2. LocalsInv' /\ EmptiedInv' /\ TablesInv'
    BY <1>1, <1>2, <1>5 DEF LocalsInv, EmptiedInv, TablesInv, InColumn, Decoding
  <2> QED BY <2>1, <2>2
<1>7. CachedColumns' = CachedColumns /\ CachedZones' = CachedZones /\ CachedCodes' = CachedCodes
  BY <1>1 DEF CachedColumns, CachedValues, CachedDictionary, CachedZones, CachedCodes
<1>8. Dropped' = cols
  BY <1>1, <1>4 DEF Dropped
<1>9. \A b : In(b, Dropped) = 0 /\ In(b, cols') = 0
  BY <1>1, <1>2 DEF Dropped, NoBatch, In
<1>10. IsFiniteSet(held) /\ IsFiniteSet(held)'
  BY <1>1 DEF HeldInv
<1>11. ASSUME NEW b PROVE Holders(b)' = Holders(b)
  <2>1. Shares(b)' = In(b, CachedColumns) + In(b, CachedZones) + In(b, CachedCodes)
                       + In(b, cols') + InBatches(b, held) + In(b, cols)
    BY <1>1, <1>7, <1>8 DEF Shares
  <2>2. Shares(b) = In(b, CachedColumns) + In(b, CachedZones) + In(b, CachedCodes)
                      + In(b, cols) + InBatches(b, held) + In(b, Dropped)
    BY DEF Shares
  <2>3. SharesType(b)
    BY <1>10, SharesAreNats
  <2>4. Shares(b)' = Shares(b)
    BY <1>9, <2>1, <2>2, <2>3 DEF SharesType
  <2> QED BY <1>10, <2>4, HoldersAre
<1>12. RefcountExact'
  <2>1. Blocks' = Blocks
    BY DEF Blocks, ColumnBlocks
  <2> QED BY <1>1, <1>11, <2>1 DEF RefcountExact
<1> QED BY <1>6, <1>12

(* What the steps of a read have in common: they add at most a slice of    *)
(* this column and leave the codes to a step that still decodes.           *)
LEMMA ReadOwned ==
  ASSUME OwnedInv, NEW c \in Columns, c = col,
         UNCHANGED <<pos, held, loaded, zoneValues>>, pc' \in InColumn,
         cols' = cols \/ (col' = col + 1 /\ \E i \in Nat : cols' = cols \cup {Values(c, i)}),
         col' \in {col, col + 1},
         pc' \notin Decoding => codes' = 0,
         pc' \in Decoding => cursor'[col].values = 0 /\ Piece'.dict # 0 /\ col' = col
  PROVE  OwnedInv'
<1> USE DEF OwnedInv
<1>1. col \in Nat \ {0}
  BY PlanFacts
<1>2. HeldInv'
  BY DEF HeldInv
<1>3. LocalsInv'
  <2>1. ASSUME NEW b \in cols' PROVE \E x \in 1..(col' - 1), i \in Nat : b = Values(x, i)
    <3>1. CASE b \in cols
      <4>1. PICK x \in 1..(col - 1), i \in Nat : b = Values(x, i)
        BY <3>1 DEF LocalsInv
      <4>2. x \in 1..(col' - 1)
        <5>1. CASE col' = col
          BY <4>1, <5>1
        <5>2. CASE col' = col + 1
          BY <1>1, <4>1, <5>2
        <5> QED BY <5>1, <5>2
      <4> QED BY <4>1, <4>2
    <3>2. CASE b \notin cols
      <4>1. col' = col + 1 /\ \E i \in Nat : b = Values(c, i)
        BY <2>1, <3>2
      <4>2. c \in 1..(col' - 1)
        BY <1>1, <4>1
      <4> QED BY <4>1, <4>2
    <3> QED BY <3>1, <3>2
  <2> QED BY <2>1 DEF LocalsInv
<1>4. EmptiedInv' /\ TablesInv'
  BY DEF EmptiedInv, TablesInv, InColumn
<1> QED BY <1>2, <1>3, <1>4

(* And the account must be of what the caches of the column, the codes and *)
(* the slices gain and lose.                                               *)
LEMMA ReadBalanced ==
  ASSUME Exact, NEW c \in Columns, UNCHANGED <<current, held, zoneValues>>,
         \A x \in Columns \ {c} : cursor'[x] = cursor[x],
         NEW gained, NEW lost, Account(gained, lost),
         \A b : Times(b, gained) \in Nat /\ Times(b, lost) \in Nat,
         \A b :
           In(b, ValuesIn(cursor', c)) + In(b, DictionaryIn(cursor', c)) + In(b, CachedCodes')
               + In(b, cols') + Times(b, lost)
             = In(b, CachedValues(c)) + In(b, CachedDictionary(c)) + In(b, CachedCodes)
                 + In(b, cols) + Times(b, gained)
  PROVE  RefcountExact'
<1> USE DEF Exact, OwnedInv
<1>1. CachedZones' = CachedZones /\ Dropped' = Dropped
  BY DEF CachedZones, Dropped
<1>2. IsFiniteSet(held) /\ IsFiniteSet(held)'
  BY DEF HeldInv
<1>3. ASSUME NEW b \in Blocks PROVE Shares(b)' = Shares(b) + Times(b, gained) - Times(b, lost)
  <2>1. In(b, CachedColumns)'
          = In(b, CachedColumns) - In(b, CachedValues(c)) - In(b, CachedDictionary(c))
              + In(b, ValuesIn(cursor', c)) + In(b, DictionaryIn(cursor', c))
    BY ColumnMoves
  <2>2. Shares(b)' = In(b, CachedColumns)' + In(b, CachedZones) + In(b, CachedCodes')
                       + In(b, cols') + InBatches(b, held) + In(b, Dropped)
    BY <1>1 DEF Shares
  <2>3. Shares(b) = In(b, CachedColumns) + In(b, CachedZones) + In(b, CachedCodes)
                      + In(b, cols) + InBatches(b, held) + In(b, Dropped)
    BY DEF Shares
  <2>4. SharesType(b) /\ Times(b, gained) \in Nat /\ Times(b, lost) \in Nat
    BY <1>2, SharesAreNats
  <2>5. /\ In(b, ValuesIn(cursor', c)) \in Nat /\ In(b, DictionaryIn(cursor', c)) \in Nat
        /\ In(b, CachedValues(c)) \in Nat /\ In(b, CachedDictionary(c)) \in Nat
        /\ In(b, CachedCodes') \in Nat /\ In(b, cols') \in Nat
    BY InType
  <2> QED BY <2>1, <2>2, <2>3, <2>4, <2>5 DEF SharesType
<1> QED BY <1>2, <1>3, Balanced

LEMMA ReadsExact ==
  ASSUME Exact, ReadCached \/ DecodeValues \/ DecodeCodes \/ DecodeDictionary \/ TakeValues
  PROVE  OwnedInv' /\ RefcountExact'
<1> USE DEF Exact, OwnedInv
<1>1. /\ col \in Columns /\ pc \in InColumn
      /\ Index \in 1..Len(Pieces[col]) /\ Index \in Nat \ {0}
  <2>1. col \in Columns /\ pc \in InColumn
    BY PlanFacts
    DEF IInv, TypeOK, CursorInv, Columns, InColumn, ReadCached, DecodeValues, DecodeCodes,
        DecodeDictionary, TakeValues, Missing, Reading
  <2>2. Index \in 1..Len(Pieces[col])
    BY <2>1 DEF IInv, CursorInv, Covers, Index
  <2> QED BY <2>1, <2>2, PlanFacts
<1>2. cursor \in [Columns -> Cursors] /\ cursor[col] \in Cursors
  BY <1>1 DEF IInv, TypeOK
<1>3. PICK c \in Columns : c = col
  BY <1>1
<1>4. \A i : Values(c, i) \notin cols
  <2>1. ASSUME NEW i, Values(c, i) \in cols PROVE FALSE
    <3>1. PICK x \in 1..(col - 1), j \in Nat : Values(c, i) = Values(x, j)
      BY <2>1 DEF LocalsInv
    <3>2. c = x
      BY <3>1 DEF Values
    <3> QED BY <1>1, <1>3, <3>1, <3>2, PlanFacts
  <2> QED BY <2>1
<1>5. \A b, i : In(b, cols \cup {Values(c, i)}) = In(b, cols) + In(b, {Values(c, i)})
  BY <1>4 DEF In
<1>6. CASE ReadCached
  <2> DEFINE gained == <<{Values(c, Index)}>>
             lost == <<>>
  <2>1. /\ pc' = "read" /\ pc = "read" /\ col' = col + 1 /\ cols' = cols \cup {Values(c, Index)}
        /\ cursor[col].values = Index /\ Account(gained, lost)
        /\ UNCHANGED <<pos, current, held, loaded, zoneValues, err, refs, returned, codes, cursor>>
    <3>1. cursor[col].values = Index
      BY <1>1, <1>6 DEF IInv, CursorInv, ReadCached, Reading
    <3> QED BY <1>3, <1>6, <3>1 DEF ReadCached, Reading, TakeSlice, readerVars, zoneVars, outerVars
  <2>2. codes' = 0 /\ CachedCodes' = CachedCodes
    BY <2>1 DEF LocalsInv, Decoding, CachedCodes
  <2>3. ValuesIn(cursor', c) = CachedValues(c) /\ DictionaryIn(cursor', c) = CachedDictionary(c)
    BY <2>1, CachesOfCursor
  <2>4. pc' \notin Decoding /\ pc' \in InColumn /\ cols' \ cols \subseteq {Values(c, Index)}
    BY <2>1 DEF Decoding, InColumn
  <2>5. \A b : Times(b, gained) = In(b, {Values(c, Index)}) /\ Times(b, lost) = 0
    BY TimesOne, TimesNone
  <2> HIDE DEF gained, lost
  <2>6. ASSUME NEW b
        PROVE  /\ Times(b, gained) \in Nat /\ Times(b, lost) \in Nat
               /\ In(b, ValuesIn(cursor', c)) + In(b, DictionaryIn(cursor', c))
                    + In(b, CachedCodes') + In(b, cols') + Times(b, lost)
                  = In(b, CachedValues(c)) + In(b, CachedDictionary(c)) + In(b, CachedCodes)
                      + In(b, cols) + Times(b, gained)
    <3>1. In(b, cols') = In(b, cols) + In(b, {Values(c, Index)})
      BY <1>5, <2>1
    <3>2. /\ In(b, CachedValues(c)) \in Nat /\ In(b, CachedDictionary(c)) \in Nat
          /\ In(b, CachedCodes) \in Nat /\ In(b, cols) \in Nat
          /\ In(b, {Values(c, Index)}) \in Nat
      BY InType
    <3>3. In(b, {}) = 0
      BY DEF In
    <3>4. In(b, ValuesIn(cursor', c)) = In(b, CachedValues(c))
      BY <2>2, <2>3, <3>3
    <3>5. In(b, DictionaryIn(cursor', c)) = In(b, CachedDictionary(c))
      BY <2>2, <2>3, <3>3
    <3>6. In(b, CachedCodes') = In(b, CachedCodes)
      BY <2>2, <2>3, <3>3
    <3>7. Times(b, gained) = In(b, {Values(c, Index)}) /\ Times(b, lost) = 0
      BY <2>5
    <3> QED BY <3>1, <3>2, <3>4, <3>5, <3>6, <3>7
  <2>7. OwnedInv'
    BY <1>1, <1>3, <2>1, <2>2, <2>4, ReadOwned
  <2>8. \A x \in Columns \ {c} : cursor'[x] = cursor[x]
    BY <2>1
  <2>9. RefcountExact'
    BY <2>1, <2>6, <2>8, ReadBalanced
  <2> QED BY <2>7, <2>9
<1>7. CASE DecodeValues
  <2> DEFINE gained == <<{Values(c, Index)}, {Values(c, Index)}>>
             lost == <<CachedValues(c), CachedDictionary(c)>>
  <2>1. /\ pc' = "read" /\ pc = "read" /\ col' = col + 1 /\ cols' = cols \cup {Values(c, Index)}
        /\ cursor' = [cursor EXCEPT ![c] = [index |-> Index, cached |-> Index, values |-> Index,
                                          dictionary |-> 0, dictValues |-> 0]]
        /\ Account(gained, lost)
        /\ UNCHANGED <<pos, current, held, loaded, zoneValues, err, refs, returned, codes>>
    BY <1>3, <1>7
    DEF DecodeValues, Missing, Reading, TakeSlice, Replaced, readerVars, zoneVars, outerVars
  <2>2. codes = 0 /\ codes' = 0 /\ CachedCodes' = {} /\ CachedCodes = {}
    BY <2>1 DEF LocalsInv, Decoding, CachedCodes
  <2>3. /\ \A x \in Columns \ {c} : cursor'[x] = cursor[x]
        /\ ValuesIn(cursor', c) = {Values(c, Index)} /\ DictionaryIn(cursor', c) = {}
    BY <1>1, <1>2, <2>1 DEF ValuesIn, DictionaryIn
  <2>4. pc' \notin Decoding /\ pc' \in InColumn /\ cols' \ cols \subseteq {Values(c, Index)}
    BY <2>1 DEF Decoding, InColumn
  <2>5. \A b : /\ Times(b, gained) = In(b, {Values(c, Index)}) + In(b, {Values(c, Index)})
              /\ Times(b, lost) = In(b, CachedValues(c)) + In(b, CachedDictionary(c))
    BY TimesTwo
  <2> HIDE DEF gained, lost
  <2>6. ASSUME NEW b
        PROVE  /\ Times(b, gained) \in Nat /\ Times(b, lost) \in Nat
               /\ In(b, ValuesIn(cursor', c)) + In(b, DictionaryIn(cursor', c))
                    + In(b, CachedCodes') + In(b, cols') + Times(b, lost)
                  = In(b, CachedValues(c)) + In(b, CachedDictionary(c)) + In(b, CachedCodes)
                      + In(b, cols) + Times(b, gained)
    <3>1. In(b, cols') = In(b, cols) + In(b, {Values(c, Index)})
      BY <1>5, <2>1 DEF In
    <3>2. /\ In(b, CachedValues(c)) \in Nat /\ In(b, CachedDictionary(c)) \in Nat
          /\ In(b, CachedCodes) \in Nat /\ In(b, cols) \in Nat
          /\ In(b, {Values(c, Index)}) \in Nat
      BY InType
    <3>3. In(b, {}) = 0
      BY DEF In
    <3>4. In(b, ValuesIn(cursor', c)) = In(b, {Values(c, Index)})
      BY <2>2, <2>3, <3>3
    <3>5. In(b, DictionaryIn(cursor', c)) = 0
      BY <2>2, <2>3, <3>3
    <3>6. In(b, CachedCodes') = 0 /\ In(b, CachedCodes) = 0
      BY <2>2, <2>3, <3>3
    <3>7. /\ Times(b, gained) = In(b, {Values(c, Index)}) + In(b, {Values(c, Index)})
          /\ Times(b, lost) = In(b, CachedValues(c)) + In(b, CachedDictionary(c))
      BY <2>5
    <3> QED BY <3>1, <3>2, <3>4, <3>5, <3>6, <3>7
  <2>7. OwnedInv'
    BY <1>1, <1>3, <2>1, <2>2, <2>4, ReadOwned
  <2>8. \A x \in Columns \ {c} : cursor'[x] = cursor[x]
    BY <2>1, <2>3
  <2>9. RefcountExact'
    BY <2>1, <2>6, <2>8, ReadBalanced
  <2> QED BY <2>7, <2>9
<1>8. CASE DecodeCodes
  <2> DEFINE gained == <<{Codes(c, Index)}>>
             lost == <<CachedValues(c)>>
  <2>1. /\ pc' \in Decoding /\ pc \notin Decoding /\ col' = col /\ cols' = cols /\ codes' = Index
        /\ Piece.dict # 0 /\ cursor' = [cursor EXCEPT ![c].values = 0]
        /\ Account(gained, lost)
        /\ UNCHANGED <<pos, current, held, loaded, zoneValues, err, refs, returned>>
    BY <1>3, <1>8
    DEF DecodeCodes, Missing, Reading, Decoding, readerVars, zoneVars, outerVars
  <2>2. CachedCodes' = {Codes(c, Index)} /\ CachedCodes = {}
    BY <1>1, <1>3, <2>1 DEF LocalsInv, CachedCodes
  <2>3. /\ \A x \in Columns \ {c} : cursor'[x] = cursor[x]
        /\ cursor'[c] = [cursor[c] EXCEPT !.values = 0]
    BY <1>2, <2>1
  <2>4. /\ cursor'[col].values = 0 /\ cursor'[col].index = Index
        /\ cursor'[col].dictValues = cursor[col].dictValues
    BY <1>2, <1>3, <2>3 DEF Cursors, Index
  <2>5. ValuesIn(cursor', c) = {} /\ DictionaryIn(cursor', c) = CachedDictionary(c)
    BY <1>3, <2>4 DEF ValuesIn, DictionaryIn, CachedDictionary
  <2>6. Piece'.dict # 0 /\ pc' \in InColumn
    BY <2>1, <2>4 DEF Piece, Index, Decoding, InColumn
  <2>7. \A b : /\ Times(b, gained) = In(b, {Codes(c, Index)})
              /\ Times(b, lost) = In(b, CachedValues(c))
    BY TimesOne
  <2> HIDE DEF gained, lost
  <2>8. ASSUME NEW b
        PROVE  /\ Times(b, gained) \in Nat /\ Times(b, lost) \in Nat
               /\ In(b, ValuesIn(cursor', c)) + In(b, DictionaryIn(cursor', c))
                    + In(b, CachedCodes') + In(b, cols') + Times(b, lost)
                  = In(b, CachedValues(c)) + In(b, CachedDictionary(c)) + In(b, CachedCodes)
                      + In(b, cols) + Times(b, gained)
    <3>1. In(b, cols') = In(b, cols)
      BY <2>1 DEF In
    <3>2. /\ In(b, CachedValues(c)) \in Nat /\ In(b, CachedDictionary(c)) \in Nat
          /\ In(b, CachedCodes) \in Nat /\ In(b, cols) \in Nat
          /\ In(b, {Codes(c, Index)}) \in Nat
      BY InType
    <3>3. In(b, {}) = 0
      BY DEF In
    <3>4. In(b, ValuesIn(cursor', c)) = 0
      BY <2>2, <2>5, <3>3
    <3>5. In(b, DictionaryIn(cursor', c)) = In(b, CachedDictionary(c))
      BY <2>2, <2>5, <3>3
    <3>6. In(b, CachedCodes') = In(b, {Codes(c, Index)}) /\ In(b, CachedCodes) = 0
      BY <2>2, <2>5, <3>3
    <3>7. Times(b, gained) = In(b, {Codes(c, Index)}) /\ Times(b, lost) = In(b, CachedValues(c))
      BY <2>7
    <3> QED BY <3>1, <3>2, <3>4, <3>5, <3>6, <3>7
  <2>9. OwnedInv'
    BY <1>1, <1>3, <2>1, <2>4, <2>6, ReadOwned
  <2>10. \A x \in Columns \ {c} : cursor'[x] = cursor[x]
    BY <2>1, <2>3
  <2>11. RefcountExact'
    BY <2>1, <2>8, <2>10, ReadBalanced
  <2> QED BY <2>9, <2>11
<1>9. CASE DecodeDictionary
  <2> DEFINE gained == <<{Dictionary(c, Piece.dict)}>>
             lost == <<CachedDictionary(c)>>
  <2>1. /\ pc' \in Decoding /\ pc \in Decoding /\ col' = col /\ cols' = cols /\ codes' = codes
        /\ cursor' = [cursor EXCEPT ![c].dictionary = Piece.dict, ![c].dictValues = Piece.dict]
        /\ Account(gained, lost)
        /\ UNCHANGED <<pos, current, held, loaded, zoneValues, err, refs, returned>>
    BY <1>3, <1>9 DEF DecodeDictionary, Decoding, readerVars, nextVars, zoneVars, outerVars
  <2>2. Piece.dict # 0 /\ cursor[col].values = 0 /\ CachedCodes' = CachedCodes
    BY <2>1 DEF LocalsInv, CachedCodes
  <2>3. /\ \A x \in Columns \ {c} : cursor'[x] = cursor[x]
        /\ cursor'[c] = [cursor[c] EXCEPT !.dictionary = Piece.dict, !.dictValues = Piece.dict]
    BY <1>2, <2>1
  <2>4. /\ cursor'[col].values = 0 /\ cursor'[col].index = Index
        /\ cursor'[col].dictValues = Piece.dict
    BY <1>2, <1>3, <2>2, <2>3 DEF Cursors, Index
  <2>5. /\ ValuesIn(cursor', c) = {} /\ CachedValues(c) = {}
        /\ DictionaryIn(cursor', c) = {Dictionary(c, Piece.dict)}
    BY <1>3, <2>2, <2>4 DEF ValuesIn, DictionaryIn, CachedValues
  <2>6. Piece'.dict # 0 /\ pc' \in InColumn
    BY <2>1, <2>2, <2>4 DEF Piece, Index, Decoding, InColumn
  <2>7. \A b : /\ Times(b, gained) = In(b, {Dictionary(c, Piece.dict)})
              /\ Times(b, lost) = In(b, CachedDictionary(c))
    BY TimesOne
  <2> HIDE DEF gained, lost
  <2>8. ASSUME NEW b
        PROVE  /\ Times(b, gained) \in Nat /\ Times(b, lost) \in Nat
               /\ In(b, ValuesIn(cursor', c)) + In(b, DictionaryIn(cursor', c))
                    + In(b, CachedCodes') + In(b, cols') + Times(b, lost)
                  = In(b, CachedValues(c)) + In(b, CachedDictionary(c)) + In(b, CachedCodes)
                      + In(b, cols) + Times(b, gained)
    <3>1. In(b, cols') = In(b, cols)
      BY <2>1 DEF In
    <3>2. /\ In(b, CachedValues(c)) \in Nat /\ In(b, CachedDictionary(c)) \in Nat
          /\ In(b, CachedCodes) \in Nat /\ In(b, cols) \in Nat
          /\ In(b, {Dictionary(c, Piece.dict)}) \in Nat
      BY InType
    <3>3. In(b, {}) = 0
      BY DEF In
    <3>4. In(b, ValuesIn(cursor', c)) = 0 /\ In(b, CachedValues(c)) = 0
      BY <2>2, <2>5, <3>3
    <3>5. In(b, DictionaryIn(cursor', c)) = In(b, {Dictionary(c, Piece.dict)})
      BY <2>2, <2>5, <3>3
    <3>6. In(b, CachedCodes') = In(b, CachedCodes)
      BY <2>2, <2>5, <3>3
    <3>7. /\ Times(b, gained) = In(b, {Dictionary(c, Piece.dict)})
          /\ Times(b, lost) = In(b, CachedDictionary(c))
      BY <2>7
    <3> QED BY <3>1, <3>2, <3>4, <3>5, <3>6, <3>7
  <2>9. OwnedInv'
    BY <1>1, <1>3, <2>1, <2>4, <2>6, ReadOwned
  <2>10. \A x \in Columns \ {c} : cursor'[x] = cursor[x]
    BY <2>1, <2>3
  <2>11. RefcountExact'
    BY <2>1, <2>8, <2>10, ReadBalanced
  <2> QED BY <2>9, <2>11
<1>10. CASE TakeValues
  <2> DEFINE gained == <<{Values(c, Index)}, {Values(c, Index)}>>
             lost == <<CachedCodes>>
  <2>1. /\ pc' = "read" /\ pc \in Decoding /\ col' = col + 1
        /\ cols' = cols \cup {Values(c, Index)} /\ codes' = 0
        /\ cursor' = [cursor EXCEPT ![c].values = Index, ![c].cached = Index]
        /\ Account(gained, lost)
        /\ UNCHANGED <<pos, current, held, loaded, zoneValues, err, refs, returned>>
    BY <1>3, <1>10 DEF TakeValues, TakeSlice, Decoding, readerVars, zoneVars, outerVars
  <2>2. cursor[col].values = 0 /\ CachedCodes' = {}
    BY <2>1 DEF LocalsInv, CachedCodes
  <2>3. /\ \A x \in Columns \ {c} : cursor'[x] = cursor[x]
        /\ cursor'[c] = [cursor[c] EXCEPT !.values = Index, !.cached = Index]
    BY <1>2, <2>1
  <2>4. cursor'[col].values = Index /\ cursor'[col].dictValues = cursor[col].dictValues
    BY <1>2, <1>3, <2>3 DEF Cursors
  <2>5. /\ ValuesIn(cursor', c) = {Values(c, Index)} /\ CachedValues(c) = {}
        /\ DictionaryIn(cursor', c) = CachedDictionary(c)
    BY <1>1, <1>3, <2>2, <2>4 DEF ValuesIn, DictionaryIn, CachedValues, CachedDictionary
  <2>6. pc' \notin Decoding /\ pc' \in InColumn /\ cols' \ cols \subseteq {Values(c, Index)}
    BY <2>1 DEF Decoding, InColumn
  <2>7. \A b : /\ Times(b, gained) = In(b, {Values(c, Index)}) + In(b, {Values(c, Index)})
              /\ Times(b, lost) = In(b, CachedCodes)
    BY TimesTwo, TimesOne
  <2> HIDE DEF gained, lost
  <2>8. ASSUME NEW b
        PROVE  /\ Times(b, gained) \in Nat /\ Times(b, lost) \in Nat
               /\ In(b, ValuesIn(cursor', c)) + In(b, DictionaryIn(cursor', c))
                    + In(b, CachedCodes') + In(b, cols') + Times(b, lost)
                  = In(b, CachedValues(c)) + In(b, CachedDictionary(c)) + In(b, CachedCodes)
                      + In(b, cols) + Times(b, gained)
    <3>1. In(b, cols') = In(b, cols) + In(b, {Values(c, Index)})
      BY <1>5, <2>1 DEF In
    <3>2. /\ In(b, CachedValues(c)) \in Nat /\ In(b, CachedDictionary(c)) \in Nat
          /\ In(b, CachedCodes) \in Nat /\ In(b, cols) \in Nat
          /\ In(b, {Values(c, Index)}) \in Nat
      BY InType
    <3>3. In(b, {}) = 0
      BY DEF In
    <3>4. In(b, ValuesIn(cursor', c)) = In(b, {Values(c, Index)}) /\ In(b, CachedValues(c)) = 0
      BY <2>2, <2>5, <3>3
    <3>5. In(b, DictionaryIn(cursor', c)) = In(b, CachedDictionary(c))
      BY <2>2, <2>5, <3>3
    <3>6. In(b, CachedCodes') = 0
      BY <2>2, <2>5, <3>3
    <3>7. /\ Times(b, gained) = In(b, {Values(c, Index)}) + In(b, {Values(c, Index)})
          /\ Times(b, lost) = In(b, CachedCodes)
      BY <2>7
    <3> QED BY <3>1, <3>2, <3>4, <3>5, <3>6, <3>7
  <2>9. OwnedInv'
    BY <1>1, <1>3, <2>1, <2>6, ReadOwned
  <2>10. \A x \in Columns \ {c} : cursor'[x] = cursor[x]
    BY <2>1, <2>3
  <2>11. RefcountExact'
    BY <2>1, <2>8, <2>10, ReadBalanced
  <2> QED BY <2>9, <2>11
<1> QED BY <1>6, <1>7, <1>8, <1>9, <1>10

(* The consumer's side: a batch kept is a holder, the last release is none. *)
LEMMA KeepExact == ASSUME Exact, RetainBatch PROVE OwnedInv' /\ RefcountExact'
<1> USE DEF Exact, OwnedInv
<1>1. /\ pc = "idle" /\ current # NoBatch /\ current \notin held /\ held' = held \cup {current}
      /\ UNCHANGED <<pc, pos, current, returned, err, refs, codes, cols, col, cursor, loaded,
                     zoneValues, refcnt>>
  BY DEF RetainBatch, readerVars, nextVars, zoneVars
<1>2. current.from < current.to /\ current.to <= pos /\ pos \in Nat
  BY <1>1, PlanFacts DEF IInv, TypeOK, ControlInv
<1>3. IsFiniteSet(held) /\ IsFiniteSet(held)'
  BY <1>1, FS_AddElement DEF HeldInv
<1>4. OwnedInv'
  <2>1. HeldInv'
    BY <1>1, <1>2, <1>3 DEF HeldInv
  <2>2. LocalsInv' /\ EmptiedInv' /\ TablesInv'
    BY <1>1 DEF LocalsInv, EmptiedInv, Emptied, TablesInv, Piece, Index, Zone, InColumn, Decoding
  <2> QED BY <2>1, <2>2
<1>5. ASSUME NEW b PROVE Holders(b)' = Holders(b)
  <2>1. CachedColumns' = CachedColumns /\ CachedZones' = CachedZones /\ CachedCodes' = CachedCodes
    BY <1>1 DEF CachedColumns, CachedValues, CachedDictionary, CachedZones, CachedCodes
  <2>2. Live' = Live
    BY <1>1 DEF Live
  <2> QED BY <1>1, <2>1, <2>2 DEF Holders
<1>6. RefcountExact'
  <2>1. Blocks' = Blocks
    BY DEF Blocks, ColumnBlocks
  <2> QED BY <1>1, <1>5, <2>1 DEF RefcountExact
<1> QED BY <1>4, <1>6

LEMMA GiveBackExact == ASSUME Exact, ReleaseBatch PROVE OwnedInv' /\ RefcountExact'
<1> USE DEF Exact, OwnedInv
<1>1. PICK B \in held : /\ held' = held \ {B}
                        /\ Account(<<>>, <<IF B = current THEN {} ELSE B.blocks>>)
  BY DEF ReleaseBatch
<1>2. UNCHANGED <<pc, pos, current, returned, err, refs, codes, cols, col, chk, cursor, loaded,
                  zoneValues>>
  BY DEF ReleaseBatch, readerVars, nextVars, zoneVars
<1>3. IsFiniteSet(held) /\ IsFiniteSet(held)'
  BY <1>1, BatchLess DEF HeldInv
<1>4. OwnedInv'
  <2>1. HeldInv'
    BY <1>1, <1>2, <1>3 DEF HeldInv
  <2>2. LocalsInv' /\ EmptiedInv' /\ TablesInv'
    BY <1>2 DEF LocalsInv, EmptiedInv, Emptied, TablesInv, Piece, Index, Zone, InColumn, Decoding
  <2> QED BY <2>1, <2>2
<1>5. CachedColumns' = CachedColumns /\ CachedZones' = CachedZones /\ CachedCodes' = CachedCodes
  BY <1>2 DEF CachedColumns, CachedValues, CachedDictionary, CachedZones, CachedCodes
<1> DEFINE G == IF B = current THEN {} ELSE B.blocks
<1>6. ASSUME NEW b \in Blocks PROVE Shares(b)' = Shares(b) + Times(b, <<>>) - Times(b, <<G>>)
  <2>1. Times(b, <<>>) = 0 /\ Times(b, <<G>>) = In(b, G)
    BY TimesNone, TimesOne
  <2>2. InBatches(b, held) = InBatches(b, held') + In(b, B.blocks)
    BY <1>1, <1>3, BatchLess
  <2>3. In(b, Dropped') + In(b, G) = In(b, Dropped) + In(b, B.blocks)
    <3>1. CASE B = current
      <4>1. Dropped' = current.blocks /\ Dropped = {} /\ G = {}
        BY <1>1, <1>2, <3>1 DEF Dropped
      <4> QED BY <3>1, <4>1 DEF In
    <3>2. CASE B # current
      <4>1. Dropped' = Dropped /\ G = B.blocks
        BY <1>1, <1>2, <3>2 DEF Dropped
      <4> QED BY <4>1
    <3> QED BY <3>1, <3>2
  <2>4. Shares(b)' = In(b, CachedColumns) + In(b, CachedZones) + In(b, CachedCodes)
                       + In(b, cols) + InBatches(b, held') + In(b, Dropped')
    BY <1>2, <1>5 DEF Shares
  <2>5. Shares(b) = In(b, CachedColumns) + In(b, CachedZones) + In(b, CachedCodes)
                      + In(b, cols) + InBatches(b, held) + In(b, Dropped)
    BY DEF Shares
  <2>6. /\ SharesType(b) /\ In(b, Dropped') \in Nat /\ In(b, G) \in Nat
        /\ In(b, B.blocks) \in Nat /\ InBatches(b, held') \in Nat
    BY <1>3, SharesAreNats, InType, InBatchesType
  <2> HIDE DEF G
  <2>7. Shares(b)' = Shares(b) - In(b, G)
    BY <2>2, <2>3, <2>4, <2>5, <2>6 DEF SharesType
  <2>8. Shares(b) \in Nat
    BY <2>5, <2>6 DEF SharesType
  <2> QED BY <2>1, <2>6, <2>7, <2>8
<1>7. Account(<<>>, <<G>>)
  BY <1>1
<1> HIDE DEF G
<1> QED BY <1>3, <1>4, <1>6, <1>7, Balanced

(* Closing the reader gives up what returning false does, from idle.       *)
LEMMA CloseExact == ASSUME Exact, ReleaseLast PROVE OwnedInv' /\ RefcountExact'
<1> USE DEF Exact, OwnedInv
<1>1. /\ pc = "idle" /\ current' = NoBatch
      /\ cursor' = EmptyCursors /\ zoneValues' = NoZoneValues
      /\ Account(<<>>, <<Dropped>> \o Caches)
      /\ UNCHANGED <<pc, pos, cols, codes, col, loaded, held>>
  BY DEF ReleaseLast, nextVars
<1>2. Emptied'
  BY <1>1 DEF Emptied, EmptyCursors, NoCursor, NoZoneValues
<1>3. cols = {} /\ codes = 0
  BY <1>1 DEF LocalsInv, InColumn, Decoding
<1>4. OwnedInv'
  <2>1. HeldInv'
    BY <1>1 DEF HeldInv
  <2>2. LocalsInv' /\ EmptiedInv' /\ TablesInv'
    BY <1>1, <1>2, <1>3 DEF LocalsInv, EmptiedInv, TablesInv, InColumn, Decoding, NoZoneValues
  <2> QED BY <2>1, <2>2
<1>5. CachedColumns' = {}
  BY <1>1 DEF CachedColumns, CachedValues, CachedDictionary, EmptyCursors, NoCursor
<1>6. /\ CachedZones' = {} /\ CachedCodes' = {} /\ cols' = {} /\ Dropped' = {}
      /\ CachedCodes = {} /\ cols = {}
  BY <1>1, <1>3 DEF CachedZones, NoZoneValues, CachedCodes, Dropped, NoBatch
<1>7. IsFiniteSet(held) /\ IsFiniteSet(held)'
  BY <1>1 DEF HeldInv
<1>8. ASSUME NEW b \in Blocks
      PROVE  Shares(b)' = Shares(b) + Times(b, <<>>) - Times(b, <<Dropped>> \o Caches)
  <2>1. Shares(b)' = InBatches(b, held)
    BY <1>1, <1>5, <1>6, <1>7, InBatchesType DEF Shares, In
  <2>2. Times(b, <<>>) = 0
    BY TimesNone
  <2>3. Times(b, <<Dropped>> \o Caches) = In(b, Dropped) + In(b, CachedColumns) + In(b, CachedZones)
    BY TimesThree DEF Caches
  <2>4. Shares(b) = In(b, CachedColumns) + In(b, CachedZones) + In(b, CachedCodes)
                      + In(b, cols) + InBatches(b, held) + In(b, Dropped)
    BY DEF Shares
  <2>5. SharesType(b)
    BY <1>7, SharesAreNats
  <2>6. In(b, CachedCodes) = 0 /\ In(b, cols) = 0
    BY <1>6 DEF In
  <2> QED BY <2>1, <2>2, <2>3, <2>4, <2>5, <2>6 DEF SharesType
<1> QED BY <1>1, <1>4, <1>7, <1>8, Balanced

(* Steps outside Next that touch no array, and no step at all.             *)
LEMMA AsideExact ==
  ASSUME Exact, Cancel \/ Retain \/ ReleaseShared \/ UNCHANGED vars
  PROVE  OwnedInv' /\ RefcountExact'
<1> USE DEF Exact, OwnedInv
<1>1. /\ UNCHANGED <<pc, pos, current, returned, err, codes, cols, col, chk, cursor, loaded,
                     zoneValues, held, refcnt>>
      /\ refs' = 0 => refs = 0
  <2>1. refs \in Nat
    BY PlanAssumption DEF IInv, TypeOK
  <2> QED BY <2>1
      DEF Cancel, Retain, ReleaseShared, vars, readerVars, nextVars, zoneVars, outerVars
<1>2. OwnedInv'
  BY <1>1 DEF HeldInv, LocalsInv, EmptiedInv, Emptied, TablesInv, Piece, Index, Zone, InColumn,
              Decoding
<1>3. RefcountExact'
  BY <1>1, QuietExact
<1> QED BY <1>2, <1>3

LEMMA InitExact == ASSUME Init PROVE Exact
<1>1. IInv
  BY InitInv
<1>2. OwnedInv
  BY FS_EmptySet
  DEF Init, OwnedInv, HeldInv, LocalsInv, EmptiedInv, Emptied, TablesInv, NoCursor, NoZoneValues,
      InColumn, Decoding
<1>3. RefcountExact
  <2>1. CachedColumns = {}
    BY DEF Init, CachedColumns, CachedValues, CachedDictionary, NoCursor
  <2>2. CachedZones = {} /\ CachedCodes = {} /\ cols = {} /\ Dropped = {} /\ held = {}
    BY DEF Init, CachedZones, NoZoneValues, CachedCodes, Dropped, NoBatch
  <2>3. ASSUME NEW b \in Blocks PROVE refcnt[b] = Holders(b)
    <3>1. InBatches(b, held) = 0
      <4>1. {B \in held : b \in B.blocks} = {}
        BY <2>2
      <4> QED BY <4>1, FS_EmptySet DEF InBatches
    <3>2. Shares(b) = 0
      BY <2>1, <2>2, <3>1 DEF Shares, In
    <3>3. Holders(b) = Shares(b)
      BY <2>2, HoldersAre, FS_EmptySet
    <3> QED BY <3>2, <3>3 DEF Init
  <2> QED BY <2>3 DEF RefcountExact
<1> QED BY <1>1, <1>2, <1>3 DEF Exact

LEMMA NextExact == ASSUME Exact, [Next]_vars PROVE Exact'
<1>1. IInv'
  BY Inductive DEF Exact
<1>2. OwnedInv' /\ RefcountExact'
  <2>1. CASE Call
    BY <2>1, CallExact
  <2>2. CASE EndOfRows \/ CancelSeen \/ LoadFatal \/ DecodeFails \/ TakeFails
    BY <2>2, ReturnFalseExact
    DEF EndOfRows, CancelSeen, LoadFatal, DecodeFails, SourceFails, TakeFails
  <2>3. CASE \/ LoopBegins \/ CheckOutside \/ EvaluateUnusable \/ Evaluate \/ LoadBegins
             \/ LoadGivenUp \/ SkipZone \/ KeepZone
    BY <2>3, LoopExact
  <2>4. CASE LocatePiece \/ Located
    BY <2>4, LocateExact
  <2>5. CASE LoadSucceeds
    BY <2>5, LoadExact
  <2>6. CASE ReadCached \/ DecodeValues \/ DecodeCodes \/ DecodeDictionary \/ TakeValues
    BY <2>6, ReadsExact
  <2>7. CASE Emit
    BY <2>7, EmitExact
  <2>8. CASE Consumer \/ UNCHANGED vars
    BY <2>8, AsideExact, KeepExact, GiveBackExact, CloseExact DEF Consumer
  <2> QED BY <2>1, <2>2, <2>3, <2>4, <2>5, <2>6, <2>7, <2>8 DEF Next, Step
<1> QED BY <1>1, <1>2 DEF Exact

LEMMA AlwaysExact == Spec => []Exact
<1>1. Init => Exact
  BY InitExact
<1>2. Exact /\ [Next]_vars => Exact'
  BY NextExact
<1> QED BY <1>1, <1>2, PTL DEF Spec

(* Whatever fails, is canceled, kept or released, and wherever Next stands, *)
(* each decoded array has exactly as many references as there are caches,   *)
(* locals of Next and live batches that hold it: none is used after its     *)
(* last Release, none outlives its last holder.                             *)
THEOREM OwnershipExact == Spec => []RefcountExact
<1>1. Exact => RefcountExact
  BY DEF Exact
<1> QED BY <1>1, AlwaysExact, PTL

(* Once Next has returned false, whichever step failed, or the reader was   *)
(* closed, the only arrays alive are those of batches the consumer kept.    *)
THEOREM FalseFreesCaches == Spec => []FalseReleasesAll
<1>1. ASSUME Exact PROVE FalseReleasesAll
  <2> USE DEF Exact, OwnedInv
  <2> SUFFICES ASSUME pc = "idle", returned = "false" \/ refs = 0, NEW b \in Blocks
               PROVE  refcnt[b] = Cardinality({B \in held : b \in B.blocks})
    BY DEF FalseReleasesAll
  <2>1. Emptied /\ cols = {} /\ codes = 0
    BY <1>1 DEF EmptiedInv, LocalsInv, InColumn, Decoding
  <2>2. CachedColumns = {}
    BY <2>1 DEF Emptied, CachedColumns, CachedValues, CachedDictionary
  <2>3. CachedZones = {} /\ CachedCodes = {} /\ Dropped = {}
    BY <2>1 DEF Emptied, CachedZones, CachedCodes, Dropped, NoBatch
  <2>4. IsFiniteSet(held)
    BY <1>1 DEF HeldInv
  <2>5. Shares(b) = InBatches(b, held)
    BY <2>1, <2>2, <2>3, <2>4, InBatchesType DEF Shares, In
  <2>6. Holders(b) = Shares(b)
    BY <2>4, HoldersAre
  <2> QED BY <1>1, <2>5, <2>6 DEF RefcountExact, InBatches
<1> QED BY <1>1, AlwaysExact, PTL
=============================================================================
