------------------------------ MODULE FileOpen ------------------------------
(***************************************************************************)
(* Opening a file (file.go, Open and parseRegistry): the magic numbers at  *)
(* both ends, the postscript before the last eight bytes, the three pieces *)
(* of metadata it names, and the registry of segments a scan will read.    *)
(* Every number compared here was written by somebody else.                *)
(*                                                                         *)
(* A file is a record of what is read from it.  Offsets are uint64 and     *)
(* File.size an int64, of which Half is one more than the largest; a       *)
(* FlatBuffer that parses is a flag, as MetadataWalk says when one does.   *)
(***************************************************************************)
EXTENDS Integers, Sequences, FiniteSets

CONSTANTS Files,
          Half,        \* 2^63
          MaxMetadata

ASSUME FileAssumption ==
  /\ Half \in Nat /\ MaxMetadata \in Nat
  /\ MaxMetadata >= 8  \* the magic numbers are read under it
  /\ \A f \in Files :
        /\ f.size \in Nat /\ f.size < Half
        /\ f.psLen \in Nat /\ Len(f.names) \in Nat
        /\ \A name \in {"dtype", "footer", "layout"} :
              /\ f.pieces[name].offset \in Nat /\ f.pieces[name].length \in Nat
              /\ f.pieces[name].offset < 2 * Half
        /\ f.registry \in Seq([offset : Nat, length : Nat, usable : BOOLEAN])
        /\ \A i \in 1..Len(f.registry) : f.registry[i].offset < 2 * Half

VARIABLES file,     \* the source
          pc,       \* what Open does next, or "opened" or "refused"
          segments, \* File.segments
          broken    \* a read failed, or the context was done

vars == <<file, pc, segments, broken>>

\* int64 of a uint64, and the difference of two uint64.
Int64(n) == IF n < Half THEN n ELSE n - 2 * Half
Less(a, b) == IF b <= a THEN a - b ELSE a - b + 2 * Half

PostscriptStart == file.size - 8 - file.psLen

\* File.read accepts the range (SegmentRead).
RangeInFile(offset, length) ==
  offset >= 0 /\ length >= 0 /\ offset <= file.size /\ length <= file.size - offset

\* A plausible bug: an offset past the end makes the difference wrap around.
LengthFits(s, end) == s.length <= Less(end, s.offset)

\* A range of a uint64 offset, inside the bytes before `end`.
RangeBefore(s, end) == s.offset <= end /\ s.length <= Less(end, s.offset)

-----------------------------------------------------------------------------
Refuse ==
  /\ pc' = "refused"
  /\ UNCHANGED segments

\* The read of a range by File.read, then `next` if what it read is `good`.
Read(offset, length, good, next) ==
  /\ \/ /\ RangeInFile(offset, length) /\ length <= MaxMetadata /\ good
        /\ pc' = next
        /\ UNCHANGED <<segments, broken>>
     \/ /\ ~(RangeInFile(offset, length) /\ length <= MaxMetadata /\ good)
        /\ Refuse
        /\ UNCHANGED broken
     \/ /\ Refuse
        /\ broken' = TRUE
  /\ UNCHANGED file

ReadHeader ==
  /\ pc = "header"
  /\ IF file.size < 12
     THEN Refuse /\ UNCHANGED <<file, broken>>
     ELSE Read(0, 4, file.header = "VTXF", "eof")

EndOK ==
  /\ file.magic = "VTXF"
  /\ file.version = 1
  /\ file.psLen \in 1..65527

ReadEnd ==
  /\ pc = "eof"
  /\ Read(file.size - 8, 8, EndOK, "postscript")

ReadPostscript ==
  /\ pc = "postscript"
  /\ Read(PostscriptStart, file.psLen, file.postscript, "dtype")

\* `get` of one of the pieces the postscript names.
Get(name, next) ==
  /\ pc = name
  /\ LET s == file.pieces[name]
     IN  IF s.present /\ s.usable /\ RangeBefore(s, PostscriptStart)
         THEN Read(Int64(s.offset), s.length, TRUE, next)
         ELSE Refuse /\ UNCHANGED <<file, broken>>

GetDtype == Get("dtype", "footer")
GetFooter == Get("footer", "layout")
GetLayout == Get("layout", "registry")

ParseRegistry ==
  /\ pc = "registry"
  /\ IF /\ file.footer
        /\ \A i \in 1..Len(file.registry) :
              RangeBefore(file.registry[i], file.size) /\ file.registry[i].usable
     THEN /\ segments' = [i \in 1..Len(file.registry) |->
                            [offset |-> Int64(file.registry[i].offset),
                             length |-> file.registry[i].length]]
          /\ pc' = "schema"
     ELSE Refuse
  /\ UNCHANGED <<file, broken>>

\* A plausible bug: two columns of one name.
AnyNames(names) == TRUE

DistinctNames(names) == \A i, j \in 1..Len(names) : names[i] = names[j] => i = j

\* The root is a struct that is never null, of columns Arrow has a type for.
ParseSchema ==
  /\ pc = "schema"
  /\ IF file.type /\ file.rootStruct /\ DistinctNames(file.names)
     THEN pc' = "tree" /\ UNCHANGED segments
     ELSE Refuse
  /\ UNCHANGED <<file, broken>>

ParseTree ==
  /\ pc = "tree"
  /\ IF file.tree THEN pc' = "opened" /\ UNCHANGED segments ELSE Refuse
  /\ UNCHANGED <<file, broken>>

Init ==
  /\ file \in Files
  /\ pc = "header"
  /\ segments = <<>>
  /\ broken = FALSE

Next ==
  \/ ReadHeader \/ ReadEnd \/ ReadPostscript
  \/ GetDtype \/ GetFooter \/ GetLayout
  \/ ParseRegistry \/ ParseSchema \/ ParseTree

Spec == Init /\ [][Next]_vars

-----------------------------------------------------------------------------
(* What a file is, over the integers.                                      *)

Inside(s, end) == s.offset + s.length <= end

HeaderGood == file.size >= 12 /\ file.header = "VTXF"

EndGood == file.magic = "VTXF" /\ file.version = 1 /\ file.psLen \in 1..65527

PostscriptGood ==
  file.psLen <= file.size - 8 /\ file.psLen <= MaxMetadata /\ file.postscript

PieceGood(s) ==
  s.present /\ s.usable /\ Inside(s, PostscriptStart) /\ s.length <= MaxMetadata

RegistryGood ==
  /\ file.footer
  /\ \A i \in 1..Len(file.registry) :
        Inside(file.registry[i], file.size) /\ file.registry[i].usable

SchemaGood ==
  /\ file.type /\ file.rootStruct
  /\ Cardinality({file.names[i] : i \in 1..Len(file.names)}) = Len(file.names)

WellFormed ==
  /\ HeaderGood /\ EndGood /\ PostscriptGood
  /\ \A name \in {"dtype", "footer", "layout"} : PieceGood(file.pieces[name])
  /\ RegistryGood /\ SchemaGood /\ file.tree

(* Open accepts exactly the files whose parts lie where they should, by     *)
(* sums that cannot overflow, whatever numbers the file holds.              *)
OpensExactly ==
  /\ pc = "opened" => WellFormed
  /\ pc = "refused" => broken \/ ~WellFormed

(* A segment of an open file is inside it as File.read sees it, in int64:   *)
(* a scan's read is never refused for its range (array.go:24).              *)
SegmentsReadable ==
  \A i \in 1..Len(segments) : RangeInFile(segments[i].offset, segments[i].length)
=============================================================================
