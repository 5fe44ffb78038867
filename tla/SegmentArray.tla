---------------------------- MODULE SegmentArray ----------------------------
(***************************************************************************)
(* The array of a segment (array.go, decodeFlat and parseArray).  A tree   *)
(* of metadata says how the array is encoded; it is kept in the layout's   *)
(* metadata, or else at the end of the segment, before a word with its     *)
(* length.  The rest of the segment is buffers, each after a padding.      *)
(*                                                                         *)
(* A segment is a record, with the bytes of its layout's metadata and what *)
(* they say: that they are the "tree", "nothing" about it, or "garbage".   *)
(* What FlatBuffer parsers make of bytes is part of it; MetadataWalk has   *)
(* the detail of the tree of nodes.                                        *)
(***************************************************************************)
EXTENDS Protobuf

CONSTANTS Segments,  \* segments, and one that has nothing wrong with it
          SoundSegment,
          Arrays,    \* a sequence of sets of arrays; the first is for all the segments
          MaxSegment, \* maxSegment
          DecodeTree(_, _, _) \* Decode, of a node, a type and a number of rows

\* The last field numbered 1 holds the tree, unless it is a number.
HoldsTree(trees) == trees # <<>> /\ Last(trees).wire = 2

\* What is said of the bytes is what is read from them.
SegmentOf(s) ==
  LET message == ProtoFields(s.metadata)
  IN  /\ s.length \in Nat /\ s.trailer \in Nat
      /\ s.buffers \in Seq([padding : Nat, length : Nat, plain : BOOLEAN])
      /\ s.says = "garbage" <=> ~message.ok
      /\ s.says = "tree" <=> message.ok /\ HoldsTree(Tagged(message.fields, 1))

SegmentsFit == \A s \in Segments \cup {SoundSegment} : SegmentOf(s)

ASSUME SegmentsAssumption == SegmentsFit

VARIABLES segment, \* its length, that of its trailer, and the flags below
          array,   \* the array in it: a node, a type and a number of rows
          stage,   \* "shape", "read", "metadata", "tree", "buffers", "node", "decoded" or "refused"
          room,    \* the bytes of the segment that are left for buffers
          buffers, \* ranges of the segment: start and end
          broken,  \* the source failed
          decoded  \* what Decode returned, or Pending

flatVars == <<segment, array, stage, room, buffers, broken, decoded>>

Pending == [ok |-> FALSE, pending |-> TRUE]
NoArray == [ok |-> FALSE]

Go(next) == stage' = next /\ UNCHANGED <<segment, array, room, buffers, broken, decoded>>

Test(now, ok, next) == stage = now /\ Go(IF ok THEN next ELSE "refused")

\* A flat layout without children, of one segment, and a number of rows.
CheckShape == Test("shape", segment.flat, "read")

\* Open has seen to it that the range is inside the file.
Read ==
  \/ Test("read", segment.length <= MaxSegment, "metadata")
  \/ /\ stage = "read"
     /\ stage' = "refused"
     /\ broken' = TRUE
     /\ UNCHANGED <<segment, array, room, buffers, decoded>>

\* A plausible bug: the tree is read from the segment, and left in it.
Whole(length, trailer) == length

\* What precedes the tree and its length.
Before(length, trailer) == length - 4 - trailer

TakeTree ==
  /\ stage = "metadata"
  /\ LET message == ProtoFields(segment.metadata)
         apart == HoldsTree(Tagged(message.fields, 1))
         inside == segment.length >= 4 /\ segment.trailer <= segment.length - 4
     IN  /\ stage' = IF message.ok /\ (apart \/ inside) THEN "tree" ELSE "refused"
         /\ room' = IF apart THEN segment.length ELSE Before(segment.length, segment.trailer)
  /\ UNCHANGED <<segment, array, buffers, broken, decoded>>

\* A root inside the tree, and no more buffers than it has room to describe.
CheckTree == Test("tree", segment.tree, "buffers")

End == IF buffers = <<>> THEN 0 ELSE buffers[Len(buffers)].to

CutBuffer ==
  /\ stage = "buffers"
  /\ Len(buffers) < Len(segment.buffers)
  /\ LET b == segment.buffers[Len(buffers) + 1]
         start == End + b.padding
         end == start + b.length
     IN  IF b.plain /\ end <= room
         THEN /\ buffers' = Append(buffers, [from |-> start, to |-> end])
              /\ UNCHANGED stage
         ELSE stage' = "refused" /\ UNCHANGED buffers
  /\ UNCHANGED <<segment, array, room, broken, decoded>>

AllCut == Len(buffers) = Len(segment.buffers) /\ Test("buffers", TRUE, "node")

\* parseNode and Decode.
DecodeNode ==
  /\ stage = "node"
  /\ decoded' = IF segment.node THEN DecodeTree(array.node, array.typ, array.n) ELSE NoArray
  /\ stage' = IF decoded'.ok THEN "decoded" ELSE "refused"
  /\ UNCHANGED <<segment, array, room, buffers, broken>>

FlatInit ==
  /\ \E i \in DOMAIN Arrays :
        array \in Arrays[i] /\ segment \in IF i = 1 THEN Segments ELSE {SoundSegment}
  /\ stage = "shape"
  /\ room = 0
  /\ buffers = <<>>
  /\ broken = FALSE
  /\ decoded = Pending

FlatNext == CheckShape \/ Read \/ TakeTree \/ CheckTree \/ CutBuffer \/ AllCut \/ DecodeNode

FlatSpec == FlatInit /\ [][FlatNext]_flatVars

-----------------------------------------------------------------------------
(* What a segment is.                                                      *)

\* Where each buffer ends; the first starts after its padding.
BufferEnds(bs) ==
  LET end[i \in 0..Len(bs)] == IF i = 0 THEN 0 ELSE end[i - 1] + bs[i].padding + bs[i].length
  IN  end

\* Where the tree and its length are, in the segment: nowhere if it is not there.
TreeBytes ==
  IF segment.says = "tree" THEN {}
  ELSE {i \in 0..(segment.length - 1) : i >= segment.length - segment.trailer - 4}

Fits ==
  BufferEnds(segment.buffers)[Len(segment.buffers)]
    + (IF segment.says = "tree" THEN 0 ELSE segment.trailer + 4) <= segment.length

WellFormed ==
  /\ segment.flat /\ segment.says # "garbage" /\ segment.tree /\ segment.node
  /\ segment.length <= MaxSegment
  /\ \A i \in 1..Len(segment.buffers) : segment.buffers[i].plain
  /\ Fits

(* Buffers of an array lie in its segment, one after the other, none of     *)
(* them over another or over the metadata at the segment's end, and have    *)
(* the lengths they are said to have; and an array is refused only when     *)
(* something is wrong with it, or with what it decodes to, never because    *)
(* its buffers fill the segment.                                            *)
BuffersExact ==
  /\ \A i \in 1..Len(buffers) :
        /\ buffers[i].to - buffers[i].from = segment.buffers[i].length
        /\ (buffers[i].from)..(buffers[i].to - 1) \subseteq (0..(segment.length - 1)) \ TreeBytes
        /\ \A j \in 1..(i - 1) : buffers[j].to + segment.buffers[i].padding <= buffers[i].from
  /\ stage = "decoded" => WellFormed
  /\ stage = "refused" => broken \/ ~WellFormed \/ ~DecodeTree(array.node, array.typ, array.n).ok
=============================================================================
