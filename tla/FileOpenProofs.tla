--------------------------- MODULE FileOpenProofs ---------------------------
(***************************************************************************)
(* For every file and every width of its integers: Open accepts exactly    *)
(* the files that are well formed, and the segments of an open file are    *)
(* ranges File.read accepts.                                               *)
(***************************************************************************)
EXTENDS FileOpen, FiniteSetTheorems, TLAPS

\* Segments are registered once, from the file; nothing else changes them.
IInv == file \in Files /\ SegmentsReadable

\* The comparison of uint64 ranges is that of their sums, and the offset of
\* such a range is the same as an int64.
LEMMA RangeFacts ==
  ASSUME NEW offset \in Nat, NEW length \in Nat, NEW end \in Nat, NEW s,
         s.offset = offset, s.length = length, end < Half, RangeBefore(s, end)
  PROVE  /\ offset + length <= end
         /\ Int64(offset) = offset
<1>1. Half \in Nat
  BY FileAssumption
<1> QED BY <1>1 DEF RangeBefore, Less, Int64

LEMMA RegistryInv == ASSUME IInv, ParseRegistry PROVE IInv'
<1>1. CASE segments' = segments
  BY <1>1 DEF IInv, SegmentsReadable, RangeInFile, ParseRegistry
<1>2. CASE segments' # segments
  <2>1. /\ \A i \in 1..Len(file.registry) : RangeBefore(file.registry[i], file.size)
        /\ segments' = [i \in 1..Len(file.registry) |->
                          [offset |-> Int64(file.registry[i].offset),
                           length |-> file.registry[i].length]]
        /\ file' = file
    BY <1>2 DEF ParseRegistry, Refuse
  <2>2. /\ file.size \in Nat /\ file.size < Half /\ Len(file.registry) \in Nat
        /\ \A i \in 1..Len(file.registry) :
              file.registry[i].offset \in Nat /\ file.registry[i].length \in Nat
    <3> DEFINE Ranges == [offset : Nat, length : Nat, usable : BOOLEAN]
    <3>1. file.size \in Nat /\ file.size < Half /\ file.registry \in Seq(Ranges)
      BY FileAssumption DEF IInv
    <3>2. ASSUME NEW R, NEW q \in Seq(R)
          PROVE  Len(q) \in Nat /\ \A i \in 1..Len(q) : q[i] \in R
      OBVIOUS
    <3>3. Len(file.registry) \in Nat /\ \A i \in 1..Len(file.registry) : file.registry[i] \in Ranges
      <4> HIDE DEF Ranges
      <4> QED BY <3>1, <3>2
    <3> QED BY <3>1, <3>3
  <2>3. Len(segments') = Len(file.registry)
    BY <2>1, <2>2
  <2>4. ASSUME NEW i \in 1..Len(segments')
        PROVE  RangeInFile(segments[i].offset, segments[i].length)'
    <3> DEFINE s == file.registry[i]
    <3>1. i \in 1..Len(file.registry) /\ RangeBefore(s, file.size)
      BY <2>1, <2>3
    <3>2. segments'[i].offset = Int64(s.offset) /\ segments'[i].length = s.length
      BY <2>1, <3>1
    <3>3. s.offset \in Nat /\ s.length \in Nat
      BY <2>2, <3>1
    <3> HIDE DEF s
    <3>4. s.offset + s.length <= file.size /\ Int64(s.offset) = s.offset
      BY <2>2, <3>1, <3>3, RangeFacts
    <3>5. /\ segments'[i].offset = s.offset /\ segments'[i].length = s.length
          /\ file'.size = file.size
      BY <2>1, <3>2, <3>4
    <3>6. /\ s.offset >= 0 /\ s.length >= 0 /\ s.offset <= file.size
          /\ s.length <= file.size - s.offset
      BY <2>2, <3>3, <3>4
    <3> QED BY <3>5, <3>6 DEF RangeInFile
  <2> QED BY <2>1, <2>4 DEF IInv, SegmentsReadable
<1> QED BY <1>1, <1>2

\* A step that reads or parses something else.
LEMMA OtherInv == ASSUME IInv, UNCHANGED <<file, segments>> PROVE IInv'
BY DEF IInv, SegmentsReadable, RangeInFile

LEMMA Inductive == ASSUME IInv, [Next]_vars PROVE IInv'
<1>1. CASE ParseRegistry
  BY <1>1, RegistryInv
<1>2. CASE ReadHeader \/ ReadEnd \/ ReadPostscript
  <2>1. ASSUME NEW offset, NEW length, NEW good, NEW next, Read(offset, length, good, next)
        PROVE  UNCHANGED <<file, segments>>
    BY <2>1, Zenon DEF Read, Refuse
  <2> SUFFICES UNCHANGED <<file, segments>>
    BY OtherInv
  <2>2. CASE ReadHeader
    <3>1. CASE file.size < 12
      BY <2>2, <3>1 DEF ReadHeader, Refuse
    <3>2. CASE ~(file.size < 12)
      <4>1. Read(0, 4, file.header = "VTXF", "eof")
        BY <2>2, <3>2, Zenon DEF ReadHeader
      <4> QED BY <2>1, <4>1, Zenon
    <3> QED BY <3>1, <3>2
  <2>3. CASE ReadEnd
    <3>1. Read(file.size - 8, 8, EndOK, "postscript")
      BY <2>3 DEF ReadEnd
    <3> QED BY <2>1, <3>1, Zenon
  <2>4. CASE ReadPostscript
    BY <2>1, <2>4, Zenon DEF ReadPostscript
  <2> QED BY <1>2, <2>2, <2>3, <2>4
<1>3. CASE GetDtype \/ GetFooter \/ GetLayout
  <2>1. UNCHANGED <<file, segments>>
    BY <1>3 DEF GetDtype, GetFooter, GetLayout, Get, Read, Refuse
  <2> QED BY <2>1, OtherInv
<1>4. CASE ParseSchema \/ ParseTree \/ UNCHANGED vars
  <2>1. UNCHANGED <<file, segments>>
    BY <1>4 DEF ParseSchema, ParseTree, Refuse, vars
  <2> QED BY <2>1, OtherInv
<1> QED BY <1>1, <1>2, <1>3, <1>4 DEF Next

(* A scan's read of a segment is never refused for its range: parseRegistry *)
(* compares in uint64 what File.read compares in int64.                     *)
THEOREM SegmentsAreReadable == Spec => []SegmentsReadable
<1>1. Init => IInv
  BY DEF Init, IInv, SegmentsReadable
<1>2. IInv /\ [Next]_vars => IInv'
  BY Inductive
<1>3. IInv => SegmentsReadable
  BY DEF IInv
<1> QED BY <1>1, <1>2, <1>3, PTL DEF Spec

-----------------------------------------------------------------------------
(* Open accepts exactly the well-formed files.  Each stage establishes one  *)
(* part of WellFormed, and a file that lacks a part is refused there.       *)

\* The stages after which a part has been found good.
AfterHeader ==
  {"eof", "postscript", "dtype", "footer", "layout", "registry", "schema", "tree", "opened"}
AfterEnd == AfterHeader \ {"eof"}
AfterPostscript == AfterEnd \ {"postscript"}
AfterDtype == AfterPostscript \ {"dtype"}
AfterFooter == AfterDtype \ {"footer"}
AfterLayout == AfterFooter \ {"layout"}
AfterRegistry == AfterLayout \ {"registry"}
AfterSchema == {"tree", "opened"}

OpenInv ==
  /\ file \in Files
  /\ pc \in AfterHeader \cup {"header", "refused"}
  /\ pc \in AfterHeader => HeaderGood
  /\ pc \in AfterEnd => EndGood
  /\ pc \in AfterPostscript => PostscriptGood
  /\ pc \in AfterDtype => PieceGood(file.pieces["dtype"])
  /\ pc \in AfterFooter => PieceGood(file.pieces["footer"])
  /\ pc \in AfterLayout => PieceGood(file.pieces["layout"])
  /\ pc \in AfterRegistry => RegistryGood
  /\ pc \in AfterSchema => SchemaGood
  /\ pc = "opened" => file.tree
  /\ pc = "refused" => broken \/ ~WellFormed

LEMMA WellFormedParts ==
  WellFormed <=> /\ HeaderGood /\ EndGood /\ PostscriptGood
                 /\ PieceGood(file.pieces["dtype"])
                 /\ PieceGood(file.pieces["footer"])
                 /\ PieceGood(file.pieces["layout"])
                 /\ RegistryGood /\ SchemaGood /\ file.tree
BY DEF WellFormed

\* The parts are of the file alone, which no step changes.
LEMMA SameFile ==
  ASSUME file' = file
  PROVE  /\ HeaderGood' <=> HeaderGood
         /\ EndGood' <=> EndGood
         /\ PostscriptGood' <=> PostscriptGood
         /\ \A s : PieceGood(s)' <=> PieceGood(s)
         /\ RegistryGood' <=> RegistryGood
         /\ SchemaGood' <=> SchemaGood
         /\ WellFormed' <=> WellFormed
<1>1. HeaderGood' <=> HeaderGood
  BY DEF HeaderGood
<1>2. EndGood' <=> EndGood
  BY DEF EndGood
<1>3. PostscriptGood' <=> PostscriptGood
  BY DEF PostscriptGood
<1>4. \A s : PieceGood(s)' <=> PieceGood(s)
  BY DEF PieceGood, Inside, PostscriptStart
<1>5. RegistryGood' <=> RegistryGood
  BY DEF RegistryGood, Inside
<1>6. SchemaGood' <=> SchemaGood
  BY Zenon DEF SchemaGood
<1>7. WellFormed' <=> WellFormed
  BY <1>1, <1>2, <1>3, <1>4, <1>5, <1>6 DEF WellFormed
<1> QED BY <1>1, <1>2, <1>3, <1>4, <1>5, <1>6, <1>7

\* What the constants say of the file that is open.
LEMMA FileFacts ==
  ASSUME file \in Files
  PROVE  /\ Half \in Nat /\ MaxMetadata \in Nat /\ MaxMetadata >= 8
         /\ file.size \in Nat /\ file.size < Half /\ file.psLen \in Nat
         /\ Len(file.names) \in Nat /\ Len(file.registry) \in Nat
         /\ \A name \in {"dtype", "footer", "layout"} :
               /\ file.pieces[name].offset \in Nat /\ file.pieces[name].length \in Nat
               /\ file.pieces[name].offset < 2 * Half
         /\ \A i \in 1..Len(file.registry) :
               file.registry[i].offset \in Nat /\ file.registry[i].length \in Nat
<1> DEFINE Ranges == [offset : Nat, length : Nat, usable : BOOLEAN]
<1>1. file.registry \in Seq(Ranges)
  BY FileAssumption
<1>2. ASSUME NEW R, NEW q \in Seq(R)
      PROVE  Len(q) \in Nat /\ \A i \in 1..Len(q) : q[i] \in R
  OBVIOUS
<1>3. Len(file.registry) \in Nat /\ \A i \in 1..Len(file.registry) : file.registry[i] \in Ranges
  <2> HIDE DEF Ranges
  <2> QED BY <1>1, <1>2
<1> QED BY <1>3, FileAssumption

\* The comparison of uint64 numbers is that of the sum, both ways.
LEMMA RangeExact ==
  ASSUME NEW offset \in Nat, NEW length \in Nat, NEW end \in Nat, NEW s,
         s.offset = offset, s.length = length, end < Half
  PROVE  RangeBefore(s, end) <=> Inside(s, end)
<1>1. Half \in Nat
  BY FileAssumption
<1> QED BY <1>1 DEF RangeBefore, Less, Inside

\* No two columns have one name: what the map of names seen decides.
LEMMA NamesExact ==
  ASSUME NEW names, Len(names) \in Nat
  PROVE  DistinctNames(names)
           <=> Cardinality({names[i] : i \in 1..Len(names)}) = Len(names)
<1> DEFINE I == 1..Len(names)
           T == {names[i] : i \in I}
           f == [i \in I |-> names[i]]
<1>1. IsFiniteSet(I) /\ Cardinality(I) = Len(names)
  BY FS_Interval, SMTT(30)
<1>2. f \in Surjection(I, T)
  BY DEF Surjection
<1>3. Cardinality(T) = Cardinality(I) <=> f \in Injection(I, T)
  <2> HIDE DEF I, T, f
  <2> QED BY <1>1, <1>2, FS_Surjection
<1>4. f \in Injection(I, T) <=> DistinctNames(names)
  <2>1. f \in [I -> T]
    OBVIOUS
  <2> QED BY <2>1 DEF Injection, IsInjective, DistinctNames
<1> QED BY <1>1, <1>3, <1>4

\* A read goes on with what it asked for, or refuses a file that lacks it.
LEMMA ReadOutcome ==
  ASSUME NEW offset, NEW length, NEW good, NEW next, Read(offset, length, good, next)
  PROVE  /\ file' = file
         /\ \/ pc' = next /\ RangeInFile(offset, length) /\ length <= MaxMetadata /\ good
            \/ pc' = "refused" /\ broken'
            \/ pc' = "refused" /\ ~(RangeInFile(offset, length) /\ length <= MaxMetadata /\ good)
BY DEF Read, Refuse


\* A stage that ends in one of these two ways keeps the invariant.
LEMMA RefusedStep ==
  ASSUME OpenInv, file' = file, pc' = "refused", broken' \/ ~WellFormed
  PROVE  OpenInv'
<1>1. WellFormed' <=> WellFormed
  BY SameFile
<1> QED BY <1>1
     DEF OpenInv, AfterHeader, AfterEnd, AfterPostscript, AfterDtype, AfterFooter,
         AfterLayout, AfterRegistry, AfterSchema

\* Each stage in turn: it goes on with its part, or refuses a file without it.
LEMMA HeaderStep == ASSUME OpenInv, ReadHeader PROVE OpenInv'
<1>1. Half \in Nat /\ MaxMetadata \in Nat /\ MaxMetadata >= 8 /\ file.size \in Nat
  BY FileFacts DEF OpenInv
<1>2. /\ file' = file
      /\ \/ pc' = "eof" /\ HeaderGood
         \/ pc' = "refused" /\ (broken' \/ ~HeaderGood)
  <2>1. CASE file.size < 12
    BY <1>1, <2>1 DEF ReadHeader, Refuse, HeaderGood
  <2>2. CASE ~(file.size < 12)
    <3>1. Read(0, 4, file.header = "VTXF", "eof")
      BY <2>2, Zenon DEF ReadHeader
    <3>2. RangeInFile(0, 4) /\ 4 <= MaxMetadata /\ file.size >= 12
      BY <1>1, <2>2 DEF RangeInFile
    <3> QED BY <3>1, <3>2, ReadOutcome, ZenonT(40) DEF HeaderGood
  <2> QED BY <2>1, <2>2
<1>3. CASE pc' = "refused" /\ (broken' \/ ~HeaderGood)
  BY <1>2, <1>3, WellFormedParts, RefusedStep
<1>4. CASE pc' = "eof" /\ HeaderGood
  BY <1>2, <1>4, SameFile
     DEF OpenInv, AfterHeader, AfterEnd, AfterPostscript, AfterDtype, AfterFooter,
         AfterLayout, AfterRegistry, AfterSchema
<1> QED BY <1>2, <1>3, <1>4

LEMMA EndStep == ASSUME OpenInv, ReadEnd PROVE OpenInv'
<1>1. /\ MaxMetadata \in Nat /\ MaxMetadata >= 8 /\ file.size \in Nat /\ file.size >= 12
      /\ pc = "eof"
  BY FileFacts DEF OpenInv, ReadEnd, AfterHeader, HeaderGood
<1>2. /\ file' = file
      /\ \/ pc' = "postscript" /\ EndGood
         \/ pc' = "refused" /\ (broken' \/ ~EndGood)
  <2>1. Read(file.size - 8, 8, EndOK, "postscript")
    BY DEF ReadEnd
  <2>2. RangeInFile(file.size - 8, 8) /\ 8 <= MaxMetadata
    BY <1>1 DEF RangeInFile
  <2>3. EndOK <=> EndGood
    BY DEF EndOK, EndGood
  <2>4. /\ file' = file
        /\ \/ pc' = "postscript" /\ EndOK
           \/ pc' = "refused" /\ (broken' \/ ~EndOK)
    BY <2>1, <2>2, ReadOutcome
  <2> QED BY <2>3, <2>4
<1>3. CASE pc' = "refused" /\ (broken' \/ ~EndGood)
  BY <1>2, <1>3, WellFormedParts, RefusedStep
<1>4. CASE pc' = "postscript" /\ EndGood
  BY <1>2, <1>4, SameFile, <1>1
     DEF OpenInv, AfterHeader, AfterEnd, AfterPostscript, AfterDtype, AfterFooter,
         AfterLayout, AfterRegistry, AfterSchema
<1> QED BY <1>2, <1>3, <1>4

LEMMA PostscriptStep == ASSUME OpenInv, ReadPostscript PROVE OpenInv'
<1>1. /\ MaxMetadata \in Nat /\ file.size \in Nat /\ file.psLen \in Nat
      /\ pc = "postscript"
  BY FileFacts DEF OpenInv, ReadPostscript
<1>2. /\ file' = file
      /\ \/ pc' = "dtype" /\ PostscriptGood
         \/ pc' = "refused" /\ (broken' \/ ~PostscriptGood)
  <2>1. Read(PostscriptStart, file.psLen, file.postscript, "dtype")
    BY DEF ReadPostscript
  <2>2. RangeInFile(PostscriptStart, file.psLen) <=> file.psLen <= file.size - 8
    BY <1>1 DEF RangeInFile, PostscriptStart
  <2>3. PostscriptGood <=> /\ RangeInFile(PostscriptStart, file.psLen)
                           /\ file.psLen <= MaxMetadata /\ file.postscript
    BY <2>2 DEF PostscriptGood
  <2>4. /\ file' = file
        /\ \/ /\ pc' = "dtype" /\ RangeInFile(PostscriptStart, file.psLen)
              /\ file.psLen <= MaxMetadata /\ file.postscript
           \/ pc' = "refused" /\ broken'
           \/ /\ pc' = "refused"
              /\ ~(/\ RangeInFile(PostscriptStart, file.psLen)
                   /\ file.psLen <= MaxMetadata /\ file.postscript)
    BY <2>1, ReadOutcome
  <2> QED BY <2>3, <2>4
<1>3. CASE pc' = "refused" /\ (broken' \/ ~PostscriptGood)
  BY <1>2, <1>3, WellFormedParts, RefusedStep
<1>4. CASE pc' = "dtype" /\ PostscriptGood
  BY <1>2, <1>4, SameFile, <1>1
     DEF OpenInv, AfterHeader, AfterEnd, AfterPostscript, AfterDtype, AfterFooter,
         AfterLayout, AfterRegistry, AfterSchema
<1> QED BY <1>2, <1>3, <1>4

\* `get` accepts exactly the pieces that lie before the postscript.
LEMMA GetOutcome ==
  ASSUME OpenInv, PostscriptGood, NEW name \in {"dtype", "footer", "layout"}, NEW next,
         Get(name, next)
  PROVE  /\ file' = file
         /\ \/ pc' = next /\ PieceGood(file.pieces[name])
            \/ pc' = "refused" /\ (broken' \/ ~PieceGood(file.pieces[name]))
<1> DEFINE s == file.pieces[name]
<1>1. /\ Half \in Nat /\ MaxMetadata \in Nat
      /\ file.size \in Nat /\ file.size < Half /\ file.psLen \in Nat
      /\ s.offset \in Nat /\ s.length \in Nat
  BY FileFacts DEF OpenInv
<1>2. /\ PostscriptStart \in Nat /\ PostscriptStart < Half /\ PostscriptStart <= file.size
  BY <1>1 DEF PostscriptGood, PostscriptStart
<1>3. \/ s.present /\ s.usable /\ RangeBefore(s, PostscriptStart)
         /\ Read(Int64(s.offset), s.length, TRUE, next)
      \/ ~(s.present /\ s.usable /\ RangeBefore(s, PostscriptStart))
         /\ file' = file /\ pc' = "refused"
  BY Zenon DEF Get, Refuse
<1> HIDE DEF s
<1>4. RangeBefore(s, PostscriptStart) <=> Inside(s, PostscriptStart)
  BY <1>1, <1>2, RangeExact
<1>5. ASSUME Inside(s, PostscriptStart)
      PROVE  RangeInFile(Int64(s.offset), s.length)
  BY <1>1, <1>2, <1>5 DEF Inside, Int64, RangeInFile
<1>6. PieceGood(s) <=> /\ s.present /\ s.usable
                       /\ Inside(s, PostscriptStart) /\ s.length <= MaxMetadata
  BY Zenon DEF PieceGood
<1>7. /\ file' = file
      /\ \/ pc' = next /\ PieceGood(s)
         \/ pc' = "refused" /\ (broken' \/ ~PieceGood(s))
  BY <1>3, <1>4, <1>5, <1>6, ReadOutcome, Zenon
<1> QED BY <1>7 DEF s

LEMMA DtypeStep == ASSUME OpenInv, GetDtype PROVE OpenInv'
<1>1. pc = "dtype" /\ PostscriptGood
  BY DEF GetDtype, Get, OpenInv, AfterHeader, AfterEnd, AfterPostscript, AfterDtype, AfterFooter
<1>2. /\ file' = file
      /\ \/ pc' = "footer" /\ PieceGood(file.pieces["dtype"])
         \/ pc' = "refused" /\ (broken' \/ ~PieceGood(file.pieces["dtype"]))
  BY <1>1, GetOutcome DEF GetDtype
<1>3. CASE pc' = "refused" /\ (broken' \/ ~PieceGood(file.pieces["dtype"]))
  BY <1>2, <1>3, WellFormedParts, RefusedStep
<1>4. CASE pc' = "footer" /\ PieceGood(file.pieces["dtype"])
  BY <1>2, <1>4, SameFile, <1>1
     DEF OpenInv, AfterHeader, AfterEnd, AfterPostscript, AfterDtype, AfterFooter,
         AfterLayout, AfterRegistry, AfterSchema
<1> QED BY <1>2, <1>3, <1>4

LEMMA FooterStep == ASSUME OpenInv, GetFooter PROVE OpenInv'
<1>1. pc = "footer" /\ PostscriptGood
  BY DEF GetFooter, Get, OpenInv, AfterHeader, AfterEnd, AfterPostscript, AfterDtype, AfterFooter
<1>2. /\ file' = file
      /\ \/ pc' = "layout" /\ PieceGood(file.pieces["footer"])
         \/ pc' = "refused" /\ (broken' \/ ~PieceGood(file.pieces["footer"]))
  BY <1>1, GetOutcome DEF GetFooter
<1>3. CASE pc' = "refused" /\ (broken' \/ ~PieceGood(file.pieces["footer"]))
  BY <1>2, <1>3, WellFormedParts, RefusedStep
<1>4. CASE pc' = "layout" /\ PieceGood(file.pieces["footer"])
  BY <1>2, <1>4, SameFile, <1>1
     DEF OpenInv, AfterHeader, AfterEnd, AfterPostscript, AfterDtype, AfterFooter,
         AfterLayout, AfterRegistry, AfterSchema
<1> QED BY <1>2, <1>3, <1>4

LEMMA LayoutStep == ASSUME OpenInv, GetLayout PROVE OpenInv'
<1>1. pc = "layout" /\ PostscriptGood
  BY DEF GetLayout, Get, OpenInv, AfterHeader, AfterEnd, AfterPostscript, AfterDtype, AfterFooter
<1>2. /\ file' = file
      /\ \/ pc' = "registry" /\ PieceGood(file.pieces["layout"])
         \/ pc' = "refused" /\ (broken' \/ ~PieceGood(file.pieces["layout"]))
  BY <1>1, GetOutcome DEF GetLayout
<1>3. CASE pc' = "refused" /\ (broken' \/ ~PieceGood(file.pieces["layout"]))
  BY <1>2, <1>3, WellFormedParts, RefusedStep
<1>4. CASE pc' = "registry" /\ PieceGood(file.pieces["layout"])
  BY <1>2, <1>4, SameFile, <1>1
     DEF OpenInv, AfterHeader, AfterEnd, AfterPostscript, AfterDtype, AfterFooter,
         AfterLayout, AfterRegistry, AfterSchema
<1> QED BY <1>2, <1>3, <1>4

LEMMA RegistryStep == ASSUME OpenInv, ParseRegistry PROVE OpenInv'
<1>1. /\ file.size \in Nat /\ file.size < Half
      /\ \A i \in 1..Len(file.registry) :
            file.registry[i].offset \in Nat /\ file.registry[i].length \in Nat
      /\ pc = "registry"
  BY FileFacts DEF OpenInv, ParseRegistry
<1>2. /\ file' = file
      /\ \/ pc' = "schema" /\ RegistryGood
         \/ pc' = "refused" /\ (broken' \/ ~RegistryGood)
  <2>1. \A i \in 1..Len(file.registry) :
           RangeBefore(file.registry[i], file.size) <=> Inside(file.registry[i], file.size)
    BY <1>1, RangeExact
  <2> QED BY <2>1, Zenon DEF ParseRegistry, Refuse, RegistryGood
<1>3. CASE pc' = "refused" /\ (broken' \/ ~RegistryGood)
  BY <1>2, <1>3, WellFormedParts, RefusedStep
<1>4. CASE pc' = "schema" /\ RegistryGood
  BY <1>2, <1>4, SameFile, <1>1
     DEF OpenInv, AfterHeader, AfterEnd, AfterPostscript, AfterDtype, AfterFooter,
         AfterLayout, AfterRegistry, AfterSchema
<1> QED BY <1>2, <1>3, <1>4

LEMMA SchemaStep == ASSUME OpenInv, ParseSchema PROVE OpenInv'
<1>1. Len(file.names) \in Nat /\ pc = "schema"
  BY FileFacts DEF OpenInv, ParseSchema
<1>2. /\ file' = file
      /\ \/ pc' = "tree" /\ SchemaGood
         \/ pc' = "refused" /\ (broken' \/ ~SchemaGood)
  <2>1. DistinctNames(file.names)
          <=> Cardinality({file.names[i] : i \in 1..Len(file.names)}) = Len(file.names)
    BY <1>1, NamesExact
  <2> QED BY <2>1, Zenon DEF ParseSchema, Refuse, SchemaGood
<1>3. CASE pc' = "refused" /\ (broken' \/ ~SchemaGood)
  BY <1>2, <1>3, WellFormedParts, RefusedStep
<1>4. CASE pc' = "tree" /\ SchemaGood
  BY <1>2, <1>4, SameFile, <1>1
     DEF OpenInv, AfterHeader, AfterEnd, AfterPostscript, AfterDtype, AfterFooter,
         AfterLayout, AfterRegistry, AfterSchema
<1> QED BY <1>2, <1>3, <1>4

LEMMA TreeStep == ASSUME OpenInv, ParseTree PROVE OpenInv'
<1>1. pc = "tree"
  BY DEF ParseTree
<1>2. /\ file' = file
      /\ \/ pc' = "opened" /\ file.tree
         \/ pc' = "refused" /\ (broken' \/ ~file.tree)
  BY DEF ParseTree, Refuse
<1>3. CASE pc' = "refused" /\ (broken' \/ ~file.tree)
  BY <1>2, <1>3, WellFormedParts, RefusedStep
<1>4. CASE pc' = "opened" /\ file.tree
  BY <1>2, <1>4, SameFile, <1>1
     DEF OpenInv, AfterHeader, AfterEnd, AfterPostscript, AfterDtype, AfterFooter,
         AfterLayout, AfterRegistry, AfterSchema
<1> QED BY <1>2, <1>3, <1>4

LEMMA OpenInductive == ASSUME OpenInv, [Next]_vars PROVE OpenInv'
<1>1. CASE UNCHANGED vars
  <2>1. file' = file /\ pc' = pc /\ broken' = broken
    BY <1>1 DEF vars
  <2> QED BY <2>1, SameFile DEF OpenInv
<1> QED BY <1>1, HeaderStep, EndStep, PostscriptStep, DtypeStep, FooterStep, LayoutStep,
           RegistryStep, SchemaStep, TreeStep DEF Next

(* Open accepts every well-formed file it can read, and no other, whatever  *)
(* numbers the file holds: no sum of Open's overflows, and no difference    *)
(* wraps around.                                                            *)
THEOREM OpensWellFormed == Spec => []OpensExactly
<1>1. Init => OpenInv
  BY DEF Init, OpenInv, AfterHeader, AfterEnd, AfterPostscript, AfterDtype, AfterFooter,
         AfterLayout, AfterRegistry, AfterSchema
<1>2. OpenInv /\ [Next]_vars => OpenInv'
  BY OpenInductive
<1>3. OpenInv => OpensExactly
  BY WellFormedParts
     DEF OpenInv, OpensExactly, AfterHeader, AfterEnd, AfterPostscript, AfterDtype,
         AfterFooter, AfterLayout, AfterRegistry, AfterSchema
<1> QED BY <1>1, <1>2, <1>3, PTL DEF Spec
=============================================================================
