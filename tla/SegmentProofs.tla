---------------------------- MODULE SegmentProofs ----------------------------
(***************************************************************************)
(* Segments, whatever the source and the metadata say.  For every file     *)
(* size, range, piece size and answer of the source, no read asks outside  *)
(* the file, and one that succeeds returns the range.                      *)
(*                                                                         *)
(* In the second half, of what a read returned: for every segment, the     *)
(* buffers that its metadata describe are cut from it exactly.             *)
(***************************************************************************)
EXTENDS SegmentRead, SegmentArray, WellFoundedInduction, TLAPS

\* While the source is read, the range is in the file, and what is done of it
\* is in the buffer.
InRange ==
  pc \in {"loop", "reading"} =>
    /\ offset >= 0 /\ length >= 0 /\ offset + length <= Size
    /\ DOMAIN out = 0..(length - 1)
    /\ \A i \in 0..(done - 1) : out[i] = offset + i

ControlInv ==
  /\ pc # "idle" => result = "none"
  /\ pc = "begun" => done = 0
  /\ pc = "reading" => done < length

IInv == TypeOK /\ InRange /\ ControlInv /\ ReadWhole

LEMMA ReturnInv ==
  ASSUME IInv, NEW r \in Results \ {"none", "ok"}, Return(r),
         answer' \in [asked : Nat, n : Int, err : Errors]
  PROVE  IInv'
BY DEF IInv, TypeOK, InRange, ControlInv, ReadWhole, Return

LEMMA PieceFacts ==
  ASSUME IInv, pc = "reading"
  PROVE  /\ PieceEnd \in Nat /\ done < PieceEnd /\ PieceEnd <= length
         /\ Asked \in 1..MaxRead /\ Asked = PieceEnd - done
BY ReadAssumption DEF IInv, TypeOK, ControlInv, PieceEnd, Asked

LEMMA AnswerInv == ASSUME IInv, Answer PROVE IInv'
<1> USE DEF IInv
<1>1. PICK n \in -1..(MaxRead + 1), e \in Errors :
        answer' = [asked |-> Asked, n |-> n, err |-> e] /\ Answered(n, e)
  BY DEF Answer
<1>2. pc = "reading" /\ n \in Int
  BY <1>1, ReadAssumption DEF Answer
<1>3. /\ PieceEnd \in Nat /\ done < PieceEnd /\ PieceEnd <= length
      /\ Asked \in 1..MaxRead /\ Asked \in Nat
  BY <1>2, PieceFacts, ReadAssumption
<1>4. answer' \in [asked : Nat, n : Int, err : Errors]
  BY <1>1, <1>2, <1>3
<1>5. CASE n < 0 \/ n > Asked
  <2>1. Return("invalid")
    BY <1>1, <1>2, <1>3, <1>5 DEF Answered
  <2> QED BY <1>4, <2>1, ReturnInv DEF Results
<1>6. CASE n \in 0..(Asked - 1)
  <2>1. FailShort(n, e)
    BY <1>1, <1>2, <1>3, <1>6 DEF Answered
  <2>2. Return("unexpectedEOF") \/ (e # "nil" /\ Return(e))
    BY <2>1 DEF FailShort
  <2> QED BY <1>4, <2>2, ReturnInv DEF Results, Errors
<1>7. CASE n = Asked /\ IsFailure(e)
  <2>1. Return(e)
    BY <1>1, <1>2, <1>3, <1>7 DEF Answered
  <2>2. e = "failed"
    BY <1>7 DEF IsFailure, Errors
  <2> QED BY <1>4, <2>1, <2>2, ReturnInv DEF Results
<1>8. CASE n = Asked /\ ~IsFailure(e)
  <2>1. /\ pc' = "loop" /\ done' = PieceEnd
        /\ out' = [i \in DOMAIN out |->
                     IF i \in done..(PieceEnd - 1) THEN SourceOffset + (i - done) ELSE out[i]]
        /\ UNCHANGED <<offset, length, canceled, result>>
    BY <1>1, <1>2, <1>3, <1>8 DEF Answered
  <2>2. /\ offset \in Int /\ length \in Int /\ done \in Nat
        /\ DOMAIN out = 0..(length - 1)
        /\ \A i \in 0..(done - 1) : out[i] = offset + i
        /\ \A i \in DOMAIN out : out[i] \in Int
    BY <1>2 DEF TypeOK, InRange
  <2>3. DOMAIN out' = 0..(length - 1) /\ \A i \in DOMAIN out' : out'[i] \in Int
    BY <2>1, <2>2 DEF SourceOffset
  <2>4. \A i \in 0..(PieceEnd - 1) : out'[i] = offset + i
    <3>1. ASSUME NEW i \in 0..(PieceEnd - 1) PROVE i \in DOMAIN out /\ i \in Int
      BY <1>3, <2>2
    <3>2. ASSUME NEW i \in 0..(PieceEnd - 1), i \in done..(PieceEnd - 1)
          PROVE  out'[i] = offset + i
      <4>1. out'[i] = SourceOffset + (i - done)
        BY <2>1, <3>1, <3>2
      <4> QED BY <2>2, <3>1, <4>1 DEF SourceOffset
    <3>3. ASSUME NEW i \in 0..(PieceEnd - 1), i \notin done..(PieceEnd - 1)
          PROVE  out'[i] = offset + i
      <4>1. i \in 0..(done - 1)
        BY <1>3, <2>2, <3>3
      <4> QED BY <2>1, <2>2, <3>1, <3>3, <4>1
    <3> QED BY <3>2, <3>3
  <2>5. TypeOK'
    BY <1>3, <1>4, <2>1, <2>2, <2>3 DEF TypeOK
  <2>6. InRange' /\ ControlInv' /\ ReadWhole'
    BY <1>2, <2>1, <2>3, <2>4 DEF InRange, ControlInv, ReadWhole
  <2> QED BY <2>5, <2>6
<1> QED BY <1>2, <1>3, <1>5, <1>6, <1>7, <1>8

LEMMA Inductive == ASSUME IInv, [Next]_vars PROVE IInv'
<1> USE DEF IInv
<1>1. CASE Call
  BY <1>1, ReadAssumption
  DEF TypeOK, InRange, ControlInv, ReadWhole, Call, NoAnswer, Errors, Results
<1>2. CASE Refuse
  BY <1>2, ReturnInv DEF Refuse, Results, TypeOK
<1>3. CASE Accept
  <2>1. pc' = "loop" /\ out' = [i \in 0..(length - 1) |-> Blank] /\ pc = "begun"
        /\ UNCHANGED <<offset, length, done, canceled, answer, result>>
        /\ offset >= 0 /\ length >= 0 /\ offset + length <= Size /\ done = 0
    BY <1>3, ReadAssumption DEF Accept, RangeInFile, ControlInv, TypeOK
  <2>2. TypeOK'
    BY <2>1 DEF TypeOK, Blank
  <2> QED BY <2>1, <2>2 DEF InRange, ControlInv, ReadWhole, TypeOK
<1>4. CASE AskSource
  BY <1>4 DEF AskSource, TypeOK, InRange, ControlInv, ReadWhole
<1>5. CASE StopCanceled
  BY <1>5, ReturnInv DEF StopCanceled, Results, TypeOK
<1>6. CASE Finish
  <2>1. done = length
    BY <1>6 DEF Finish, TypeOK
  <2> QED BY <1>6, <2>1 DEF Finish, Return, TypeOK, InRange, ControlInv, ReadWhole, Results
<1>7. CASE Answer
  BY <1>7, AnswerInv
<1>8. CASE Cancel
  BY <1>8 DEF Cancel, TypeOK, InRange, ControlInv, ReadWhole
<1>9. CASE UNCHANGED vars
  BY <1>9 DEF vars, TypeOK, InRange, ControlInv, ReadWhole
<1> QED BY <1>1, <1>2, <1>3, <1>4, <1>5, <1>6, <1>7, <1>8, <1>9 DEF Next, Step

LEMMA Invariance == Spec => []IInv
<1>1. ASSUME Init PROVE IInv
  <2>1. TypeOK
    <3>1. DOMAIN out = {}
      BY <1>1 DEF Init
    <3>2. answer \in [asked : Nat, n : Int, err : Errors]
      BY <1>1 DEF Init, NoAnswer, Errors
    <3>3. offset \in Int /\ length \in Int /\ done \in Nat
      BY <1>1 DEF Init
    <3>4. DOMAIN out \subseteq Nat /\ \A i \in DOMAIN out : out[i] \in Int
      BY <3>1
    <3>5. pc = "idle" /\ canceled \in BOOLEAN /\ result \in Results
      BY <1>1 DEF Init, Results
    <3> QED BY <3>2, <3>3, <3>4, <3>5 DEF TypeOK
  <2> QED BY <1>1, <2>1 DEF Init, IInv, InRange, ControlInv, ReadWhole
<1>2. IInv /\ [Next]_vars => IInv'
  BY Inductive
<1> QED BY <1>1, <1>2, PTL DEF Spec

(* No read asks the source for more than maxRead bytes, or for a byte       *)
(* outside the file, whatever range it was called with.                     *)
THEOREM StaysInsideFile == Spec => []ReadsInsideFile
<1>1. IInv => ReadsInsideFile
  <2> SUFFICES ASSUME IInv, pc = "reading" PROVE ReadsInsideFile
    BY DEF ReadsInsideFile
  <2>1. /\ PieceEnd \in Nat /\ done < PieceEnd /\ PieceEnd <= length
        /\ Asked \in 1..MaxRead /\ Asked = PieceEnd - done
    BY PieceFacts
  <2>2. offset \in Int /\ length \in Int /\ done \in Nat /\ Size \in Nat
        /\ offset >= 0 /\ offset + length <= Size
    BY ReadAssumption DEF IInv, TypeOK, InRange
  <2> QED BY <2>1, <2>2 DEF ReadsInsideFile, SourceOffset
<1> QED BY <1>1, Invariance, PTL

(* A read that succeeds returns each byte of its range at its place.        *)
THEOREM ReturnsTheRange == Spec => []ReadWhole
<1>1. IInv => ReadWhole
  BY DEF IInv
<1> QED BY <1>1, Invariance, PTL

-----------------------------------------------------------------------------
(* What the answers of the source decide.                                  *)

\* A read that has got somewhere got there by a whole answer that was no failure.
LastWhole ==
  pc \in {"loop", "reading"} /\ done > 0 =>
    answer.n = answer.asked /\ answer.err # "failed"

AnsweredInv == IInv /\ LastWhole /\ FailsOnlyIfSourceDid

LEMMA AnsweredStep == ASSUME AnsweredInv, [Next]_vars PROVE AnsweredInv'
<1> USE DEF AnsweredInv
<1>1. IInv'
  BY Inductive
<1>2. CASE Call
  BY <1>1, <1>2 DEF Call, LastWhole, FailsOnlyIfSourceDid
<1>3. CASE Refuse \/ StopCanceled
  BY <1>1, <1>3 DEF Refuse, StopCanceled, Return, LastWhole, FailsOnlyIfSourceDid
<1>4. CASE Accept
  BY <1>1, <1>4 DEF Accept, LastWhole, FailsOnlyIfSourceDid, IInv, ControlInv
<1>5. CASE AskSource
  BY <1>1, <1>5 DEF AskSource, LastWhole, FailsOnlyIfSourceDid
<1>6. CASE Finish
  <2>1. length > 0 => done > 0
    BY <1>6 DEF Finish, IInv, TypeOK
  <2> QED BY <1>1, <1>6, <2>1 DEF Finish, Return, LastWhole, FailsOnlyIfSourceDid
<1>7. CASE Answer
  <2>1. PICK n \in -1..(MaxRead + 1), e \in Errors :
          answer' = [asked |-> Asked, n |-> n, err |-> e] /\ Answered(n, e)
    BY <1>7 DEF Answer
  <2>2. pc = "reading" /\ result = "none"
    BY <1>7 DEF Answer, IInv, ControlInv
  <2>3. answer'.asked = Asked /\ answer'.n = n /\ answer'.err = e
    BY <2>1
  <2>4. CASE n < 0 \/ n > Asked
    <3>1. Return("invalid") \/ n \in 0..(Asked - 1) \/ n = Asked
      BY <2>1 DEF Answered
    <3>2. Asked \in Nat /\ n \in Int
      BY <2>2, PieceFacts, ReadAssumption
    <3> QED BY <1>1, <2>4, <3>1, <3>2 DEF Return, LastWhole, FailsOnlyIfSourceDid
  <2>5. CASE n \in 0..(Asked - 1)
    <3>1. Asked \in Nat
      BY <2>2, PieceFacts, ReadAssumption
    <3>2. FailShort(n, e)
      BY <2>1, <2>5, <3>1 DEF Answered
    <3>3. pc' = "idle" /\ result' # "ok"
      BY <3>2 DEF FailShort, Return, Errors
    <3> QED BY <1>1, <2>3, <2>5, <3>3 DEF LastWhole, FailsOnlyIfSourceDid
  <2>6. CASE n = Asked /\ IsFailure(e)
    <3>1. Asked \in Nat
      BY <2>2, PieceFacts, ReadAssumption
    <3>2. Return(e) /\ e = "failed"
      BY <2>1, <2>6, <3>1 DEF Answered, IsFailure, Errors
    <3> QED BY <1>1, <3>2 DEF Return, LastWhole, FailsOnlyIfSourceDid
  <2>7. CASE n = Asked /\ ~IsFailure(e)
    <3>1. Asked \in Nat
      BY <2>2, PieceFacts, ReadAssumption
    <3>2. pc' = "loop" /\ result' = result
      BY <2>1, <2>7, <3>1 DEF Answered
    <3> QED BY <1>1, <2>2, <2>3, <2>7, <3>2 DEF IsFailure, LastWhole, FailsOnlyIfSourceDid
  <2>8. Asked \in Nat /\ n \in Int
    BY <2>2, PieceFacts, ReadAssumption
  <2> QED BY <2>4, <2>5, <2>6, <2>7, <2>8
<1>8. CASE Cancel
  BY <1>1, <1>8 DEF Cancel, LastWhole, FailsOnlyIfSourceDid
<1>9. CASE UNCHANGED vars
  BY <1>1, <1>9 DEF vars, LastWhole, FailsOnlyIfSourceDid
<1> QED BY <1>2, <1>3, <1>4, <1>5, <1>6, <1>7, <1>8, <1>9 DEF Next, Step

(* The io.ReaderAt contract, for every source: read reports an end of file  *)
(* only after a short answer, and succeeds only after a whole one that was  *)
(* no failure, with or without io.EOF.                                      *)
THEOREM KeepsReaderAtContract == Spec => []FailsOnlyIfSourceDid
<1>1. Spec => []AnsweredInv
  <2>1. Init => LastWhole /\ FailsOnlyIfSourceDid
    BY DEF Init, LastWhole, FailsOnlyIfSourceDid
  <2>2. AnsweredInv /\ [Next]_vars => AnsweredInv'
    BY AnsweredStep
  <2>3. IInv /\ LastWhole /\ FailsOnlyIfSourceDid => AnsweredInv
    BY DEF AnsweredInv
  <2> QED BY <2>1, <2>2, <2>3, Invariance, PTL DEF Spec
<1>2. AnsweredInv => FailsOnlyIfSourceDid
  BY DEF AnsweredInv
<1> QED BY <1>1, <1>2, PTL

-----------------------------------------------------------------------------
(* The array of a segment.                                                 *)

LEMMA Induct ==
  ASSUME NEW S \in SUBSET Nat, 0 \in S, \A n \in S : n + 1 \in S
  PROVE  S = Nat
<1> SUFFICES ASSUME Nat \ S # {} PROVE FALSE
  OBVIOUS
<1> DEFINE R == OpToRel(<, Nat)
<1>1. IsWellFoundedOn(R, Nat)
  BY NatLessThanWellFounded
<1>2. \E n \in Nat \ S : \A m \in Nat \ S : ~(<<m, n>> \in R)
  <2> HIDE DEF R
  <2> QED BY <1>1, WFMin
<1>3. \A m, n \in Nat : <<m, n>> \in R <=> m < n
  BY DEF OpToRel
<1> HIDE DEF R
<1>4. PICK n \in Nat \ S : \A m \in Nat \ S : ~(m < n)
  BY <1>2, <1>3
<1>5. n # 0 /\ n - 1 \in Nat /\ n - 1 < n
  BY <1>4
<1>6. n - 1 \in S
  BY <1>4, <1>5
<1> QED BY <1>4, <1>5, <1>6

\* What the ends of some buffers are defined to be.
IsEnds(f, bs, n) == f = [i \in 0..n |-> IF i = 0 THEN 0 ELSE f[i - 1] + bs[i].padding + bs[i].length]

LEMMA EndsExist ==
  ASSUME NEW bs, NEW n \in Nat
  PROVE  \E f : IsEnds(f, bs, n)
<1> DEFINE S == {k \in Nat : \E f : IsEnds(f, bs, k)}
<1>1. 0 \in S
  <2> DEFINE f == [i \in 0..0 |-> 0]
  <2>1. f = [i \in 0..0 |-> IF i = 0 THEN 0 ELSE f[i - 1] + bs[i].padding + bs[i].length]
    OBVIOUS
  <2> HIDE DEF f
  <2> QED BY <2>1 DEF IsEnds
<1>2. ASSUME NEW k \in S PROVE k + 1 \in S
  <2>1. PICK f : IsEnds(f, bs, k)
    OBVIOUS
  <2> DEFINE new == f[k] + bs[k + 1].padding + bs[k + 1].length
             g == [i \in 0..(k + 1) |-> IF i = k + 1 THEN new ELSE f[i]]
  <2>2. ASSUME NEW i \in 0..(k + 1)
        PROVE  g[i] = IF i = 0 THEN 0 ELSE g[i - 1] + bs[i].padding + bs[i].length
    <3>1. CASE i = k + 1
      BY <3>1
    <3>2. CASE i # k + 1
      <4>1. f[i] = IF i = 0 THEN 0 ELSE f[i - 1] + bs[i].padding + bs[i].length
        BY <2>1, <3>2 DEF IsEnds
      <4> QED BY <3>2, <4>1
    <3> QED BY <3>1, <3>2
  <2>3. g = [i \in 0..(k + 1) |-> g[i]]
    OBVIOUS
  <2> HIDE DEF g
  <2>4. IsEnds(g, bs, k + 1)
    BY <2>2, <2>3 DEF IsEnds
  <2> QED BY <2>4
<1> HIDE DEF S
<1>3. S = Nat
  BY <1>1, <1>2, Induct, S \in SUBSET Nat DEF S
<1> QED BY <1>3 DEF S

\* Buffers, as the descriptions of a segment's.
Described == Seq([padding : Nat, length : Nat, plain : BOOLEAN])

LEMMA DescribedIs ==
  ASSUME NEW bs \in Described, NEW i \in 1..Len(bs)
  PROVE  bs[i].padding \in Nat /\ bs[i].length \in Nat
<1>1. ASSUME NEW S, NEW q \in Seq(S), NEW k \in 1..Len(q) PROVE q[k] \in S
  OBVIOUS
<1>2. bs \in Seq([padding : Nat, length : Nat, plain : BOOLEAN])
  BY DEF Described
<1>3. bs[i] \in [padding : Nat, length : Nat, plain : BOOLEAN]
  BY <1>1, <1>2
<1> QED BY <1>3

LEMMA EndsAre ==
  ASSUME NEW bs \in Described
  PROVE  /\ BufferEnds(bs)[0] = 0
         /\ \A i \in 1..Len(bs) :
              BufferEnds(bs)[i] = BufferEnds(bs)[i - 1] + bs[i].padding + bs[i].length
<1> DEFINE n == Len(bs)
           f == CHOOSE h : h = [i \in 0..n |-> IF i = 0 THEN 0 ELSE h[i - 1] + bs[i].padding + bs[i].length]
<1>1. n \in Nat
  BY DEF Described
<1>2. BufferEnds(bs) = f
  BY DEF BufferEnds
<1>3. \E h : h = [i \in 0..n |-> IF i = 0 THEN 0 ELSE h[i - 1] + bs[i].padding + bs[i].length]
  <2>1. \E h : IsEnds(h, bs, n)
    BY <1>1, EndsExist
  <2> QED BY <2>1 DEF IsEnds
<1>4. f = [i \in 0..n |-> IF i = 0 THEN 0 ELSE f[i - 1] + bs[i].padding + bs[i].length]
  BY <1>3
<1> HIDE DEF f
<1> QED BY <1>1, <1>2, <1>4

\* Ends are numbers, and in order.
LEMMA EndsGrow ==
  ASSUME NEW bs \in Described, NEW j \in 0..Len(bs), NEW i \in 0..j
  PROVE  /\ BufferEnds(bs)[i] \in Nat /\ BufferEnds(bs)[j] \in Nat
         /\ BufferEnds(bs)[i] <= BufferEnds(bs)[j]
<1> DEFINE n == Len(bs)
           e == BufferEnds(bs)
           S == {k \in Nat : k <= n => e[k] \in Nat /\ \A l \in 0..k : e[l] \in Nat /\ e[l] <= e[k]}
<1>1. n \in Nat /\ e[0] = 0 /\ \A k \in 1..n : e[k] = e[k - 1] + bs[k].padding + bs[k].length
  BY EndsAre DEF Described
<1> HIDE DEF e
<1>2. 0 \in S
  BY <1>1
<1>3. ASSUME NEW k \in S PROVE k + 1 \in S
  <2> SUFFICES ASSUME k + 1 <= n
               PROVE  e[k + 1] \in Nat /\ \A l \in 0..(k + 1) : e[l] \in Nat /\ e[l] <= e[k + 1]
    OBVIOUS
  <2>1. k + 1 \in 1..n /\ (k + 1) - 1 = k
    BY <1>1
  <2>2. bs[k + 1].padding \in Nat /\ bs[k + 1].length \in Nat
    BY <2>1, DescribedIs
  <2>3. e[k + 1] = e[k] + bs[k + 1].padding + bs[k + 1].length
    BY <1>1, <2>1
  <2>4. e[k] \in Nat /\ \A l \in 0..k : e[l] \in Nat /\ e[l] <= e[k]
    BY <1>1, <2>1
  <2>5. \A l \in 0..(k + 1) : l \in 0..k \/ l = k + 1
    OBVIOUS
  <2> QED BY <2>2, <2>3, <2>4, <2>5
<1> HIDE DEF S
<1>4. S = Nat
  BY <1>2, <1>3, Induct, S \in SUBSET Nat DEF S
<1>5. j \in S /\ j <= n
  BY <1>1, <1>4
<1> QED BY <1>5 DEF S, e

\* What a segment has for its buffers.
Free(s) == IF s.says = "tree" THEN s.length ELSE s.length - s.trailer - 4

\* The buffers that are cut are the first ones, each where it should be.
Chained ==
  /\ buffers \in Seq([from : Int, to : Int]) /\ Len(buffers) <= Len(segment.buffers)
  /\ \A i \in 1..Len(buffers) :
        /\ segment.buffers[i].plain
        /\ buffers[i].from = BufferEnds(segment.buffers)[i - 1] + segment.buffers[i].padding
        /\ buffers[i].to = BufferEnds(segment.buffers)[i]
  /\ buffers # <<>> => BufferEnds(segment.buffers)[Len(buffers)] <= Free(segment)

\* What each test has seen to.
Tested ==
  /\ stage \in {"shape", "read", "metadata", "tree", "buffers", "node", "decoded", "refused"}
  /\ stage \notin {"shape", "refused"} => segment.flat
  /\ stage \notin {"shape", "read", "refused"} => segment.length <= MaxSegment
  /\ stage \in {"tree", "buffers", "node", "decoded"} =>
        segment.says # "garbage" /\ room = Free(segment) /\ Free(segment) >= 0
  /\ stage \in {"buffers", "node", "decoded"} => segment.tree
  /\ stage \in {"shape", "read", "metadata", "tree"} => buffers = <<>>
  /\ stage \in {"node", "decoded"} => Len(buffers) = Len(segment.buffers)
  /\ stage = "decoded" => segment.node

RefusedWhenWrong ==
  stage = "refused" => broken \/ ~WellFormed \/ ~DecodeTree(array.node, array.typ, array.n).ok

FlatInv == SegmentOf(segment) /\ Chained /\ Tested /\ RefusedWhenWrong

LEMMA FlatBegins == ASSUME FlatInit PROVE FlatInv
<1>1. SegmentOf(segment)
  BY SegmentsAssumption DEF SegmentsFit, FlatInit
<1>2. stage = "shape" /\ buffers = <<>>
  BY DEF FlatInit
<1>3. segment.buffers \in Described
  BY <1>1 DEF SegmentOf, Described
<1>4. Chained
  BY <1>2, <1>3 DEF Chained, Described
<1> QED BY <1>1, <1>2, <1>4 DEF FlatInv, Tested, RefusedWhenWrong

\* A buffer that is no buffer, or one past the end, makes the segment a wrong one.
LEMMA TooLong ==
  ASSUME SegmentOf(segment), NEW k \in 1..Len(segment.buffers),
         ~segment.buffers[k].plain \/ ~(BufferEnds(segment.buffers)[k] <= Free(segment))
  PROVE  ~WellFormed
<1> DEFINE bs == segment.buffers
           e == BufferEnds(bs)
           n == Len(bs)
<1>1. bs \in Described /\ segment.length \in Nat /\ segment.trailer \in Nat
  BY DEF SegmentOf, Described
<1>2. n \in Nat /\ k \in 0..n
  BY <1>1 DEF Described
<1>3. e[k] \in Nat /\ e[n] \in Nat /\ e[k] <= e[n]
  BY <1>1, <1>2, EndsGrow
<1> HIDE DEF e
<1>4. Fits => e[n] <= Free(segment)
  BY <1>1, <1>3 DEF Fits, Free, e
<1>5. Free(segment) \in Int
  BY <1>1 DEF Free
<1>6. ~(e[k] <= Free(segment)) => ~Fits
  BY <1>3, <1>4, <1>5
<1> QED BY <1>6 DEF WellFormed, e

LEMMA FlatCut == ASSUME FlatInv, CutBuffer PROVE FlatInv'
<1> DEFINE bs == segment.buffers
           e == BufferEnds(bs)
           n == Len(bs)
           k == Len(buffers)
           b == bs[k + 1]
           from == End + b.padding
           to == from + b.length
<1>1. /\ SegmentOf(segment) /\ bs \in Described /\ n \in Nat /\ k \in Nat
      /\ buffers \in Seq([from : Int, to : Int])
  BY DEF FlatInv, Chained, SegmentOf, Described
<1>2. /\ stage = "buffers" /\ k < n /\ UNCHANGED <<segment, array, room, broken, decoded>>
      /\ IF b.plain /\ to <= room
         THEN buffers' = Append(buffers, [from |-> from, to |-> to]) /\ stage' = stage
         ELSE stage' = "refused" /\ buffers' = buffers
  BY DEF CutBuffer
<1>3. room = Free(segment) /\ Free(segment) \in Int
  BY <1>1, <1>2 DEF FlatInv, Tested, Free, SegmentOf
<1>4. k + 1 \in 1..n /\ k \in 0..n /\ k + 1 \in 0..n
  BY <1>1, <1>2
<1>5. e[k] \in Nat /\ e[k + 1] = e[k] + b.padding + b.length /\ b.padding \in Nat /\ b.length \in Nat
  <2>1. e[k] \in Nat /\ e[k + 1] = e[k] + b.padding + b.length
    <3>1. (k + 1) - 1 = k
      BY <1>1
    <3>2. e[k + 1] = e[(k + 1) - 1] + b.padding + b.length
      BY <1>1, <1>4, EndsAre
    <3>3. e[k] \in Nat
      BY <1>1, <1>4, EndsGrow
    <3> QED BY <3>1, <3>2, <3>3
  <2>2. b.padding \in Nat /\ b.length \in Nat
    BY <1>1, <1>4, DescribedIs
  <2> QED BY <2>1, <2>2
<1>6. End = e[k]
  <2>1. CASE buffers = <<>>
    <3>1. k = 0 /\ e[0] = 0
      BY <1>1, <2>1, EndsAre
    <3> QED BY <2>1, <3>1 DEF End
  <2>2. CASE buffers # <<>>
    <3>1. k \in 1..k
      BY <1>1, <2>2
    <3>2. buffers[k].to = e[k]
      BY <3>1 DEF FlatInv, Chained
    <3> QED BY <2>2, <3>2 DEF End
  <2> QED BY <2>1, <2>2
<1>7. from = e[k] + b.padding /\ to = e[k + 1] /\ from \in Int /\ to \in Int
  BY <1>5, <1>6
<1>8. /\ \A i \in 1..k : bs[i].plain /\ buffers[i].from = e[i - 1] + bs[i].padding /\ buffers[i].to = e[i]
      /\ Tested
  BY DEF FlatInv, Chained
<1>9. bs' = bs /\ e' = e /\ n' = n
  BY <1>2 DEF BufferEnds
<1> HIDE DEF from, to, e
<1>10. CASE b.plain /\ to <= room
  <2>1. buffers' = Append(buffers, [from |-> from, to |-> to]) /\ stage' = stage
    BY <1>2, <1>10
  <2>2. /\ buffers' \in Seq([from : Int, to : Int]) /\ Len(buffers') = k + 1
        /\ \A i \in 1..k : buffers'[i] = buffers[i]
        /\ buffers'[k + 1].from = from /\ buffers'[k + 1].to = to
    BY <1>1, <1>7, <2>1
  <2>3. ASSUME NEW i \in 1..(k + 1)
        PROVE  /\ bs[i].plain
               /\ buffers'[i].from = e[i - 1] + bs[i].padding /\ buffers'[i].to = e[i]
    <3>1. CASE i = k + 1
      <4>1. i - 1 = k
        BY <1>1, <3>1
      <4> QED BY <1>7, <1>10, <2>2, <3>1, <4>1
    <3>2. CASE i # k + 1
      <4>1. i \in 1..k
        BY <1>1, <3>2
      <4> QED BY <1>8, <2>2, <4>1
    <3> QED BY <3>1, <3>2
  <2>4. e[k + 1] <= Free(segment)
    BY <1>3, <1>7, <1>10
  <2>5. Chained'
    <3>1. Len(buffers') <= n
      BY <1>1, <1>2, <2>2
    <3>2. Free(segment)' = Free(segment)
      BY <1>2 DEF Free
    <3> QED BY <1>9, <2>2, <2>3, <2>4, <3>1, <3>2 DEF Chained, e
  <2>6. Tested'
    BY <1>2, <1>8, <2>1 DEF Tested, Free
  <2> QED BY <1>1, <1>2, <2>1, <2>5, <2>6 DEF FlatInv, RefusedWhenWrong, SegmentOf
<1>11. CASE ~(b.plain /\ to <= room)
  <2>1. stage' = "refused" /\ buffers' = buffers
    BY <1>2, <1>11
  <2>2. ~b.plain \/ ~(e[k + 1] <= Free(segment))
    BY <1>3, <1>7, <1>11
  <2>3. ~WellFormed
    BY <1>1, <1>4, <2>2, TooLong DEF e
  <2>4. UNCHANGED <<segment, buffers>> /\ Chained /\ SegmentOf(segment)
    BY <1>1, <1>2, <2>1 DEF FlatInv
  <2>5. ~WellFormed'
    BY <2>3, <2>4 DEF WellFormed, Fits, BufferEnds
  <2>6. Chained'
    BY <2>4 DEF Chained, Free
  <2>7. SegmentOf(segment)'
    BY <2>4
  <2> QED BY <2>1, <2>5, <2>6, <2>7 DEF FlatInv, Tested, RefusedWhenWrong
<1> QED BY <1>10, <1>11

LEMMA FlatTree == ASSUME FlatInv, TakeTree PROVE FlatInv'
<1> DEFINE message == ProtoFields(segment.metadata)
           apart == HoldsTree(Tagged(message.fields, 1))
           inside == segment.length >= 4 /\ segment.trailer <= segment.length - 4
<1>1. /\ stage = "metadata" /\ UNCHANGED <<segment, array, buffers, broken, decoded>>
      /\ stage' = IF message.ok /\ (apart \/ inside) THEN "tree" ELSE "refused"
      /\ room' = IF apart THEN segment.length ELSE segment.length - 4 - segment.trailer
  BY DEF TakeTree, Before
<1>2. /\ segment.length \in Nat /\ segment.trailer \in Nat /\ segment.buffers \in Described
      /\ segment.says = "garbage" <=> ~message.ok
      /\ segment.says = "tree" <=> message.ok /\ apart
  BY DEF FlatInv, SegmentOf, Described
<1> HIDE DEF message, apart
<1>3. SegmentOf(segment)' /\ Chained'
  <2>1. Chained /\ SegmentOf(segment) /\ UNCHANGED <<segment, buffers>>
    BY <1>1 DEF FlatInv
  <2>2. Chained'
    BY <2>1 DEF Chained, Free
  <2> QED BY <2>1, <2>2
<1>4. CASE message.ok /\ (apart \/ inside)
  <2>1. stage' = "tree" /\ segment.says # "garbage" /\ room' = Free(segment) /\ Free(segment) >= 0
    BY <1>1, <1>2, <1>4 DEF Free
  <2>2. Tested'
    BY <1>1, <2>1 DEF FlatInv, Tested, Free
  <2> QED BY <1>3, <2>1, <2>2 DEF FlatInv, RefusedWhenWrong
<1>5. CASE ~(message.ok /\ (apart \/ inside))
  <2>1. stage' = "refused"
    BY <1>1, <1>5
  <2>2. ~WellFormed
    <3>1. CASE ~message.ok
      BY <1>2, <3>1 DEF WellFormed
    <3>2. CASE message.ok /\ ~apart /\ ~inside
      <4> DEFINE end == BufferEnds(segment.buffers)[Len(segment.buffers)]
      <4>1. end \in Nat
        <5>1. Len(segment.buffers) \in Nat
          BY <1>2 DEF Described
        <5> QED BY <1>2, <5>1, EndsGrow
      <4>2. Fits => end + (segment.trailer + 4) <= segment.length
        BY <1>2, <3>2 DEF Fits
      <4> HIDE DEF end
      <4> QED BY <1>2, <3>2, <4>1, <4>2 DEF WellFormed
    <3> QED BY <1>5, <3>1, <3>2
  <2>3. ~WellFormed'
    BY <1>1, <2>2 DEF WellFormed, Fits, BufferEnds
  <2> QED BY <1>3, <2>1, <2>3 DEF FlatInv, Tested, RefusedWhenWrong
<1> QED BY <1>4, <1>5

LEMMA FlatKeeps == ASSUME FlatInv, [FlatNext]_(flatVars) PROVE FlatInv'
<1>1. CASE CutBuffer
  BY <1>1, FlatCut
<1>2. CASE TakeTree
  BY <1>2, FlatTree
<1>3. ASSUME UNCHANGED <<segment, buffers>>
      PROVE  SegmentOf(segment)' /\ Chained'
  <2>1. Chained /\ SegmentOf(segment) /\ UNCHANGED <<segment, buffers>>
    BY <1>3 DEF FlatInv
  <2>2. Chained'
    BY <2>1 DEF Chained, Free
  <2> QED BY <2>1, <2>2
<1>4. ASSUME UNCHANGED segment, ~WellFormed
      PROVE  ~WellFormed'
  BY <1>4 DEF WellFormed, Fits, BufferEnds
<1>5. CASE CheckShape
  <2>1. /\ stage = "shape" /\ UNCHANGED <<segment, array, room, buffers, broken, decoded>>
        /\ stage' = IF segment.flat THEN "read" ELSE "refused"
    BY <1>5 DEF CheckShape, Test, Go
  <2>2. ~segment.flat => ~WellFormed
    BY DEF WellFormed
  <2>3. Tested'
    BY <2>1 DEF FlatInv, Tested, Free
  <2> QED BY <1>3, <1>4, <2>1, <2>2, <2>3 DEF FlatInv, RefusedWhenWrong
<1>6. CASE Read
  <2>1. CASE Test("read", segment.length <= MaxSegment, "metadata")
    <3>1. /\ stage = "read" /\ UNCHANGED <<segment, array, room, buffers, broken, decoded>>
          /\ stage' = IF segment.length <= MaxSegment THEN "metadata" ELSE "refused"
      BY <2>1 DEF Test, Go
    <3>2. ~(segment.length <= MaxSegment) => ~WellFormed
      BY DEF WellFormed
    <3>3. Tested'
      BY <3>1 DEF FlatInv, Tested, Free
    <3> QED BY <1>3, <1>4, <3>1, <3>2, <3>3 DEF FlatInv, RefusedWhenWrong
  <2>2. CASE ~Test("read", segment.length <= MaxSegment, "metadata")
    <3>1. stage' = "refused" /\ broken' = TRUE /\ UNCHANGED <<segment, array, room, buffers, decoded>>
      BY <1>6, <2>2 DEF Read
    <3> QED BY <1>3, <3>1 DEF FlatInv, Tested, RefusedWhenWrong
  <2> QED BY <2>1, <2>2
<1>7. CASE CheckTree
  <2>1. /\ stage = "tree" /\ UNCHANGED <<segment, array, room, buffers, broken, decoded>>
        /\ stage' = IF segment.tree THEN "buffers" ELSE "refused"
    BY <1>7 DEF CheckTree, Test, Go
  <2>2. ~segment.tree => ~WellFormed
    BY DEF WellFormed
  <2>3. Tested'
    BY <2>1 DEF FlatInv, Tested, Free
  <2> QED BY <1>3, <1>4, <2>1, <2>2, <2>3 DEF FlatInv, RefusedWhenWrong
<1>8. CASE AllCut
  <2>1. /\ stage = "buffers" /\ Len(buffers) = Len(segment.buffers) /\ stage' = "node"
        /\ UNCHANGED <<segment, array, room, buffers, broken, decoded>>
    BY <1>8 DEF AllCut, Test, Go
  <2>2. Tested'
    BY <2>1 DEF FlatInv, Tested, Free
  <2> QED BY <1>3, <2>1, <2>2 DEF FlatInv, RefusedWhenWrong
<1>9. CASE DecodeNode
  <2>1. /\ stage = "node" /\ UNCHANGED <<segment, array, room, buffers, broken>>
        /\ decoded' = IF segment.node THEN DecodeTree(array.node, array.typ, array.n) ELSE NoArray
        /\ stage' = IF decoded'.ok THEN "decoded" ELSE "refused"
    BY <1>9 DEF DecodeNode
  <2>2. CASE decoded'.ok
    <3>1. stage' = "decoded"
      BY <2>1, <2>2
    <3>2. segment.node
      BY <2>1, <2>2 DEF NoArray
    <3>3. Tested'
      BY <2>1, <3>1, <3>2 DEF FlatInv, Tested, Free
    <3> QED BY <1>3, <2>1, <3>1, <3>3 DEF FlatInv, RefusedWhenWrong
  <2>3. CASE ~decoded'.ok
    <3>1. stage' = "refused"
      BY <2>1, <2>3
    <3>2. ~segment.node => ~WellFormed
      BY DEF WellFormed
    <3>3. RefusedWhenWrong'
      BY <1>4, <2>1, <2>3, <3>2 DEF RefusedWhenWrong
    <3> QED BY <1>3, <2>1, <3>1, <3>3 DEF FlatInv, Tested
  <2> QED BY <2>2, <2>3
<1>10. CASE UNCHANGED flatVars
  <2>1. UNCHANGED <<segment, array, stage, room, buffers, broken, decoded>>
    BY <1>10 DEF flatVars
  <2>2. Tested' /\ RefusedWhenWrong'
    BY <2>1 DEF FlatInv, Tested, RefusedWhenWrong, Free, WellFormed, Fits, BufferEnds
  <2> QED BY <1>3, <2>1, <2>2 DEF FlatInv
<1> QED BY <1>1, <1>2, <1>5, <1>6, <1>7, <1>8, <1>9, <1>10 DEF FlatNext

LEMMA FlatExact == ASSUME FlatInv PROVE BuffersExact
<1> DEFINE bs == segment.buffers
           e == BufferEnds(bs)
           n == Len(bs)
           k == Len(buffers)
<1>1. /\ bs \in Described /\ n \in Nat /\ k \in Nat /\ k <= n
      /\ segment.length \in Nat /\ segment.trailer \in Nat
  BY DEF FlatInv, Chained, SegmentOf, Described
<1>2. \A i \in 1..k : bs[i].plain /\ buffers[i].from = e[i - 1] + bs[i].padding /\ buffers[i].to = e[i]
  BY DEF FlatInv, Chained
<1>3. \A i \in 1..n : e[i] = e[i - 1] + bs[i].padding + bs[i].length
  BY <1>1, EndsAre
<1>4. \A j \in 0..n : \A i \in 0..j : e[i] \in Nat /\ e[j] \in Nat /\ e[i] <= e[j]
  BY <1>1, EndsGrow
<1>5. buffers # <<>> => e[k] <= Free(segment)
  BY DEF FlatInv, Chained
<1>6. Free(segment) \in Int
  BY <1>1 DEF Free
<1> HIDE DEF e
<1>7. ASSUME NEW i \in 1..k
      PROVE  /\ buffers[i].to - buffers[i].from = bs[i].length
             /\ (buffers[i].from)..(buffers[i].to - 1) \subseteq (0..(segment.length - 1)) \ TreeBytes
             /\ \A j \in 1..(i - 1) : buffers[j].to + bs[i].padding <= buffers[i].from
  <2>1. i \in 1..n /\ i - 1 \in 0..i /\ i \in 0..k /\ k \in 0..n
    BY <1>1
  <2>2. e[i - 1] \in Nat /\ e[i] \in Nat /\ e[i] <= e[k] /\ e[k] \in Nat
    BY <1>4, <2>1
  <2>3. bs[i].padding \in Nat /\ bs[i].length \in Nat
    BY <1>1, <2>1, DescribedIs
  <2>4. e[i] = e[i - 1] + bs[i].padding + bs[i].length
    BY <1>3, <2>1
  <2>5. buffers[i].from = e[i - 1] + bs[i].padding /\ buffers[i].to = e[i]
    BY <1>2
  <2>6. buffers # <<>>
    BY <1>1
  <2>7. e[i] <= Free(segment)
    BY <1>5, <1>6, <2>2, <2>6
  <2> DEFINE from == buffers[i].from
             to == buffers[i].to
  <2>8. from \in Nat /\ to \in Nat /\ to - from = bs[i].length /\ to <= Free(segment)
    <3>1. from = e[i - 1] + bs[i].padding /\ to = e[i]
      BY <2>5
    <3>2. from \in Nat /\ to \in Nat
      BY <2>2, <2>3, <3>1
    <3>3. to = from + bs[i].length
      BY <2>2, <2>3, <2>4, <3>1
    <3> HIDE DEF from, to
    <3> QED BY <2>3, <2>7, <3>1, <3>2, <3>3
  <2> HIDE DEF from, to
  <2>9. from..(to - 1) \subseteq (0..(segment.length - 1)) \ TreeBytes
    <3>1. segment.length \in Nat /\ segment.trailer \in Nat
      BY <1>1
    <3>2. ASSUME NEW x \in from..(to - 1)
          PROVE  x \in 0..(segment.length - 1) /\ x < Free(segment)
      BY <1>6, <2>8, <3>1, SMTT(40) DEF Free
    <3>3. ASSUME NEW x \in TreeBytes PROVE x \in Int /\ ~(x < Free(segment))
      BY <3>1 DEF Free, TreeBytes
    <3> QED BY <3>2, <3>3
  <2>10. ASSUME NEW j \in 1..(i - 1) PROVE buffers[j].to + bs[i].padding <= buffers[i].from
    <3>1. j \in 1..k /\ j \in 0..(i - 1) /\ i - 1 \in 0..n
      BY <1>1, <2>1
    <3>2. e[j] \in Nat /\ e[j] <= e[i - 1]
      BY <1>4, <3>1
    <3>3. buffers[j].to = e[j]
      BY <1>2, <3>1
    <3> QED BY <2>2, <2>3, <2>5, <3>2, <3>3
  <2> QED BY <2>8, <2>9, <2>10 DEF from, to
<1>8. stage = "decoded" => WellFormed
  <2> SUFFICES ASSUME stage = "decoded" PROVE WellFormed
    OBVIOUS
  <2>1. /\ segment.flat /\ segment.says # "garbage" /\ segment.tree /\ segment.node
        /\ segment.length <= MaxSegment /\ k = n /\ Free(segment) >= 0
    BY DEF FlatInv, Tested
  <2>2. \A i \in 1..n : bs[i].plain
    BY <1>2, <2>1
  <2>3. e[n] \in Nat /\ e[n] <= Free(segment)
    <3>1. n \in 0..n /\ 0 \in 0..n
      BY <1>1
    <3>2. e[n] \in Nat
      BY <1>4, <3>1
    <3>3. CASE buffers = <<>>
      <4>1. n = 0 /\ e[0] = 0
        BY <1>1, <2>1, <3>3, EndsAre DEF e
      <4> QED BY <2>1, <3>2, <4>1
    <3>4. CASE buffers # <<>>
      BY <1>5, <2>1, <3>2, <3>4
    <3> QED BY <3>3, <3>4
  <2>4. Fits
    BY <1>1, <2>3 DEF Fits, Free, e
  <2> QED BY <2>1, <2>2, <2>4 DEF WellFormed
<1> QED BY <1>7, <1>8 DEF BuffersExact, FlatInv, RefusedWhenWrong

(* For every segment whose metadata are described for what they are, with   *)
(* any number of buffers of any lengths: its buffers lie in it one after    *)
(* the other, off the metadata at its end, and only what is wrong with it,  *)
(* the source or the decoding of its array makes decodeFlat refuse it.      *)
THEOREM BuffersAreExact == FlatSpec => []BuffersExact
<1>1. FlatInit => FlatInv
  BY FlatBegins
<1>2. FlatInv /\ [FlatNext]_(flatVars) => FlatInv'
  BY FlatKeeps
<1>3. FlatInv => BuffersExact
  BY FlatExact
<1> QED BY <1>1, <1>2, <1>3, PTL DEF FlatSpec
=============================================================================
