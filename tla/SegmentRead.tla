----------------------------- MODULE SegmentRead -----------------------------
(***************************************************************************)
(* One read of a file range (file.go, File.read): the only place where the *)
(* reader touches its source, an io.ReaderAt it does not trust.  The range *)
(* is read in pieces of at most maxRead bytes; before each piece, and      *)
(* after the last, the context is tested.  The source answers each piece   *)
(* with a count and an error, whatever they are.                           *)
(*                                                                         *)
(* Byte i of the source is the number i; Blank is a byte never read.       *)
(***************************************************************************)
EXTENDS Integers

CONSTANTS Size,     \* File.size
          MaxRead,  \* maxRead
          Limit,    \* what the caller allows: maxMetadata or maxSegment
          Offsets,  \* offsets and lengths a caller may pass
          Lengths,
          Width     \* bits of an int64

ASSUME ReadAssumption ==
  /\ Size \in Nat /\ MaxRead \in Nat \ {0} /\ Limit \in Nat
  /\ Offsets \subseteq Int /\ Lengths \subseteq Int

VARIABLES pc,       \* "idle", "begun", "loop", "reading"
          offset,   \* read: its arguments
          length,
          done,     \* read: bytes read so far
          out,      \* read: the buffer
          canceled, \* the context is done
          answer,   \* what the source answered last: count asked, count, error
          result    \* what read returned: "none", "ok" or its error

vars == <<pc, offset, length, done, out, canceled, answer, result>>

Blank == -1
NoAnswer == [asked |-> 0, n |-> 0, err |-> "nil"]
Errors == {"nil", "EOF", "failed"}

Init ==
  /\ pc = "idle"
  /\ offset = 0 /\ length = 0 /\ done = 0
  /\ out = [i \in {} |-> Blank]
  /\ canceled = FALSE
  /\ answer = NoAnswer
  /\ result = "none"

Call ==
  /\ pc = "idle"
  /\ pc' = "begun"
  /\ offset' \in Offsets
  /\ length' \in Lengths
  /\ done' = 0
  /\ out' = [i \in {} |-> Blank]
  /\ answer' = NoAnswer
  /\ result' = "none"
  /\ UNCHANGED canceled

Return(r) ==
  /\ pc' = "idle"
  /\ result' = r
  /\ UNCHANGED <<offset, length, done, out, canceled>>

\* A plausible bug: the end of the range is compared, after it wrapped around.
EndInFile ==
  LET half == 2 ^ (Width - 1)
      end == ((offset + length + half) % (2 * half)) - half
  IN  offset >= 0 /\ length >= 0 /\ end <= Size

\* The length is compared with what is left, which cannot overflow.
RangeInFile == offset >= 0 /\ length >= 0 /\ offset <= Size /\ length <= Size - offset

Refuse ==
  /\ pc = "begun"
  /\ \/ canceled /\ Return("canceled")
     \/ ~canceled /\ ~RangeInFile /\ Return("invalid")
     \/ ~canceled /\ RangeInFile /\ length > Limit /\ Return("unsupported")
  /\ UNCHANGED answer

Accept ==
  /\ pc = "begun"
  /\ ~canceled
  /\ RangeInFile
  /\ length <= Limit
  /\ pc' = "loop"
  /\ out' = [i \in 0..(length - 1) |-> Blank]
  /\ UNCHANGED <<offset, length, done, canceled, answer, result>>

PieceEnd == IF done + MaxRead <= length THEN done + MaxRead ELSE length

AskSource ==
  /\ pc = "loop"
  /\ done < length
  /\ ~canceled
  /\ pc' = "reading"
  /\ UNCHANGED <<offset, length, done, out, canceled, answer, result>>

StopCanceled ==
  /\ pc = "loop"
  /\ canceled
  /\ Return("canceled")
  /\ UNCHANGED answer

Finish ==
  /\ pc = "loop"
  /\ done >= length
  /\ ~canceled
  /\ Return("ok")
  /\ UNCHANGED answer

Asked == PieceEnd - done

\* A plausible bug: every piece is read from the start of the range.
SameOffset == offset

SourceOffset == offset + done

\* A plausible bug: an io.EOF on the last bytes of the source is a failure.
AnyError(e) == e # "nil"

\* io.ReaderAt may report io.EOF along with the last bytes of the source.
IsFailure(e) == e \notin {"nil", "EOF"}

\* A plausible bug: a short count without an error asks again for the piece.
RetryShort(n, e) ==
  IF e = "nil" THEN pc' = "loop" /\ UNCHANGED <<offset, length, done, out, canceled, result>>
  ELSE Return(e)

FailShort(n, e) == Return(IF e = "nil" THEN "unexpectedEOF" ELSE e)

Answered(n, e) ==
  \/ (n < 0 \/ n > Asked) /\ Return("invalid")
  \/ n \in 0..(Asked - 1) /\ FailShort(n, e)
  \/ n = Asked /\ IsFailure(e) /\ Return(e)
  \/ /\ n = Asked /\ ~IsFailure(e)
     /\ pc' = "loop"
     /\ done' = PieceEnd
     /\ out' = [i \in DOMAIN out |->
                  IF i \in done..(PieceEnd - 1) THEN SourceOffset + (i - done) ELSE out[i]]
     /\ UNCHANGED <<offset, length, canceled, result>>

\* The source answers with any count, and any error.
Answer ==
  /\ pc = "reading"
  /\ \E n \in -1..(MaxRead + 1), e \in Errors :
        /\ answer' = [asked |-> Asked, n |-> n, err |-> e]
        /\ Answered(n, e)

Cancel ==
  /\ ~canceled
  /\ canceled' = TRUE
  /\ UNCHANGED <<pc, offset, length, done, out, answer, result>>

Step == Refuse \/ Accept \/ AskSource \/ StopCanceled \/ Finish \/ Answer

Next == Call \/ Step \/ Cancel

Spec == Init /\ [][Next]_vars

\* read runs on its caller's goroutine, and the source answers what it is asked.
FairSpec == Spec /\ WF_vars(Step)

-----------------------------------------------------------------------------
Results ==
  {"none", "ok", "canceled", "invalid", "unsupported", "unexpectedEOF", "EOF", "failed"}

TypeOK ==
  /\ pc \in {"idle", "begun", "loop", "reading"}
  /\ offset \in Int /\ length \in Int
  /\ done \in Nat
  /\ DOMAIN out \subseteq Nat
  /\ \A i \in DOMAIN out : out[i] \in Int
  /\ canceled \in BOOLEAN
  /\ answer \in [asked : Nat, n : Int, err : Errors]
  /\ result \in Results
  /\ pc \in {"loop", "reading"} => done <= length

(* "Every source read is at most 64 KiB" (file.go:47), and none asks for a  *)
(* byte outside the file, whatever range the metadata of the file names.    *)
ReadsInsideFile ==
  pc = "reading" =>
    /\ Asked \in 1..MaxRead
    /\ 0 <= SourceOffset
    /\ SourceOffset + Asked <= Size

(* A read that succeeds returns every byte of the range at its place: no    *)
(* answer of the source leaves a hole, or a piece of another offset.        *)
ReadWhole ==
  result = "ok" =>
    /\ DOMAIN out = 0..(length - 1)
    /\ \A i \in 0..(length - 1) : out[i] = offset + i

(* The io.ReaderAt contract: a whole answer with io.EOF is no failure, and  *)
(* a short one without an error is one.                                     *)
FailsOnlyIfSourceDid ==
  /\ result \in {"EOF", "unexpectedEOF"} => answer.n \in 0..(answer.asked - 1)
  /\ result = "ok" /\ length > 0 => answer.n = answer.asked /\ answer.err # "failed"

(* read returns, even when the source answers nothing, for ever.            *)
ReadReturns == pc # "idle" ~> pc = "idle"
=============================================================================
