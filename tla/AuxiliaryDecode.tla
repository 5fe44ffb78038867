--------------------------- MODULE AuxiliaryDecode ---------------------------
(***************************************************************************)
(* Decoding a dictionary or a table of statistics (scan.go, decodeLayout   *)
(* and takeDictionary): a recursion over a layout tree that gathers arrays *)
(* and gives back one, or none.  Arrow arrays are counted by hand, and any *)
(* decode, allocation or test of the context on the way may fail.          *)
(*                                                                         *)
(* A layout is a record: its id, rows and children as in the file, and     *)
(* `fits`, whether it has the shape its type and metadata call for.  The   *)
(* array a layout decodes to has the name of the layout; that of a zoned   *)
(* layout is the array of its data.                                        *)
(***************************************************************************)
EXTENDS Integers, SequencesExt

CONSTANTS Trees,    \* sequences of layouts, the root first
          MaxRows,  \* 32 << 20
          Half      \* 2^63

\* Children come after their parents, and every layout has one place.
ASSUME TreesAssumption ==
  \A t \in Trees :
    /\ Len(t) \in Nat \ {0}
    /\ \A n \in 1..Len(t) : t[n].rows \in Nat /\ t[n].children \in Seq((n + 1)..Len(t))
    /\ \A m, n \in 1..Len(t) :
         \A i \in 1..Len(t[m].children), j \in 1..Len(t[n].children) :
            t[m].children[i] = t[n].children[j] => m = n /\ i = j

ASSUME RowsAssumption == MaxRows \in Nat /\ Half \in Nat /\ MaxRows < Half

VARIABLES tree,     \* the layout to decode
          canceled, \* the context is done
          stack,    \* calls in progress, the root first: layouts and arrays they hold
          ret,      \* what a call gives its caller: an array, or one of the below
          refs,     \* references to each array, 0 when it is not alive
          parts,    \* arrays a struct array holds
          lens      \* rows of each array

vars == <<tree, canceled, stack, ret, refs, parts, lens>>

Begin == 0          \* ret: the root call is about to be made
Running == -1       \* ret: a call is in progress
Failed == -2        \* ret: an error

Int64(n) == ((n + Half) % (2 * Half)) - Half

Sum(s) ==
  LET upTo[i \in 0..Len(s)] == IF i = 0 THEN 0 ELSE upTo[i - 1] + s[i]
  IN  upTo[Len(s)]

Top == stack[Len(stack)]
Layout == tree[Top.node]

-----------------------------------------------------------------------------
(* Reference counts.                                                       *)

Occurrences(a, s) == Cardinality({i \in 1..Len(s) : s[i] = a})

\* One reference less to each of `arrays`.  A struct array that is no longer
\* alive drops its parts; they come after it, as children after parents.
Released(counts, arrays) ==
  LET left[a \in DOMAIN counts] ==
        counts[a] - Occurrences(a, arrays)
          - Sum([b \in 1..(a - 1) |-> IF counts[b] > 0 /\ left[b] = 0
                                     THEN Occurrences(a, parts[b]) ELSE 0])
  IN  left

\* A new array, with the reference of its maker.
Made(a, counts) == [counts EXCEPT ![a] = 1]

-----------------------------------------------------------------------------
(* Steps of a call.                                                        *)

Pop == SubSeq(stack, 1, Len(stack) - 1)

\* The deferred releases, of a call that returns an error.
FailReleasing == stack' = Pop /\ ret' = Failed /\ refs' = Released(refs, Top.held)

\* Children a call decodes, in its order; the table of a zoned layout is not.
Decodes(l) == IF l.id = "zoned" THEN 1 ELSE Len(l.children)

\* A plausible bug: only the sum of the rows is checked.
AnyChunk(rows, l, used) == TRUE

ChunkFits(rows, l, used) == rows <= Int64(l.rows - used)

RowsUsed == Int64(Sum([i \in 1..Len(Top.held) |-> tree[Layout.children[i]].rows]))

\* The rows of a child, compared before it is decoded.
RowsAgree(k) ==
  LET rows == tree[Layout.children[k]].rows
  IN  CASE Layout.id = "struct" -> rows = Layout.rows
        [] Layout.id = "chunked" -> ChunkFits(rows, Layout, RowsUsed)
        [] OTHER -> TRUE

\* The shape of a layout, compared before any child is decoded.
Shaped(l) ==
  /\ l.fits
  /\ l.id \in {"struct", "chunked", "zoned", "dict"}
  /\ l.id \in {"zoned", "dict"} => Len(l.children) = 2
  /\ l.id = "zoned" => tree[l.children[1]].rows = l.rows
  /\ l.id = "dict" => tree[l.children[2]].rows = l.rows

\* A call of decodeLayout, down to its first child or, when flat, to its array.
Call(n) ==
  LET l == tree[n]
  IN  \/ /\ canceled \/ l.rows > MaxRows \/ l.id = "flat" \/ ~Shaped(l)
         /\ ret' = Failed
         /\ UNCHANGED <<stack, refs, lens>>
      \/ /\ ~canceled
         /\ l.rows <= MaxRows
         /\ l.id = "flat"
         /\ ret' = n
         /\ refs' = Made(n, refs)
         /\ lens' = [lens EXCEPT ![n] = l.rows]
         /\ UNCHANGED stack
      \/ /\ ~canceled
         /\ l.rows <= MaxRows
         /\ l.id # "flat"
         /\ Shaped(l)
         /\ stack' = Append(stack, [node |-> n, held |-> <<>>])
         /\ ret' = Running
         /\ UNCHANGED <<refs, lens>>

Start ==
  /\ stack = <<>>
  /\ ret = Begin
  /\ Call(1)
  /\ UNCHANGED <<tree, canceled, parts>>

DecodeChild ==
  /\ ret = Running
  /\ Len(Top.held) < Decodes(Layout)
  /\ LET k == Len(Top.held) + 1
     IN  \/ RowsAgree(k) /\ Call(Layout.children[k])
         \/ ~RowsAgree(k) /\ FailReleasing /\ UNCHANGED lens
  /\ UNCHANGED <<tree, canceled, parts>>

\* The caller keeps the array a child gave it.
Keep ==
  /\ ret > 0
  /\ stack # <<>>
  /\ stack' = [stack EXCEPT ![Len(stack)].held = Append(@, ret)]
  /\ ret' = Running
  /\ UNCHANGED <<tree, canceled, refs, parts, lens>>

ChildFailed ==
  /\ ret = Failed
  /\ stack # <<>>
  /\ FailReleasing
  /\ UNCHANGED <<tree, canceled, parts, lens>>

Completing(id) ==
  /\ ret = Running
  /\ Layout.id = id
  /\ Len(Top.held) = Decodes(Layout)

\* A plausible bug: the arrays a call holds are not released when it succeeds.
YieldHolding(a, rows) ==
  /\ stack' = Pop
  /\ ret' = a
  /\ refs' = Made(a, refs)
  /\ lens' = [lens EXCEPT ![a] = rows]

\* Return array a of `rows` rows, and run the deferred releases.
Yield(a, rows) ==
  /\ stack' = Pop
  /\ ret' = a
  /\ refs' = Released(Made(a, refs), Top.held)
  /\ lens' = [lens EXCEPT ![a] = rows]

ReturnData ==
  /\ Completing("zoned")
  /\ stack' = Pop
  /\ ret' = Top.held[1]
  /\ UNCHANGED <<tree, canceled, refs, parts, lens>>

\* NewStructArrayWithFields holds its columns with references of its own.
Retained(counts, arrays) ==
  [b \in DOMAIN counts |-> counts[b] + Occurrences(b, arrays)]

\* It refuses a struct of no columns, whose length it could not tell.
BuildStruct ==
  /\ Completing("struct")
  /\ LET a == Top.node
     IN  \/ /\ Top.held # <<>>
            /\ stack' = Pop
            /\ ret' = a
            /\ parts' = [parts EXCEPT ![a] = Top.held]
            /\ refs' = Released(Retained(Made(a, refs), Top.held), Top.held)
            /\ lens' = [lens EXCEPT ![a] = lens[Top.held[1]]]
         \/ /\ Top.held = <<>>
            /\ FailReleasing
            /\ UNCHANGED <<parts, lens>>
  /\ UNCHANGED <<tree, canceled>>

\* A copy of the chunks, or an empty array; either allocates and may fail.
Concatenate ==
  /\ Completing("chunked")
  /\ \/ /\ RowsUsed = Layout.rows
        /\ Yield(Top.node, Sum([i \in 1..Len(Top.held) |-> lens[Top.held[i]]]))
     \/ /\ RowsUsed # Layout.rows \/ Layout.children # <<>>
        /\ FailReleasing
        /\ UNCHANGED lens
  /\ UNCHANGED <<tree, canceled, parts>>

\* takeDictionary: an index out of range, or a null where none may be.
TakeDictionary ==
  /\ Completing("dict")
  /\ \/ Yield(Top.node, lens[Top.held[2]])
     \/ FailReleasing /\ UNCHANGED lens
  /\ UNCHANGED <<tree, canceled, parts>>

Cancel ==
  /\ ~canceled
  /\ canceled' = TRUE
  /\ UNCHANGED <<tree, stack, ret, refs, parts, lens>>

Init ==
  /\ tree \in Trees
  /\ canceled = FALSE
  /\ stack = <<>>
  /\ ret = Begin
  /\ refs = [n \in 1..Len(tree) |-> 0]
  /\ parts = [n \in 1..Len(tree) |-> <<>>]
  /\ lens = [n \in 1..Len(tree) |-> 0]

Decode ==
  \/ Start \/ DecodeChild \/ Keep \/ ChildFailed
  \/ ReturnData \/ BuildStruct \/ Concatenate \/ TakeDictionary

Next == Decode \/ Cancel

Spec == Init /\ [][Next]_vars

-----------------------------------------------------------------------------
Ended == stack = <<>> /\ ret # Begin

Alive == {a \in DOMAIN refs : refs[a] > 0}

(* Every array has as many references as there are calls, struct arrays and *)
(* returned values that hold it, after each step: none is released twice,   *)
(* or freed under a struct array that still has it.  At the end a caller    *)
(* has exactly one array to release, and after an error none: whatever was  *)
(* decoded before the failure goes, at each level                           *)
(* (layout_boundary_test.go:56).                                            *)
OwnershipExact ==
  /\ \A a \in DOMAIN refs :
       refs[a] = Sum([i \in 1..Len(stack) |-> Occurrences(a, stack[i].held)])
                   + Sum([b \in DOMAIN refs |-> IF b \in Alive THEN Occurrences(a, parts[b]) ELSE 0])
                   + (IF ret = a THEN 1 ELSE 0)
  /\ Ended =>
       IF ret = Failed THEN Alive = {}
       ELSE refs[ret] = 1 /\ \A a \in Alive \ {ret} : \E b \in Alive : a \in Range(parts[b])

(* The array has the rows its layout promises, which is what makes the      *)
(* index of a zone valid: chunk rows that wrap around add up to nothing.    *)
DecodesItsRows ==
  Ended /\ ret > 0 => lens[ret] = tree[1].rows
=============================================================================
