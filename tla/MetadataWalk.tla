---------------------------- MODULE MetadataWalk ----------------------------
(***************************************************************************)
(* Parsing a tree of metadata (parseLayout, parseType and parseNode, in    *)
(* file.go, dtype.go and array.go).  The tables of a FlatBuffer refer to   *)
(* each other by offset: what is meant to be a tree may share tables, so   *)
(* that a few bytes unfold to a tree of any size, and even be cyclic.  The *)
(* three functions recurse over it alike, under a limit on the depth and a *)
(* budget, shared by the whole tree, for its nodes and copied names.       *)
(*                                                                         *)
(* A table is a record: its kind; `ok`, whether it reads as one of its     *)
(* kind (vectors that fit the buffer, a known type, row counts and list    *)
(* sizes in range); the number of its encoding; the tables, segments or    *)
(* buffers it refers to; the lengths of the names it holds.                *)
(***************************************************************************)
EXTENDS Integers, Sequences

CONSTANTS Graphs,    \* the tables a file may hold: functions from Nat, root 1
          MaxDepth,  \* maxDepth
          MaxNodes,  \* maxNodes
          Encodings, \* how many encodings the footer registers,
          Targets    \* and how many segments (buffers, for an array)

Missing == 0         \* a table that is not there

Kinds == {"layout", "array", "scalar", "struct", "extension", "list"}

Table ==
  [kind : Kinds, ok : BOOLEAN, encoding : Nat, children : Seq(Nat), refs : Seq(Nat),
   names : Seq(Nat)]

\* Only some kinds of tables have names, or children.
HasItsFields(m) ==
  /\ m.kind \notin {"struct", "extension"} => m.names = <<>>
  /\ m.kind = "scalar" => m.children = <<>>

ASSUME WalkAssumption ==
  /\ MaxDepth \in Nat /\ MaxNodes \in Nat /\ Encodings \in Nat /\ Targets \in Nat
  /\ \A g \in Graphs :
        /\ 1 \in DOMAIN g
        /\ \A n \in DOMAIN g :
              /\ g[n] \in Table
              /\ HasItsFields(g[n])
              /\ \A i \in 1..Len(g[n].children) : g[n].children[i] \in DOMAIN g \cup {Missing}

VARIABLES graph,    \* the file
          status,   \* "idle", "parsing", "parsed" or "failed"
          stack,    \* calls in progress, the root first: a table and its next step
          budget,
          out,      \* the tree so far: its tables and their depths, in preorder
          copied    \* the names so far, in units of 64 bytes

vars == <<graph, status, stack, budget, out, copied>>

-----------------------------------------------------------------------------
(* What a call does after its own checks, in the order it does it.         *)

Parse(m) == [i \in 1..Len(m.children) |-> [do |-> "parse", what |-> m.children[i]]]
Resolve(m) == [i \in 1..Len(m.refs) |-> [do |-> "resolve", what |-> m.refs[i]]]
Copy(m) == [i \in 1..Len(m.names) |-> [do |-> "copy", what |-> m.names[i]]]

LayoutSteps(m) == Parse(m) \o Resolve(m)
ArraySteps(m) == Resolve(m) \o Parse(m)

\* Each field's type, then its name.
StructSteps(m) ==
  [i \in 1..(2 * Len(m.children)) |->
     IF i % 2 = 1 THEN Parse(m)[(i + 1) \div 2] ELSE Copy(m)[i \div 2]]

ExtensionSteps(m) == Copy(m) \o Parse(m)

Steps(m) ==
  CASE m.kind = "layout" -> LayoutSteps(m)
    [] m.kind = "array" -> ArraySteps(m)
    [] m.kind = "struct" -> StructSteps(m)
    [] m.kind = "extension" -> ExtensionSteps(m)
    [] m.kind = "list" -> Parse(m)
    [] m.kind = "scalar" -> <<>>

-----------------------------------------------------------------------------
\* A plausible bug: nothing but the budget bounds the recursion.
AnyDepth(depth, left) == left >= 0

\* A plausible bug: the last node of the budget is refused.
OneNodeLess(depth, left) == depth <= MaxDepth /\ left > 0

\* nodeBudget, after it took one from the budget.
NodeBudget(depth, left) == depth <= MaxDepth /\ left >= 0

\* A plausible bug: the number of the encoding is not compared.
AnyEncoding(m) == m.ok /\ (m.kind = "struct" => Len(m.names) = Len(m.children))

\* A call's own checks.
Readable(m) ==
  /\ m.ok
  /\ m.kind \in {"layout", "array"} => m.encoding < Encodings
  /\ m.kind = "struct" => Len(m.names) = Len(m.children)

\* copyText charges a name in units of 64 bytes.
TextCost(length) == (length + 63) \div 64

Top == stack[Len(stack)]
TopSteps == Steps(graph[Top.node])

\* A plausible bug: the loop does not advance.
SameStep == stack

\* The caller goes on to its next step.
Advanced == [stack EXCEPT ![Len(stack)].at = @ + 1]

Fail ==
  /\ status' = "failed"
  /\ UNCHANGED stack

\* A call for table n, with the calls in progress that it is made from.
Call(n, callers) ==
  IF n = Missing
  THEN Fail /\ UNCHANGED <<budget, out>>
  ELSE /\ budget' = budget - 1
       /\ IF NodeBudget(Len(callers), budget') /\ Readable(graph[n])
          THEN /\ stack' = Append(callers, [node |-> n, at |-> 1])
               /\ out' = Append(out, [node |-> n, depth |-> Len(callers)])
               /\ status' = "parsing"
          ELSE Fail /\ UNCHANGED out

Doing(do) ==
  /\ status = "parsing"
  /\ Top.at <= Len(TopSteps)
  /\ TopSteps[Top.at].do = do

Init ==
  /\ graph \in Graphs
  /\ status = "idle"
  /\ stack = <<>>
  /\ budget = MaxNodes
  /\ out = <<>>
  /\ copied = 0

Start ==
  /\ status = "idle"
  /\ Call(1, <<>>)
  /\ UNCHANGED <<graph, copied>>

ParseChild ==
  /\ Doing("parse")
  /\ Call(TopSteps[Top.at].what, Advanced)
  /\ UNCHANGED <<graph, copied>>

\* Segments of a layout, buffers of an array: numbers, used later as they are.
ResolveRef ==
  /\ Doing("resolve")
  /\ IF TopSteps[Top.at].what < Targets
     THEN stack' = Advanced /\ UNCHANGED status
     ELSE Fail
  /\ UNCHANGED <<graph, budget, out, copied>>

CopyText ==
  /\ Doing("copy")
  /\ LET cost == TextCost(TopSteps[Top.at].what)
     IN  IF cost <= budget
         THEN /\ budget' = budget - cost
              /\ copied' = copied + cost
              /\ stack' = Advanced
              /\ UNCHANGED status
         ELSE Fail /\ UNCHANGED <<budget, copied>>
  /\ UNCHANGED <<graph, out>>

\* The call that returns is that of Open or parseArray.
RootCall == Len(stack) = 1

Return ==
  /\ status = "parsing"
  /\ Top.at > Len(TopSteps)
  /\ stack' = SubSeq(stack, 1, Len(stack) - 1)
  /\ status' = IF RootCall THEN "parsed" ELSE "parsing"
  /\ UNCHANGED <<graph, budget, out, copied>>

Next == Start \/ ParseChild \/ ResolveRef \/ CopyText \/ Return

Spec == Init /\ [][Next]_vars

\* Parsing waits for nothing.
FairSpec == Spec /\ WF_vars(Next)

-----------------------------------------------------------------------------
Ended == status \in {"parsed", "failed"}

TypeOK ==
  /\ status \in {"idle", "parsing", "parsed", "failed"}
  /\ stack \in Seq([node : DOMAIN graph, at : Nat \ {0}])
  /\ budget \in Int
  /\ out \in Seq([node : DOMAIN graph, depth : Nat])
  /\ copied \in Nat
  /\ status = "parsing" => stack # <<>>

(* The limits hold for the tree a file unfolds to, however its tables are   *)
(* shared: calls nest no deeper than maxDepth, and the nodes and the names  *)
(* of a tree, siblings and all, take no more than one budget (file.go:222,  *)
(* 317).                                                                    *)
WorkBounded ==
  /\ Len(stack) <= MaxDepth + 1
  /\ Len(out) + copied <= MaxNodes

Resolved(m) ==
  m.kind \in {"layout", "array"} =>
    /\ m.encoding < Encodings
    /\ \A i \in 1..Len(m.refs) : m.refs[i] < Targets

(* The numbers in a parsed tree are used later without a check, as in       *)
(* f.segments[l.segments[0]] (array.go:24): each one is registered, also    *)
(* those of tables reached by several ways.                                 *)
EveryNumberResolves ==
  status = "parsed" => \A i \in 1..Len(out) : Resolved(graph[out[i].node])

-----------------------------------------------------------------------------
(* The tree a graph unfolds to: its tables in preorder, and what they cost. *)

\* The cost of the last k names.
NamesCost(names) ==
  LET last[k \in 0..Len(names)] ==
        IF k = 0 THEN 0 ELSE TextCost(names[Len(names) - k + 1]) + last[k - 1]
  IN  last

\* The last k of some trees, one after the other.
Forest(trees) ==
  LET last[k \in 0..Len(trees)] ==
        IF k = 0 THEN [tables |-> <<>>, cost |-> 0]
        ELSE LET tree == trees[Len(trees) - k + 1]
                 after == last[k - 1]
             IN  [tables |-> tree.tables \o after.tables, cost |-> tree.cost + after.cost]
  IN  last

\* The trees below the tables of a graph, where calls nest h levels more. One
\* that has no place costs more than there is.
Unfolding(g) ==
  LET high[h \in 0..(MaxDepth + 1)] ==
        [n \in DOMAIN g \cup {Missing} |->
           IF n = Missing \/ h = 0 THEN [tables |-> <<>>, cost |-> MaxNodes + 1]
           ELSE LET children == g[n].children
                    names == g[n].names
                    trees == [i \in 1..Len(children) |-> high[h - 1][children[i]]]
                    below == Forest(trees)[Len(children)]
                IN  [tables |-> <<[node |-> n, depth |-> MaxDepth + 1 - h]>> \o below.tables,
                     cost |-> 1 + NamesCost(names)[Len(names)] + below.cost]]
  IN  high

Tree(g) == Unfolding(g)[MaxDepth + 1][1]

WellFormed(m) ==
  /\ m.ok
  /\ m.kind = "struct" => Len(m.names) = Len(m.children)
  /\ Resolved(m)

Acceptable(g) ==
  LET tree == Tree(g)
  IN  /\ tree.cost <= MaxNodes
      /\ \A i \in 1..Len(tree.tables) : WellFormed(g[tree.tables[i].node])

(* Parsing succeeds exactly for a graph that unfolds to a tree within the   *)
(* limits, whichever of them it would reach first, and then the tree is     *)
(* that unfolding: every child in its place, the shared ones in each.       *)
ParsesTheUnfolding ==
  Ended =>
    /\ status = "parsed" <=> Acceptable(graph)
    /\ status = "parsed" => out = Tree(graph).tables

(* A file whose tables form a cycle, or share children at every level, is   *)
(* refused or parsed; the parser does not run for ever.                     *)
ParsingEnds == <>Ended
=============================================================================
