------------------------- MODULE MetadataWalkProofs -------------------------
(***************************************************************************)
(* For every graph of tables, cyclic or shared, and all limits: parsing    *)
(* stays within them, every number in a parsed tree is registered, and     *)
(* what is parsed, or refused, is the tree the graph unfolds to.           *)
(***************************************************************************)
EXTENDS MetadataWalk, WellFoundedInduction, SequenceTheorems, TLAPS

Step == [do : {"parse", "resolve", "copy"}, what : Nat]

-----------------------------------------------------------------------------
(* The steps of a table.                                                   *)

LEMMA PartTypes ==
  ASSUME NEW m \in Table
  PROVE  /\ Parse(m) \in Seq(Step) /\ Len(Parse(m)) = Len(m.children)
         /\ Resolve(m) \in Seq(Step) /\ Len(Resolve(m)) = Len(m.refs)
         /\ Copy(m) \in Seq(Step) /\ Len(Copy(m)) = Len(m.names)
BY DEF Parse, Resolve, Copy, Step, Table

LEMMA StepsType ==
  ASSUME NEW m \in Table, Readable(m)
  PROVE  Steps(m) \in Seq(Step)
<1>1. CASE m.kind = "struct"
  <2>1. Len(m.names) = Len(m.children) /\ Len(m.children) \in Nat
    BY <1>1 DEF Readable, Table
  <2>2. ASSUME NEW i \in 1..(2 * Len(m.children))
        PROVE  (IF i % 2 = 1 THEN Parse(m)[(i + 1) \div 2] ELSE Copy(m)[i \div 2]) \in Step
    <3>1. i % 2 = 1 => (i + 1) \div 2 \in 1..Len(m.children)
      BY <2>1
    <3>2. i % 2 # 1 => i \div 2 \in 1..Len(m.children)
      BY <2>1
    <3> QED BY <2>1, <3>1, <3>2, PartTypes
  <2> QED BY <1>1, <2>1, <2>2 DEF Steps, StructSteps
<1>2. CASE m.kind # "struct"
  BY <1>2, PartTypes DEF Steps, LayoutSteps, ArraySteps, ExtensionSteps, Table, Kinds
<1> QED BY <1>1, <1>2

\* A step that parses names a child of the table.
LEMMA StepParses ==
  ASSUME NEW m \in Table, Readable(m), NEW i \in 1..Len(Steps(m)), Steps(m)[i].do = "parse"
  PROVE  \E k \in 1..Len(m.children) : Steps(m)[i].what = m.children[k]
<1>1. /\ Len(m.children) \in Nat /\ Len(m.refs) \in Nat /\ Len(m.names) \in Nat
  BY DEF Table
<1>2. ASSUME NEW k \in 1..Len(m.children)
      PROVE  \E j \in 1..Len(m.children) : Parse(m)[k].what = m.children[j]
  <2>1. Parse(m)[k].what = m.children[k]
    BY <1>1 DEF Parse
  <2> QED BY <2>1
<1>3. ASSUME NEW k \in 1..Len(m.refs)
      PROVE  Resolve(m)[k].do = "resolve"
  BY <1>1 DEF Resolve
<1>4. ASSUME NEW k \in 1..Len(m.names)
      PROVE  Copy(m)[k].do = "copy"
  BY <1>1 DEF Copy
<1>5. CASE m.kind = "layout"
  <2>1. Steps(m) = Parse(m) \o Resolve(m)
    BY <1>5 DEF Steps, LayoutSteps
  <2>2. CASE i <= Len(m.children)
    <3>1. i \in 1..Len(m.children) /\ Steps(m)[i] = Parse(m)[i]
      BY <1>1, <2>1, <2>2, PartTypes
    <3> QED BY <1>2, <3>1
  <2>3. CASE i > Len(m.children)
    <3>1. /\ i - Len(m.children) \in 1..Len(m.refs)
          /\ Steps(m)[i] = Resolve(m)[i - Len(m.children)]
      BY <1>1, <2>1, <2>3, PartTypes, SMTT(30)
    <3> QED BY <1>3, <3>1
  <2> QED BY <1>1, <2>2, <2>3
<1>6. CASE m.kind = "array"
  <2>1. Steps(m) = Resolve(m) \o Parse(m)
    BY <1>6 DEF Steps, ArraySteps
  <2>2. CASE i <= Len(m.refs)
    <3>1. i \in 1..Len(m.refs) /\ Steps(m)[i] = Resolve(m)[i]
      BY <1>1, <2>1, <2>2, PartTypes
    <3> QED BY <1>3, <3>1
  <2>3. CASE i > Len(m.refs)
    <3>1. /\ i - Len(m.refs) \in 1..Len(m.children)
          /\ Steps(m)[i] = Parse(m)[i - Len(m.refs)]
      BY <1>1, <2>1, <2>3, PartTypes, SMTT(30)
    <3> QED BY <1>2, <3>1
  <2> QED BY <1>1, <2>2, <2>3
<1>7. CASE m.kind = "struct"
  <2>1. Len(m.names) = Len(m.children)
    BY <1>7 DEF Readable
  <2>2. Steps(m) = StructSteps(m) /\ i \in 1..(2 * Len(m.children))
    BY <1>1, <1>7 DEF Steps, StructSteps
  <2>3. CASE i % 2 = 1
    <3>1. /\ (i + 1) \div 2 \in 1..Len(m.children)
          /\ Steps(m)[i] = Parse(m)[(i + 1) \div 2]
      BY <1>1, <2>2, <2>3 DEF StructSteps
    <3> QED BY <1>2, <3>1
  <2>4. CASE i % 2 # 1
    <3>1. /\ i \div 2 \in 1..Len(m.names)
          /\ Steps(m)[i] = Copy(m)[i \div 2]
      BY <1>1, <2>1, <2>2, <2>4 DEF StructSteps
    <3> QED BY <1>4, <3>1
  <2> QED BY <2>3, <2>4
<1>8. CASE m.kind = "extension"
  <2>1. Steps(m) = Copy(m) \o Parse(m)
    BY <1>8 DEF Steps, ExtensionSteps
  <2>2. CASE i <= Len(m.names)
    <3>1. i \in 1..Len(m.names) /\ Steps(m)[i] = Copy(m)[i]
      BY <1>1, <2>1, <2>2, PartTypes
    <3> QED BY <1>4, <3>1
  <2>3. CASE i > Len(m.names)
    <3>1. /\ i - Len(m.names) \in 1..Len(m.children)
          /\ Steps(m)[i] = Parse(m)[i - Len(m.names)]
      BY <1>1, <2>1, <2>3, PartTypes, SMTT(30)
    <3> QED BY <1>2, <3>1
  <2> QED BY <1>1, <2>2, <2>3
<1>9. CASE m.kind = "list"
  <2>1. Steps(m) = Parse(m) /\ i \in 1..Len(m.children)
    BY <1>9, PartTypes DEF Steps
  <2> QED BY <1>2, <2>1
<1>10. CASE m.kind = "scalar"
  BY <1>10 DEF Steps
<1> QED BY <1>5, <1>6, <1>7, <1>8, <1>9, <1>10 DEF Table, Kinds

StepResolved(step) == step.do = "resolve" => step.what < Targets

\* Once its steps are done, the numbers of a table are registered.
LEMMA AllStepsResolve ==
  ASSUME NEW m \in Table, Readable(m), \A i \in 1..Len(Steps(m)) : StepResolved(Steps(m)[i])
  PROVE  Resolved(m)
<1>1. SUFFICES ASSUME m.kind \in {"layout", "array"}, NEW r \in 1..Len(m.refs)
               PROVE  m.refs[r] < Targets
  BY DEF Resolved, Readable
<1>2. Len(m.children) \in Nat /\ Len(m.refs) \in Nat
  BY DEF Table
<1>3. Resolve(m)[r] = [do |-> "resolve", what |-> m.refs[r]]
  BY DEF Resolve
<1>4. CASE m.kind = "layout"
  <2>1. Steps(m) = Parse(m) \o Resolve(m)
    BY <1>4 DEF Steps, LayoutSteps
  <2>2. /\ Len(m.children) + r \in 1..Len(Steps(m))
        /\ Steps(m)[Len(m.children) + r] = Resolve(m)[r]
    BY <1>2, <2>1, PartTypes
  <2>3. StepResolved(Resolve(m)[r])
    BY <2>2
  <2> QED BY <1>3, <2>3 DEF StepResolved
<1>5. CASE m.kind = "array"
  <2>1. Steps(m) = Resolve(m) \o Parse(m)
    BY <1>5 DEF Steps, ArraySteps
  <2>2. r \in 1..Len(Steps(m)) /\ Steps(m)[r] = Resolve(m)[r]
    BY <1>2, <2>1, PartTypes
  <2>3. StepResolved(Resolve(m)[r])
    BY <2>2
  <2> QED BY <1>3, <2>3 DEF StepResolved
<1> QED BY <1>1, <1>4, <1>5

-----------------------------------------------------------------------------
(* The inductive invariant.                                                *)

Frame == [node : DOMAIN graph, at : Nat \ {0}]

TypeInv == graph \in Graphs /\ TypeOK

\* What was spent and what is left add up; only a failure overdraws.
BudgetInv ==
  /\ WorkBounded
  /\ status # "failed" => budget >= 0 /\ Len(out) + copied + budget <= MaxNodes

\* Calls in progress passed their own checks, and the steps they have done.
FrameOK(f) ==
  /\ Readable(graph[f.node])
  /\ \A i \in 1..(f.at - 1) : i <= Len(Steps(graph[f.node])) =>
                                   StepResolved(Steps(graph[f.node])[i])

\* A table in the tree is resolved, or a call for it is still in progress.
Accounted(n) ==
  Resolved(graph[n]) \/ \E j \in 1..Len(stack) : stack[j].node = n

ProgressInv ==
  /\ status \in {"idle", "parsed"} => stack = <<>>
  /\ status = "idle" => out = <<>>
  /\ \A j \in 1..Len(stack) : FrameOK(stack[j])
  /\ status # "failed" => \A i \in 1..Len(out) : Accounted(out[i].node)

IInv == TypeInv /\ BudgetInv /\ ProgressInv

LEMMA GraphFacts ==
  ASSUME TypeInv, NEW n \in DOMAIN graph
  PROVE  /\ graph[n] \in Table
         /\ \A i \in 1..Len(graph[n].children) :
               graph[n].children[i] \in DOMAIN graph \cup {Missing}
BY WalkAssumption DEF TypeInv

LEMMA InitInv == ASSUME Init PROVE IInv
BY WalkAssumption DEF Init, IInv, TypeInv, TypeOK, BudgetInv, WorkBounded, ProgressInv

\* There is a call in progress while the parser runs.
LEMMA StackFacts ==
  ASSUME IInv, status = "parsing"
  PROVE  /\ stack \in Seq(Frame) /\ Len(stack) \in Nat \ {0}
         /\ \A j \in 1..Len(stack) : stack[j] \in Frame
         /\ Top = stack[Len(stack)] /\ Top \in Frame
<1>1. stack \in Seq(Frame) /\ stack # <<>>
  BY DEF IInv, TypeInv, TypeOK, Frame
<1> HIDE DEF Frame
<1>2. Len(stack) \in Nat \ {0}
  BY <1>1
<1>3. \A j \in 1..Len(stack) : stack[j] \in Frame
  BY <1>1
<1>4. Top = stack[Len(stack)] /\ Top \in Frame
  BY <1>2, <1>3 DEF Top
<1> QED BY <1>1, <1>2, <1>3, <1>4

\* Failing leaves the tree as it was.
LEMMA FailInv ==
  ASSUME IInv, Fail, budget' \in Int, UNCHANGED <<graph, out, copied>>, status = "parsing" \/ stack = <<>>
  PROVE  IInv'
<1>1. TypeInv'
  BY DEF IInv, TypeInv, TypeOK, Fail
<1>2. BudgetInv'
  BY DEF IInv, BudgetInv, WorkBounded, Fail
<1>3. ProgressInv'
  BY DEF IInv, ProgressInv, FrameOK, Fail
<1> QED BY <1>1, <1>2, <1>3 DEF IInv

\* The caller of a step that is done: still in order, and the same tables.
LEMMA AdvancedFacts ==
  ASSUME IInv, status = "parsing", Top.at <= Len(TopSteps), StepResolved(TopSteps[Top.at])
  PROVE  /\ Advanced \in Seq(Frame) /\ Len(Advanced) = Len(stack)
         /\ \A j \in 1..Len(stack) : Advanced[j].node = stack[j].node
         /\ \A j \in 1..Len(stack) : FrameOK(Advanced[j])
<1>1. /\ stack \in Seq(Frame) /\ Len(stack) \in Nat \ {0}
      /\ \A j \in 1..Len(stack) : stack[j] \in Frame
  BY StackFacts
<1>2. Top \in Frame
  BY StackFacts
<1>3. \A j \in 1..Len(stack) :
        Advanced[j] = IF j = Len(stack) THEN [Top EXCEPT !.at = @ + 1] ELSE stack[j]
  BY <1>1 DEF Advanced, Top
<1>4. [Top EXCEPT !.at = @ + 1] = [node |-> Top.node, at |-> Top.at + 1]
  BY <1>2 DEF Frame
<1>5. FrameOK([Top EXCEPT !.at = @ + 1])
  <2>1. FrameOK(Top)
    BY <1>1 DEF IInv, ProgressInv, Top
  <2>2. ASSUME NEW i \in 1..Top.at
        PROVE  i <= Len(TopSteps) => StepResolved(TopSteps[i])
    <3>1. CASE i = Top.at
      BY <3>1
    <3>2. CASE i # Top.at
      <4>1. i \in 1..(Top.at - 1)
        BY <1>2, <3>2 DEF Frame
      <4> QED BY <2>1, <4>1 DEF FrameOK, TopSteps
    <3> QED BY <3>1, <3>2
  <2> DEFINE next == [Top EXCEPT !.at = @ + 1]
  <2>3. next.node = Top.node /\ next.at - 1 = Top.at
    BY <1>2, <1>4 DEF Frame
  <2> HIDE DEF next
  <2>4. FrameOK(next)
    BY <2>1, <2>2, <2>3 DEF FrameOK, TopSteps
  <2> QED BY <2>4 DEF next
<1>6. Advanced \in Seq(Frame) /\ Len(Advanced) = Len(stack)
  BY <1>1, <1>2, <1>4 DEF Advanced, Top, Frame
<1>7. \A j \in 1..Len(stack) : Advanced[j].node = stack[j].node
  BY <1>1, <1>2, <1>3, <1>4 DEF Top
<1>8. \A j \in 1..Len(stack) : FrameOK(Advanced[j])
  BY <1>1, <1>3, <1>5 DEF IInv, ProgressInv
<1> QED BY <1>6, <1>7, <1>8

\* A call, from callers in order that stand for the same tables as the stack.
LEMMA CallInv ==
  ASSUME IInv, NEW n \in DOMAIN graph \cup {Missing}, NEW callers \in Seq(Frame),
         Call(n, callers), UNCHANGED <<graph, copied>>,
         Len(callers) = Len(stack), status # "failed",
         status = "parsing" \/ stack = <<>>,
         \A j \in 1..Len(stack) : callers[j].node = stack[j].node,
         \A j \in 1..Len(stack) : FrameOK(callers[j])
  PROVE  IInv'
<1>1. CASE Fail
  <2>1. budget' \in Int /\ out' = out
    BY <1>1 DEF Call, Fail, IInv, TypeInv, TypeOK
  <2> QED BY <1>1, <2>1, FailInv
<1>2. CASE ~Fail
  <2> DEFINE new == [node |-> n, at |-> 1]
             entry == [node |-> n, depth |-> Len(callers)]
  <2>1. /\ n # Missing /\ n \in DOMAIN graph
        /\ budget' = budget - 1
        /\ Len(callers) <= MaxDepth /\ budget' >= 0 /\ Readable(graph[n])
        /\ stack' = Append(callers, new)
        /\ out' = Append(out, entry)
        /\ status' = "parsing"
    BY <1>2 DEF Call, NodeBudget
  <2>2. /\ budget \in Int /\ copied \in Nat /\ Len(out) \in Nat /\ Len(callers) \in Nat
        /\ out \in Seq([node : DOMAIN graph, depth : Nat])
        /\ graph' = graph /\ copied' = copied
    BY DEF IInv, TypeInv, TypeOK
  <2>3. new \in Frame /\ entry \in [node : DOMAIN graph, depth : Nat]
    BY <2>1, <2>2 DEF Frame
  <2>4. /\ Len(stack') = Len(callers) + 1
        /\ \A j \in 1..Len(stack') : stack'[j] = IF j <= Len(callers) THEN callers[j] ELSE new
        /\ Len(out') = Len(out) + 1
        /\ \A i \in 1..Len(out') : out'[i] = IF i <= Len(out) THEN out[i] ELSE entry
    BY <2>1, <2>2, <2>3
  <2>5. TypeInv'
    <3>1. stack' \in Seq(Frame) /\ stack' # <<>>
      BY <2>1, <2>3
    <3>2. out' \in Seq([node : DOMAIN graph, depth : Nat])
      BY <2>1, <2>2, <2>3
    <3> QED BY <2>1, <2>2, <3>1, <3>2 DEF IInv, TypeInv, TypeOK, Frame
  <2>6. BudgetInv'
    <3>1. Len(out) + copied + budget <= MaxNodes
      BY DEF IInv, BudgetInv
    <3> HIDE DEF new, entry
    <3>2. Len(stack') <= MaxDepth + 1 /\ Len(out') + copied' + budget' <= MaxNodes
      BY <2>1, <2>2, <2>4, <3>1, WalkAssumption
    <3>3. Len(out') + copied' <= MaxNodes
      BY <2>1, <2>2, <2>4, <3>2, WalkAssumption
    <3> QED BY <2>1, <3>2, <3>3 DEF BudgetInv, WorkBounded
  <2>7. ProgressInv'
    <3>1. ASSUME NEW j \in 1..Len(stack')
          PROVE  FrameOK(stack[j])'
      <4>1. CASE j <= Len(callers)
        <5>1. FrameOK(callers[j])
          BY <2>2, <4>1
        <5> QED BY <2>2, <2>4, <4>1, <5>1 DEF FrameOK
      <4>2. CASE j > Len(callers)
        <5>1. stack'[j] = new
          BY <2>2, <2>4, <4>2
        <5> QED BY <2>1, <2>2, <5>1 DEF FrameOK
      <4> QED BY <2>2, <2>4, <4>1, <4>2
    <3>2. ASSUME NEW i \in 1..Len(out')
          PROVE  Accounted(out[i].node)'
      <4>1. CASE i <= Len(out)
        <5>1. out'[i] = out[i] /\ i \in 1..Len(out) /\ Accounted(out[i].node)
          BY <2>2, <2>4, <4>1 DEF IInv, ProgressInv
        <5>2. CASE Resolved(graph[out[i].node])
          BY <2>2, <5>1, <5>2 DEF Accounted
        <5>3. ASSUME NEW j \in 1..Len(stack), stack[j].node = out[i].node
              PROVE  Accounted(out[i].node)'
          <6>1. j \in 1..Len(stack') /\ stack'[j].node = out[i].node
            BY <2>2, <2>4, <5>3, Len(callers) = Len(stack), callers[j].node = stack[j].node
          <6> QED BY <5>1, <6>1 DEF Accounted
        <5> QED BY <5>1, <5>2, <5>3 DEF Accounted
      <4>2. CASE i > Len(out)
        <5>1. out'[i].node = n
          BY <2>2, <2>4, <4>2
        <5>2. Len(stack') \in 1..Len(stack') /\ stack'[Len(stack')].node = n
          BY <2>2, <2>4
        <5> QED BY <5>1, <5>2 DEF Accounted
      <4> QED BY <2>2, <2>4, <4>1, <4>2
    <3> QED BY <2>1, <3>1, <3>2 DEF ProgressInv
  <2> QED BY <2>5, <2>6, <2>7 DEF IInv
<1> QED BY <1>1, <1>2

LEMMA Moved ==
  ASSUME NEW o \in Nat, NEW b \in Int, NEW c \in Nat, NEW b2 \in Nat, NEW c2 \in Nat,
         NEW m \in Nat, b2 + c2 = b + c, o + c + b <= m
  PROVE  o + c2 <= m /\ o + c2 + b2 <= m
OBVIOUS

\* A step other than a call: only the caller's place in its steps changes.
LEMMA AdvanceInv ==
  ASSUME IInv, status = "parsing", Top.at <= Len(TopSteps), StepResolved(TopSteps[Top.at]),
         stack' = Advanced, UNCHANGED <<graph, status, out>>,
         budget' \in Nat, copied' \in Nat, budget' + copied' = budget + copied
  PROVE  IInv'
<1>1. /\ Advanced \in Seq(Frame) /\ Len(Advanced) = Len(stack)
      /\ \A j \in 1..Len(stack) : Advanced[j].node = stack[j].node
      /\ \A j \in 1..Len(stack) : FrameOK(Advanced[j])
  BY AdvancedFacts
<1>2. Len(stack) \in Nat \ {0} /\ Len(out) \in Nat /\ budget \in Int /\ copied \in Nat
  BY DEF IInv, TypeInv, TypeOK
<1>3. TypeInv'
  <2>1. Advanced # <<>>
    BY <1>1, <1>2
  <2> QED BY <1>1, <2>1 DEF IInv, TypeInv, TypeOK, Frame
<1>4. BudgetInv'
  <2>1. Len(stack) <= MaxDepth + 1 /\ Len(out) + copied + budget <= MaxNodes
    BY DEF IInv, BudgetInv, WorkBounded
  <2> DEFINE o == Len(out)
  <2>2. o \in Nat /\ MaxNodes \in Nat /\ o + copied + budget <= MaxNodes
    BY <1>2, <2>1, WalkAssumption
  <2> HIDE DEF o
  <2>3. o + copied' <= MaxNodes /\ o + copied' + budget' <= MaxNodes
    BY <1>2, <2>2, Moved
  <2> QED BY <1>1, <2>1, <2>3 DEF BudgetInv, WorkBounded, o
<1>5. ProgressInv'
  <2>1. \A j \in 1..Len(stack') : FrameOK(stack[j])'
    BY <1>1 DEF FrameOK
  <2>2. ASSUME NEW i \in 1..Len(out)
        PROVE  Accounted(out[i].node)'
    <3>1. Accounted(out[i].node)
      BY DEF IInv, ProgressInv
    <3>2. \A j \in 1..Len(stack) : j \in 1..Len(stack') /\ stack'[j].node = stack[j].node
      BY <1>1
    <3> QED BY <3>1, <3>2 DEF Accounted
  <2> QED BY <2>1, <2>2 DEF ProgressInv
<1> QED BY <1>3, <1>4, <1>5 DEF IInv

\* The call in progress that is innermost.
LEMMA TopFacts ==
  ASSUME IInv, status = "parsing"
  PROVE  /\ Len(stack) \in Nat \ {0}
         /\ Top = stack[Len(stack)] /\ Top \in Frame
         /\ graph[Top.node] \in Table
         /\ Readable(graph[Top.node])
         /\ TopSteps \in Seq(Step)
<1>1. /\ Len(stack) \in Nat \ {0}
      /\ Top = stack[Len(stack)] /\ Top \in Frame
  BY StackFacts
<1>2. Readable(graph[Top.node])
  BY <1>1 DEF IInv, ProgressInv, FrameOK
<1>3. graph[Top.node] \in Table
  BY <1>1, GraphFacts DEF IInv, Frame
<1>4. TopSteps \in Seq(Step)
  BY <1>2, <1>3, StepsType DEF TopSteps
<1> QED BY <1>1, <1>2, <1>3, <1>4

LEMMA StartInv == ASSUME IInv, Start PROVE IInv'
<1>1. status = "idle" /\ stack = <<>> /\ Call(1, <<>>) /\ UNCHANGED <<graph, copied>>
  BY DEF Start, IInv, ProgressInv
<1>2. 1 \in DOMAIN graph /\ <<>> \in Seq(Frame) /\ Len(<<>>) = 0
  BY WalkAssumption DEF IInv, TypeInv
<1>3. Len(<<>>) = Len(stack) /\ 1..Len(stack) = {}
  BY <1>1, <1>2
<1> QED BY <1>1, <1>2, <1>3, CallInv

LEMMA ParseChildInv == ASSUME IInv, ParseChild PROVE IInv'
<1> DEFINE n == TopSteps[Top.at].what
<1>1. /\ status = "parsing" /\ Top.at <= Len(TopSteps) /\ TopSteps[Top.at].do = "parse"
      /\ Call(n, Advanced) /\ UNCHANGED <<graph, copied>>
  BY DEF ParseChild, Doing
<1>2. Top.at \in 1..Len(TopSteps) /\ StepResolved(TopSteps[Top.at])
  BY <1>1, TopFacts DEF Frame, StepResolved
<1>3. n \in DOMAIN graph \cup {Missing}
  <2>1. PICK k \in 1..Len(graph[Top.node].children) : n = graph[Top.node].children[k]
    BY <1>1, <1>2, TopFacts, StepParses DEF TopSteps
  <2> QED BY <1>1, <2>1, TopFacts, GraphFacts DEF IInv, Frame
<1> HIDE DEF n
<1> QED BY <1>1, <1>2, <1>3, AdvancedFacts, CallInv

LEMMA ResolveRefInv == ASSUME IInv, ResolveRef PROVE IInv'
<1>1. /\ status = "parsing" /\ Top.at <= Len(TopSteps)
      /\ UNCHANGED <<graph, budget, out, copied>>
  BY DEF ResolveRef, Doing
<1>2. budget \in Nat /\ copied \in Nat
  BY <1>1 DEF IInv, TypeInv, TypeOK, BudgetInv
<1>3. CASE TopSteps[Top.at].what < Targets
  <2>1. stack' = Advanced /\ status' = status /\ StepResolved(TopSteps[Top.at])
    BY <1>3 DEF ResolveRef, StepResolved
  <2> QED BY <1>1, <1>2, <2>1, AdvanceInv
<1>4. CASE ~(TopSteps[Top.at].what < Targets)
  <2>1. Fail
    BY <1>4 DEF ResolveRef
  <2> QED BY <1>1, <1>2, <2>1, FailInv
<1> QED BY <1>3, <1>4

LEMMA CopyTextInv == ASSUME IInv, CopyText PROVE IInv'
<1> DEFINE cost == TextCost(TopSteps[Top.at].what)
<1>1. /\ status = "parsing" /\ Top.at <= Len(TopSteps) /\ TopSteps[Top.at].do = "copy"
      /\ UNCHANGED <<graph, out>>
  BY DEF CopyText, Doing
<1>2. budget \in Nat /\ copied \in Nat
  BY <1>1 DEF IInv, TypeInv, TypeOK, BudgetInv
<1>3. cost \in Nat
  <2>1. TopSteps[Top.at] \in Step
    BY <1>1, TopFacts DEF Frame
  <2> QED BY <2>1 DEF Step, TextCost
<1>4. CASE cost <= budget
  <2>1. /\ budget' = budget - cost /\ copied' = copied + cost
        /\ stack' = Advanced /\ status' = status
    BY <1>4 DEF CopyText
  <2>2. StepResolved(TopSteps[Top.at])
    BY <1>1 DEF StepResolved
  <2> HIDE DEF cost
  <2>3. budget' \in Nat /\ copied' \in Nat /\ budget' + copied' = budget + copied
    BY <1>2, <1>3, <1>4, <2>1
  <2> QED BY <1>1, <2>1, <2>2, <2>3, AdvanceInv
<1>5. CASE ~(cost <= budget)
  <2>1. Fail /\ UNCHANGED <<budget, copied>>
    BY <1>5 DEF CopyText
  <2> QED BY <1>1, <1>2, <2>1, FailInv
<1> QED BY <1>4, <1>5

\* The table of a call that returns is resolved.
LEMMA ReturnInv == ASSUME IInv, Return PROVE IInv'
<1>1. /\ status = "parsing" /\ Top.at > Len(TopSteps)
      /\ stack' = SubSeq(stack, 1, Len(stack) - 1)
      /\ status' = IF Len(stack) = 1 THEN "parsed" ELSE "parsing"
      /\ UNCHANGED <<graph, budget, out, copied>>
  BY DEF Return, RootCall
<1>2. stack \in Seq(Frame) /\ Len(stack) \in Nat \ {0}
  BY <1>1, StackFacts
<1>3. /\ stack' \in Seq(Frame) /\ Len(stack') = Len(stack) - 1
      /\ \A j \in 1..Len(stack') : stack'[j] = stack[j]
  <2> HIDE DEF Frame
  <2> DEFINE k == Len(stack) - 1
  <2>1. k \in Nat /\ k <= Len(stack) /\ stack' = SubSeq(stack, 1, k)
    BY <1>1, <1>2
  <2> HIDE DEF k
  <2>2. Len(stack') = k /\ \A j \in 1..k : stack'[j] = stack[j]
    BY <1>2, <2>1
  <2>3. stack' \in Seq(Frame)
    BY <1>2, <2>1
  <2> QED BY <2>2, <2>3 DEF k
<1>4. Resolved(graph[Top.node])
  <2>1. FrameOK(Top)
    BY <1>2, TopFacts, <1>1 DEF IInv, ProgressInv
  <2>2. \A i \in 1..Len(TopSteps) : i \in 1..(Top.at - 1)
    BY <1>1, TopFacts DEF Frame
  <2>3. \A i \in 1..Len(TopSteps) : StepResolved(TopSteps[i])
    BY <2>1, <2>2 DEF FrameOK, TopSteps
  <2> QED BY <1>1, <2>3, TopFacts, AllStepsResolve DEF TopSteps
<1>5. TypeInv'
  <2>1. ASSUME status' = "parsing" PROVE stack' # <<>>
    <3>1. Len(stack') # 0
      BY <1>1, <1>2, <1>3, <2>1
    <3> QED BY <3>1
  <2> QED BY <1>1, <1>3, <2>1 DEF IInv, TypeInv, TypeOK, Frame
<1>6. BudgetInv'
  BY <1>1, <1>2, <1>3, WalkAssumption DEF IInv, BudgetInv, WorkBounded
<1>7. ProgressInv'
  <2>1. \A j \in 1..Len(stack') : FrameOK(stack[j])'
    BY <1>1, <1>2, <1>3, SMTT(30) DEF IInv, ProgressInv, FrameOK
  <2>2. ASSUME NEW i \in 1..Len(out)
        PROVE  Accounted(out[i].node)'
    <3>1. Accounted(out[i].node)
      BY <1>1 DEF IInv, ProgressInv
    <3>2. CASE Resolved(graph[out[i].node])
      BY <1>1, <3>2 DEF Accounted
    <3>3. ASSUME NEW j \in 1..Len(stack), stack[j].node = out[i].node
          PROVE  Accounted(out[i].node)'
      <4>1. CASE j = Len(stack)
        BY <1>1, <1>4, <3>3, <4>1, TopFacts DEF Accounted
      <4>2. CASE j # Len(stack)
        <5>1. j \in 1..Len(stack') /\ stack'[j].node = out[i].node
          BY <1>2, <1>3, <3>3, <4>2
        <5> QED BY <1>1, <5>1 DEF Accounted
      <4> QED BY <4>1, <4>2
    <3> QED BY <3>1, <3>2, <3>3 DEF Accounted
  <2>3. status' = "parsed" => stack' = <<>>
    BY <1>1, <1>2, <1>3
  <2> QED BY <1>1, <2>1, <2>2, <2>3 DEF ProgressInv
<1> QED BY <1>5, <1>6, <1>7 DEF IInv

LEMMA Inductive == ASSUME IInv, [Next]_vars PROVE IInv'
<1>1. CASE UNCHANGED vars
  BY <1>1 DEF vars, IInv, TypeInv, TypeOK, BudgetInv, WorkBounded, ProgressInv, FrameOK,
              Accounted
<1> QED BY <1>1, StartInv, ParseChildInv, ResolveRefInv, CopyTextInv, ReturnInv DEF Next

THEOREM Invariance == Spec => []IInv
<1>1. Init => IInv
  BY InitInv
<1>2. IInv /\ [Next]_vars => IInv'
  BY Inductive
<1> QED BY <1>1, <1>2, PTL DEF Spec

(* However tables are shared, parsing stays within maxDepth and the budget  *)
(* (nodeBudget, copyText).                                                  *)
THEOREM StaysInBudget == Spec => []WorkBounded
<1>1. IInv => WorkBounded
  BY DEF IInv, BudgetInv
<1> QED BY <1>1, Invariance, PTL

(* Every segment, buffer and encoding number of a parsed tree is registered *)
(* (parseLayout, parseNode).                                                *)
THEOREM NumbersResolve == Spec => []EveryNumberResolves
<1>1. IInv => EveryNumberResolves
  BY DEF IInv, ProgressInv, EveryNumberResolves, Accounted
<1> QED BY <1>1, Invariance, PTL
-----------------------------------------------------------------------------
(* Functions defined by recursion over numbers.                            *)

LEMMA Induct ==
  ASSUME NEW S \in SUBSET Nat, 0 \in S, \A n \in S : n + 1 \in S
  PROVE  S = Nat
<1> SUFFICES ASSUME Nat \ S # {} PROVE FALSE
  OBVIOUS
<1> DEFINE R == OpToRel(<, Nat)
<1>1. IsWellFoundedOn(R, Nat)
  BY NatLessThanWellFounded
<1>2. \E n \in Nat \ S : \A m \in Nat \ S : ~(<<m, n>> \in R)
  <2> HIDE DEF R
  <2> QED BY <1>1, WFMin
<1>3. \A m, n \in Nat : <<m, n>> \in R <=> m < n
  BY DEF OpToRel
<1> HIDE DEF R
<1>4. PICK n \in Nat \ S : \A m \in Nat \ S : ~(m < n)
  BY <1>2, <1>3
<1>5. n # 0 /\ n - 1 \in Nat /\ n - 1 < n
  BY <1>4
<1>6. n - 1 \in S
  BY <1>4, <1>5
<1> QED BY <1>4, <1>5, <1>6

\* A function that has been defined for n numbers, each from the one before.
Iterates(f, a, step, n) == f[0] = a /\ \A k \in 1..n : f[k] = step[k][f[k - 1]]

LEMMA IterationExists ==
  ASSUME NEW X, NEW a \in X, NEW n \in Nat, NEW step \in [1..n -> [X -> X]]
  PROVE  \E f \in [0..n -> X] : Iterates(f, a, step, n)
<1> DEFINE S == {m \in Nat : m <= n => \E f \in [0..m -> X] : Iterates(f, a, step, m)}
<1>1. 0 \in S
  <2>1. [k \in 0..0 |-> a] \in [0..0 -> X] /\ Iterates([k \in 0..0 |-> a], a, step, 0)
    BY DEF Iterates
  <2> QED BY <2>1
<1>2. ASSUME NEW m \in S PROVE m + 1 \in S
  <2> SUFFICES ASSUME m + 1 <= n
               PROVE  \E f \in [0..(m + 1) -> X] : Iterates(f, a, step, m + 1)
    OBVIOUS
  <2>1. PICK f \in [0..m -> X] : Iterates(f, a, step, m)
    OBVIOUS
  <2> DEFINE new == step[m + 1][f[m]]
             g == [k \in 0..(m + 1) |-> IF k = m + 1 THEN new ELSE f[k]]
  <2>2. new \in X
    <3>1. m + 1 \in 1..n /\ f[m] \in X
      OBVIOUS
    <3> QED BY <3>1
  <2>3. \A k \in 0..m : g[k] = f[k] /\ f[k] \in X
    OBVIOUS
  <2>4. g[m + 1] = new
    OBVIOUS
  <2>5. g \in [0..(m + 1) -> X]
    <3> HIDE DEF new
    <3> QED BY <2>2, <2>3
  <2> HIDE DEF g
  <2>6. ASSUME NEW k \in 1..(m + 1)
        PROVE  g[k] = step[k][g[k - 1]]
    <3>1. CASE k = m + 1
      <4>1. g[k - 1] = f[m]
        BY <2>3, <3>1
      <4> QED BY <2>4, <3>1, <4>1
    <3>2. CASE k # m + 1
      <4>1. k \in 1..m /\ k \in 0..m /\ k - 1 \in 0..m
        BY <3>2
      <4> QED BY <2>1, <2>3, <4>1 DEF Iterates
    <3> QED BY <3>1, <3>2
  <2>7. g[0] = a
    BY <2>1, <2>3 DEF Iterates
  <2>8. Iterates(g, a, step, m + 1)
    BY <2>6, <2>7 DEF Iterates
  <2> QED BY <2>5, <2>8
<1> HIDE DEF S
<1>3. S = Nat
  BY <1>1, <1>2, Induct, S \in SUBSET Nat DEF S
<1> QED BY <1>3 DEF S

\* What each value of such a function is, if the first is and each next one.
LEMMA StaysIn ==
  ASSUME NEW X, NEW f, NEW n \in Nat, f[0] \in X,
         \A k \in 1..n : f[k - 1] \in X => f[k] \in X
  PROVE  \A k \in 0..n : f[k] \in X
<1> DEFINE S == {k \in Nat : k <= n => f[k] \in X}
<1>1. 0 \in S
  OBVIOUS
<1>2. ASSUME NEW k \in S PROVE k + 1 \in S
  <2> SUFFICES ASSUME k + 1 <= n PROVE f[k + 1] \in X
    OBVIOUS
  <2>1. k + 1 \in 1..n /\ (k + 1) - 1 = k /\ f[k] \in X
    OBVIOUS
  <2> QED BY <2>1
<1> HIDE DEF S
<1>3. S = Nat
  BY <1>1, <1>2, Induct, S \in SUBSET Nat DEF S
<1> QED BY <1>3 DEF S

-----------------------------------------------------------------------------
(* The tree a graph unfolds to, level by level.                            *)

CostOf(names, k, rest) == TextCost(names[Len(names) - k + 1]) + rest

LEMMA NamesCostIs ==
  ASSUME NEW names \in Seq(Nat)
  PROVE  /\ NamesCost(names)[0] = 0
         /\ \A k \in 1..Len(names) :
              NamesCost(names)[k] = CostOf(names, k, NamesCost(names)[k - 1])
         /\ \A k \in 0..Len(names) : NamesCost(names)[k] \in Nat
<1> DEFINE n == Len(names)
           step == [k \in 1..n |-> [x \in Nat |-> CostOf(names, k, x)]]
           Is(f) == f = [k \in 0..n |-> IF k = 0 THEN 0 ELSE CostOf(names, k, f[k - 1])]
           chosen == CHOOSE f : Is(f)
<1>1. n \in Nat
  OBVIOUS
<1>2. ASSUME NEW k \in 1..n, NEW x \in Nat
      PROVE  CostOf(names, k, x) \in Nat
  <2>1. n - k + 1 \in 1..n
    BY <1>1
  <2>2. TextCost(names[n - k + 1]) \in Nat
    BY <2>1 DEF TextCost
  <2> QED BY <2>2 DEF CostOf
<1>3. step \in [1..n -> [Nat -> Nat]]
  <2> HIDE DEF n
  <2> QED BY <1>2
<1>4. NamesCost(names) = chosen
  BY DEF NamesCost, CostOf
<1>5. \E f : Is(f)
  <2>1. PICK f \in [0..n -> Nat] : Iterates(f, 0, step, n)
    <3> HIDE DEF step, n
    <3> QED BY <1>1, <1>3, IterationExists
  <2>2. ASSUME NEW k \in 0..n PROVE f[k] = IF k = 0 THEN 0 ELSE CostOf(names, k, f[k - 1])
    <3>1. CASE k = 0
      BY <2>1, <3>1 DEF Iterates
    <3>2. CASE k # 0
      <4>1. k \in 1..n /\ f[k - 1] \in Nat
        BY <1>1, <3>2, SMTT(30)
      <4> QED BY <2>1, <3>2, <4>1 DEF Iterates
    <3> QED BY <3>1, <3>2
  <2>3. f = [k \in 0..n |-> f[k]]
    OBVIOUS
  <2> QED BY <2>2, <2>3
<1>6. Is(chosen)
  <2> HIDE DEF Is
  <2> QED BY <1>5
<1> HIDE DEF chosen
<1>7. chosen[0] = 0 /\ \A k \in 1..n : chosen[k] = CostOf(names, k, chosen[k - 1])
  <2> HIDE DEF n
  <2> QED BY <1>1, <1>6
<1>8. \A k \in 0..n : chosen[k] \in Nat
  <2> HIDE DEF n
  <2>1. \A k \in 1..n : chosen[k - 1] \in Nat => chosen[k] \in Nat
    BY <1>2, <1>7
  <2>2. chosen[0] \in Nat
    BY <1>7
  <2> QED BY <1>1, <2>1, <2>2, StaysIn
<1> QED BY <1>4, <1>7, <1>8

TreesOver(E) == [tables : Seq(E), cost : Nat]

Then(tree, rest) == [tables |-> tree.tables \o rest.tables, cost |-> tree.cost + rest.cost]

LEMMA ThenType ==
  ASSUME NEW E, NEW t \in TreesOver(E), NEW r \in TreesOver(E)
  PROVE  Then(t, r) \in TreesOver(E)
<1>1. t.tables \in Seq(E) /\ r.tables \in Seq(E) /\ t.cost \in Nat /\ r.cost \in Nat
  BY DEF TreesOver
<1>2. t.tables \o r.tables \in Seq(E) /\ t.cost + r.cost \in Nat
  BY <1>1
<1> QED BY <1>2 DEF Then, TreesOver

None == [tables |-> <<>>, cost |-> 0]

LEMMA ForestIs ==
  ASSUME NEW E, NEW trees \in Seq(TreesOver(E))
  PROVE  /\ Forest(trees)[0] = None
         /\ \A k \in 1..Len(trees) :
              Forest(trees)[k] = Then(trees[Len(trees) - k + 1], Forest(trees)[k - 1])
         /\ \A k \in 0..Len(trees) : Forest(trees)[k] \in TreesOver(E)
<1> DEFINE n == Len(trees)
           T == TreesOver(E)
           step == [k \in 1..n |-> [x \in T |-> Then(trees[n - k + 1], x)]]
           Is(f) == f = [k \in 0..n |-> IF k = 0 THEN None ELSE Then(trees[n - k + 1], f[k - 1])]
           chosen == CHOOSE f : Is(f)
<1>1. n \in Nat
  OBVIOUS
<1>2. ASSUME NEW k \in 1..n, NEW x \in T
      PROVE  Then(trees[n - k + 1], x) \in T
  <2>1. n - k + 1 \in 1..n
    BY <1>1
  <2>2. trees[n - k + 1] \in T
    BY <2>1
  <2> HIDE DEF T, n
  <2>3. \A t \in T, r \in T : Then(t, r) \in T
    BY ThenType DEF T
  <2> QED BY <2>2, <2>3
<1>3. step \in [1..n -> [T -> T]]
  <2> HIDE DEF n, T
  <2> QED BY <1>2
<1>4. None \in T
  BY DEF None, TreesOver
<1>5. Forest(trees) = chosen
  BY DEF Forest, Then, None
<1> HIDE DEF T
<1>6. \E f : Is(f)
  <2>1. PICK f \in [0..n -> T] : Iterates(f, None, step, n)
    <3> HIDE DEF step, n
    <3> QED BY <1>1, <1>3, <1>4, IterationExists
  <2>2. ASSUME NEW k \in 0..n PROVE f[k] = IF k = 0 THEN None ELSE Then(trees[n - k + 1], f[k - 1])
    <3> HIDE DEF n
    <3>1. CASE k = 0
      BY <2>1, <3>1 DEF Iterates
    <3>2. CASE k # 0
      <4>1. k \in 1..n /\ k - 1 \in 0..n
        BY <1>1, <3>2
      <4>2. f[k - 1] \in T
        BY <4>1
      <4>3. f[k] = step[k][f[k - 1]]
        BY <2>1, <4>1 DEF Iterates
      <4> QED BY <3>2, <4>1, <4>2, <4>3
    <3> QED BY <3>1, <3>2
  <2>3. f = [k \in 0..n |-> f[k]]
    OBVIOUS
  <2> QED BY <2>2, <2>3
<1>7. Is(chosen)
  <2> HIDE DEF Is
  <2> QED BY <1>6
<1> HIDE DEF chosen
<1>8. chosen[0] = None /\ \A k \in 1..n : chosen[k] = Then(trees[n - k + 1], chosen[k - 1])
  <2> HIDE DEF n
  <2> QED BY <1>1, <1>7
<1>9. \A k \in 0..n : chosen[k] \in T
  <2> HIDE DEF n
  <2>1. \A k \in 1..n : chosen[k - 1] \in T => chosen[k] \in T
    BY <1>2, <1>8
  <2>2. chosen[0] \in T
    BY <1>4, <1>8
  <2> QED BY <1>1, <2>1, <2>2, StaysIn
<1> QED BY <1>5, <1>8, <1>9 DEF T

Nodes(g) == DOMAIN g \cup {Missing}

TreesOf(g) == TreesOver([node : DOMAIN g, depth : Nat])

NoPlace == [tables |-> <<>>, cost |-> MaxNodes + 1]

\* The trees of the children of table n, where those of the level below are low.
Children(g, n, low) == [i \in 1..Len(g[n].children) |-> low[g[n].children[i]]]

\* The tree of table n at level h.
Grown(g, n, h, low) ==
  LET below == Forest(Children(g, n, low))[Len(g[n].children)]
  IN  [tables |-> <<[node |-> n, depth |-> MaxDepth + 1 - h]>> \o below.tables,
       cost |-> 1 + NamesCost(g[n].names)[Len(g[n].names)] + below.cost]

LEMMA ChildrenType ==
  ASSUME NEW g \in Graphs, NEW n \in DOMAIN g, NEW low \in [Nodes(g) -> TreesOf(g)]
  PROVE  /\ Children(g, n, low) \in Seq(TreesOf(g))
         /\ Len(Children(g, n, low)) = Len(g[n].children)
<1>1. /\ Len(g[n].children) \in Nat
      /\ \A i \in 1..Len(g[n].children) : g[n].children[i] \in Nodes(g)
  BY WalkAssumption DEF Table, Nodes
<1> QED BY <1>1 DEF Children

LEMMA GrownType ==
  ASSUME NEW g \in Graphs, NEW n \in DOMAIN g, NEW h \in 1..(MaxDepth + 1),
         NEW low \in [Nodes(g) -> TreesOf(g)]
  PROVE  Grown(g, n, h, low) \in TreesOf(g)
<1> DEFINE E == [node : DOMAIN g, depth : Nat]
           below == Forest(Children(g, n, low))[Len(g[n].children)]
           entry == [node |-> n, depth |-> MaxDepth + 1 - h]
           names == NamesCost(g[n].names)[Len(g[n].names)]
<1>1. g[n] \in Table /\ Len(g[n].children) \in Nat /\ g[n].names \in Seq(Nat)
  BY WalkAssumption DEF Table
<1>2. below \in TreesOver(E)
  <2>1. Children(g, n, low) \in Seq(TreesOver(E)) /\ Len(Children(g, n, low)) = Len(g[n].children)
    BY ChildrenType DEF TreesOf
  <2>2. Len(g[n].children) \in 0..Len(Children(g, n, low))
    BY <1>1, <2>1
  <2> HIDE DEF E
  <2> QED BY <2>1, <2>2, ForestIs
<1>3. names \in Nat
  BY <1>1, NamesCostIs
<1>4. entry \in E
  BY WalkAssumption
<1> HIDE DEF below, entry, names
<1>5. below.tables \in Seq(E) /\ below.cost \in Nat
  BY <1>2 DEF TreesOver
<1>6. <<entry>> \o below.tables \in Seq(E) /\ 1 + names + below.cost \in Nat
  <2> HIDE DEF E
  <2> QED BY <1>3, <1>4, <1>5
<1> QED BY <1>6 DEF Grown, TreesOf, TreesOver, below, entry, names

\* A level of an unfolding is grown from the one below it.
IsLevel(g, u, h) ==
  /\ u[h] \in [Nodes(g) -> TreesOf(g)]
  /\ u[h][Missing] = NoPlace
  /\ \A n \in DOMAIN g \ {Missing} :
       u[h][n] = IF h = 0 THEN NoPlace ELSE Grown(g, n, h, u[h - 1])

LEMMA UnfoldingIs ==
  ASSUME NEW g \in Graphs
  PROVE  \A h \in 0..(MaxDepth + 1) : IsLevel(g, Unfolding(g), h)
<1> DEFINE m == MaxDepth + 1
           X == [Nodes(g) -> TreesOf(g)]
           Level(h, low) == [n \in Nodes(g) |-> IF n = Missing \/ h = 0 THEN NoPlace ELSE Grown(g, n, h, low)]
           step == [h \in 1..m |-> [x \in X |-> Level(h, x)]]
           none == [n \in Nodes(g) |-> NoPlace]
           Is(f) == f = [h \in 0..m |-> Level(h, f[h - 1])]
           chosen == CHOOSE f : Is(f)
<1>1. m \in Nat
  BY WalkAssumption
<1>2. NoPlace \in TreesOf(g)
  BY WalkAssumption DEF NoPlace, TreesOf, TreesOver
<1>3. none \in X
  BY <1>2
<1>4. ASSUME NEW h \in 1..m, NEW x \in X
      PROVE  Level(h, x) \in X
  <2>1. ASSUME NEW n \in Nodes(g), n # Missing
        PROVE  Grown(g, n, h, x) \in TreesOf(g)
    BY <2>1, GrownType DEF Nodes
  <2> QED BY <1>2, <2>1
<1>5. step \in [1..m -> [X -> X]]
  <2> HIDE DEF m, X, Level
  <2> QED BY <1>4
<1>6. Unfolding(g) = chosen
  BY DEF Unfolding, Nodes, NoPlace, Grown, Children
<1>7. \A x : Level(0, x) = none
  OBVIOUS
<1> HIDE DEF X, none, Level, m
<1>8. \E f : Is(f)
  <2>1. PICK f \in [0..m -> X] : Iterates(f, none, step, m)
    <3> HIDE DEF step
    <3> QED BY <1>1, <1>3, <1>5, IterationExists
  <2>2. ASSUME NEW h \in 0..m PROVE f[h] = Level(h, f[h - 1])
    <3>1. CASE h = 0
      BY <1>7, <2>1, <3>1 DEF Iterates
    <3>2. CASE h # 0
      <4>1. h \in 1..m /\ h - 1 \in 0..m
        BY <1>1, <3>2
      <4>2. f[h - 1] \in X
        BY <4>1
      <4>3. f[h] = step[h][f[h - 1]]
        BY <2>1, <4>1 DEF Iterates
      <4> QED BY <4>1, <4>2, <4>3
    <3> QED BY <3>1, <3>2
  <2>3. f = [h \in 0..m |-> f[h]]
    OBVIOUS
  <2> QED BY <2>2, <2>3
<1>9. Is(chosen)
  <2> HIDE DEF Is
  <2> QED BY <1>8
<1> HIDE DEF chosen
<1>10. \A h \in 0..m : chosen[h] = Level(h, chosen[h - 1])
  BY <1>9
<1>11. \A h \in 0..m : chosen[h] \in X
  <2>1. chosen[0] \in X
    BY <1>1, <1>3, <1>7, <1>10
  <2>2. \A h \in 1..m : chosen[h - 1] \in X => chosen[h] \in X
    BY <1>1, <1>4, <1>10
  <2> QED BY <1>1, <2>1, <2>2, StaysIn
<1>12. ASSUME NEW h \in 0..m PROVE IsLevel(g, chosen, h)
  <2>1. chosen[h] = Level(h, chosen[h - 1]) /\ chosen[h] \in X
    BY <1>10, <1>11
  <2>2. chosen[h][Missing] = NoPlace
    BY <2>1 DEF Level, Nodes
  <2>3. \A n \in DOMAIN g \ {Missing} :
          chosen[h][n] = IF h = 0 THEN NoPlace ELSE Grown(g, n, h, chosen[h - 1])
    BY <2>1 DEF Level, Nodes
  <2> QED BY <2>1, <2>2, <2>3 DEF IsLevel, X
<1> QED BY <1>6, <1>12 DEF m

-----------------------------------------------------------------------------
(* What a call has left to do at one of its steps: so many of its last      *)
(* children, and so many of its last names.                                *)

ToParse(m, at) ==
  LET children == Len(m.children)
      before == at - 1
  IN  CASE m.kind = "layout" -> IF before < children THEN children - before ELSE 0
        [] m.kind = "array" ->
             IF before < Len(m.refs) THEN children ELSE Len(m.refs) + children - before
        [] m.kind = "struct" -> children - (at \div 2)
        [] m.kind = "extension" ->
             IF before < Len(m.names) THEN children ELSE Len(m.names) + children - before
        [] m.kind = "list" -> children - before
        [] m.kind = "scalar" -> 0

ToCopy(m, at) ==
  LET names == Len(m.names)
  IN  CASE m.kind = "struct" -> names - ((at - 1) \div 2)
        [] m.kind = "extension" -> IF at - 1 < names THEN names - (at - 1) ELSE 0
        [] m.kind \notin {"struct", "extension"} -> 0

ParsesNext(m, at) ==
  /\ Steps(m)[at].do = "parse"
  /\ ToParse(m, at) \in 1..Len(m.children)
  /\ Steps(m)[at].what = m.children[Len(m.children) - ToParse(m, at) + 1]
  /\ ToParse(m, at + 1) = ToParse(m, at) - 1
  /\ ToCopy(m, at + 1) = ToCopy(m, at)

CopiesNext(m, at) ==
  /\ Steps(m)[at].do = "copy"
  /\ ToCopy(m, at) \in 1..Len(m.names)
  /\ Steps(m)[at].what = m.names[Len(m.names) - ToCopy(m, at) + 1]
  /\ ToParse(m, at + 1) = ToParse(m, at)
  /\ ToCopy(m, at + 1) = ToCopy(m, at) - 1

ResolvesNext(m, at) ==
  /\ Steps(m)[at].do = "resolve"
  /\ m.kind \in {"layout", "array"}
  /\ \E r \in 1..Len(m.refs) : Steps(m)[at].what = m.refs[r]
  /\ ToParse(m, at + 1) = ToParse(m, at)
  /\ ToCopy(m, at + 1) = ToCopy(m, at)

StepCounts(m, at) == ParsesNext(m, at) \/ CopiesNext(m, at) \/ ResolvesNext(m, at)

Counts(m) ==
  /\ ToParse(m, 1) = Len(m.children) /\ ToCopy(m, 1) = Len(m.names)
  /\ ToParse(m, Len(Steps(m)) + 1) = 0 /\ ToCopy(m, Len(Steps(m)) + 1) = 0
  /\ \A at \in 1..(Len(Steps(m)) + 1) :
        ToParse(m, at) \in 0..Len(m.children) /\ ToCopy(m, at) \in 0..Len(m.names)
  /\ \A at \in 1..Len(Steps(m)) : StepCounts(m, at)

\* The steps of each sort, in their order.
LEMMA PartsAre ==
  ASSUME NEW m \in Table
  PROVE  /\ \A k \in 1..Len(m.children) : Parse(m)[k].do = "parse" /\ Parse(m)[k].what = m.children[k]
         /\ \A k \in 1..Len(m.refs) : Resolve(m)[k].do = "resolve" /\ Resolve(m)[k].what = m.refs[k]
         /\ \A k \in 1..Len(m.names) : Copy(m)[k].do = "copy" /\ Copy(m)[k].what = m.names[k]
BY DEF Parse, Resolve, Copy

LEMMA JoinedLength ==
  ASSUME NEW S, NEW a \in Seq(S), NEW b \in Seq(S)
  PROVE  Len(a \o b) = Len(a) + Len(b)
OBVIOUS

LEMMA Joined ==
  ASSUME NEW S, NEW a \in Seq(S), NEW b \in Seq(S), NEW i \in 1..Len(a \o b)
  PROVE  /\ Len(a \o b) = Len(a) + Len(b)
         /\ i <= Len(a) => i \in 1..Len(a) /\ (a \o b)[i] = a[i]
         /\ i > Len(a) => i - Len(a) \in 1..Len(b) /\ (a \o b)[i] = b[i - Len(a)]
OBVIOUS

LEMMA LayoutCounts ==
  ASSUME NEW m \in Table, Readable(m), HasItsFields(m), m.kind = "layout"
  PROVE  Counts(m)
<1> DEFINE c == Len(m.children)
           r == Len(m.refs)
<1>1. c \in Nat /\ r \in Nat /\ Len(m.names) = 0
  BY DEF Table, HasItsFields
<1> DEFINE a == Parse(m)
           b == Resolve(m)
<1>8. a \in Seq(Step) /\ b \in Seq(Step) /\ Len(a) = c /\ Len(b) = r
  BY PartTypes
<1>9. Steps(m) = a \o b
  BY DEF Steps, LayoutSteps
<1>2. Len(Steps(m)) = c + r
  <2> HIDE DEF a, b, c, r
  <2> QED BY <1>8, <1>9, JoinedLength
<1>3. \A at : ToCopy(m, at) = 0
  BY DEF ToCopy
<1>4. \A at : ToParse(m, at) = IF at - 1 < c THEN c - (at - 1) ELSE 0
  BY DEF ToParse
<1>5. ASSUME NEW at \in 1..Len(Steps(m)) PROVE StepCounts(m, at)
  <2>1. /\ at <= c => at \in 1..c /\ Steps(m)[at] = a[at]
        /\ at > c => at - c \in 1..r /\ Steps(m)[at] = b[at - c]
    <3> HIDE DEF a, b, c, r
    <3> QED BY <1>8, <1>9, Joined
  <2> HIDE DEF c, r
  <2>2. CASE at <= c
    <3>1. Steps(m)[at].do = "parse" /\ Steps(m)[at].what = m.children[at]
      BY <2>1, <2>2, PartsAre DEF c
    <3>2. ToParse(m, at) = c - (at - 1) /\ ToParse(m, at + 1) = c - at
      BY <1>1, <1>2, <1>4, <2>2
    <3>3. ToParse(m, at) \in 1..c /\ c - ToParse(m, at) + 1 = at /\ ToParse(m, at + 1) = ToParse(m, at) - 1
      BY <1>1, <1>2, <2>2, <3>2
    <3> QED BY <1>3, <3>1, <3>3 DEF StepCounts, ParsesNext, c
  <2>3. CASE at > c
    <3>1. at - c \in 1..r /\ Steps(m)[at].do = "resolve" /\ Steps(m)[at].what = m.refs[at - c]
      BY <2>1, <2>3, PartsAre DEF r
    <3>2. ToParse(m, at) = 0 /\ ToParse(m, at + 1) = 0
      BY <1>1, <1>2, <1>4, <2>3
    <3> QED BY <1>3, <3>1, <3>2 DEF StepCounts, ResolvesNext, r
  <2> QED BY <1>1, <1>2, <2>2, <2>3
<1>6. \A at \in 1..(Len(Steps(m)) + 1) : ToParse(m, at) \in 0..c /\ ToCopy(m, at) \in 0..Len(m.names)
  BY <1>1, <1>2, <1>3, <1>4
<1>7. /\ ToParse(m, 1) = c /\ ToCopy(m, 1) = Len(m.names)
      /\ ToParse(m, Len(Steps(m)) + 1) = 0 /\ ToCopy(m, Len(Steps(m)) + 1) = 0
  <2> DEFINE n == Len(Steps(m)) + 1
  <2> HIDE DEF c, r
  <2>1. n \in Nat /\ n = c + r + 1
    BY <1>1, <1>2
  <2> HIDE DEF n
  <2>2. ToParse(m, 1) = c /\ ToParse(m, n) = 0
    BY <1>1, <1>4, <2>1
  <2>3. ToCopy(m, 1) = Len(m.names) /\ ToCopy(m, n) = 0
    BY <1>1, <1>3
  <2> QED BY <2>2, <2>3 DEF n, c
<1> QED BY <1>5, <1>6, <1>7 DEF Counts

LEMMA ArrayCounts ==
  ASSUME NEW m \in Table, Readable(m), HasItsFields(m), m.kind = "array"
  PROVE  Counts(m)
<1> DEFINE c == Len(m.children)
           r == Len(m.refs)
<1>1. c \in Nat /\ r \in Nat /\ Len(m.names) = 0
  BY DEF Table, HasItsFields
<1> DEFINE a == Resolve(m)
           b == Parse(m)
<1>8. a \in Seq(Step) /\ b \in Seq(Step) /\ Len(a) = r /\ Len(b) = c
  BY PartTypes
<1>9. Steps(m) = a \o b
  BY DEF Steps, ArraySteps
<1>2. Len(Steps(m)) = c + r
  <2> HIDE DEF a, b, c, r
  <2>1. Len(a \o b) = r + c
    BY <1>8, JoinedLength
  <2>2. r + c = c + r
    BY <1>1
  <2> QED BY <1>9, <2>1, <2>2
<1>3. \A at : ToCopy(m, at) = 0
  BY DEF ToCopy
<1>4. \A at : ToParse(m, at) = IF at - 1 < r THEN c ELSE r + c - (at - 1)
  BY DEF ToParse
<1>5. ASSUME NEW at \in 1..Len(Steps(m)) PROVE StepCounts(m, at)
  <2>1. /\ at <= r => at \in 1..r /\ Steps(m)[at] = a[at]
        /\ at > r => at - r \in 1..c /\ Steps(m)[at] = b[at - r]
    <3> HIDE DEF a, b, c, r
    <3> QED BY <1>8, <1>9, Joined
  <2> HIDE DEF c, r
  <2>2. CASE at > r
    <3>1. Steps(m)[at].do = "parse" /\ Steps(m)[at].what = m.children[at - r]
      BY <2>1, <2>2, PartsAre DEF c
    <3>2. ToParse(m, at) = r + c - (at - 1) /\ ToParse(m, at + 1) = r + c - at
      BY <1>1, <1>2, <1>4, <2>2
    <3>3. ToParse(m, at) \in 1..c /\ c - ToParse(m, at) + 1 = at - r /\ ToParse(m, at + 1) = ToParse(m, at) - 1
      BY <1>1, <1>2, <2>2, <3>2
    <3> QED BY <1>3, <3>1, <3>3 DEF StepCounts, ParsesNext, c
  <2>3. CASE at <= r
    <3>1. at \in 1..r /\ Steps(m)[at].do = "resolve" /\ Steps(m)[at].what = m.refs[at]
      BY <2>1, <2>3, PartsAre DEF r
    <3>2. ToParse(m, at) = c /\ ToParse(m, at + 1) = c
      BY <1>1, <1>2, <1>4, <2>3
    <3> QED BY <1>3, <3>1, <3>2 DEF StepCounts, ResolvesNext, r
  <2> QED BY <1>1, <1>2, <2>2, <2>3
<1>6. \A at \in 1..(Len(Steps(m)) + 1) : ToParse(m, at) \in 0..c /\ ToCopy(m, at) \in 0..Len(m.names)
  <2> DEFINE n == Len(Steps(m)) + 1
  <2> HIDE DEF c, r
  <2>1. n \in Nat /\ n = c + r + 1
    BY <1>1, <1>2
  <2> HIDE DEF n
  <2> SUFFICES ASSUME NEW at \in 1..n PROVE ToParse(m, at) \in 0..c /\ ToCopy(m, at) \in 0..Len(m.names)
    BY DEF n
  <2>2. ToParse(m, at) \in 0..c
    BY <1>1, <1>4, <2>1
  <2>3. ToCopy(m, at) \in 0..Len(m.names)
    BY <1>1, <1>3, <2>1
  <2> QED BY <2>2, <2>3
<1>7. /\ ToParse(m, 1) = c /\ ToCopy(m, 1) = Len(m.names)
      /\ ToParse(m, Len(Steps(m)) + 1) = 0 /\ ToCopy(m, Len(Steps(m)) + 1) = 0
  <2> DEFINE n == Len(Steps(m)) + 1
  <2> HIDE DEF c, r
  <2>1. n \in Nat /\ n = c + r + 1
    BY <1>1, <1>2
  <2> HIDE DEF n
  <2>2. ToParse(m, 1) = c /\ ToParse(m, n) = 0
    BY <1>1, <1>4, <2>1
  <2>3. ToCopy(m, 1) = Len(m.names) /\ ToCopy(m, n) = 0
    BY <1>1, <1>3
  <2> QED BY <2>2, <2>3 DEF n, c
<1> QED BY <1>5, <1>6, <1>7 DEF Counts

LEMMA ExtensionCounts ==
  ASSUME NEW m \in Table, Readable(m), HasItsFields(m), m.kind = "extension"
  PROVE  Counts(m)
<1> DEFINE c == Len(m.children)
           r == Len(m.names)
<1>1. c \in Nat /\ r \in Nat
  BY DEF Table
<1> DEFINE a == Copy(m)
           b == Parse(m)
<1>8. a \in Seq(Step) /\ b \in Seq(Step) /\ Len(a) = r /\ Len(b) = c
  BY PartTypes
<1>9. Steps(m) = a \o b
  BY DEF Steps, ExtensionSteps
<1>2. Len(Steps(m)) = r + c
  <2> HIDE DEF a, b, c, r
  <2> QED BY <1>8, <1>9, JoinedLength
<1>3. \A at : ToCopy(m, at) = IF at - 1 < r THEN r - (at - 1) ELSE 0
  BY DEF ToCopy
<1>4. \A at : ToParse(m, at) = IF at - 1 < r THEN c ELSE r + c - (at - 1)
  BY DEF ToParse
<1>5. ASSUME NEW at \in 1..Len(Steps(m)) PROVE StepCounts(m, at)
  <2>1. /\ at <= r => at \in 1..r /\ Steps(m)[at] = a[at]
        /\ at > r => at - r \in 1..c /\ Steps(m)[at] = b[at - r]
    <3> HIDE DEF a, b, c, r
    <3> QED BY <1>8, <1>9, Joined
  <2> HIDE DEF c, r
  <2>2. CASE at > r
    <3>1. Steps(m)[at].do = "parse" /\ Steps(m)[at].what = m.children[at - r]
      BY <2>1, <2>2, PartsAre DEF c
    <3>2. ToParse(m, at) = r + c - (at - 1) /\ ToParse(m, at + 1) = r + c - at
      BY <1>1, <1>2, <1>4, <2>2
    <3>3. ToParse(m, at) \in 1..c /\ c - ToParse(m, at) + 1 = at - r /\ ToParse(m, at + 1) = ToParse(m, at) - 1
      BY <1>1, <1>2, <2>2, <3>2
    <3>4. ToCopy(m, at) = 0 /\ ToCopy(m, at + 1) = 0
      BY <1>1, <1>2, <1>3, <2>2
    <3> QED BY <3>1, <3>3, <3>4 DEF StepCounts, ParsesNext, c
  <2>3. CASE at <= r
    <3>1. Steps(m)[at].do = "copy" /\ Steps(m)[at].what = m.names[at]
      BY <2>1, <2>3, PartsAre DEF r
    <3>2. ToParse(m, at) = c /\ ToParse(m, at + 1) = c
      BY <1>1, <1>2, <1>4, <2>3
    <3>3. ToCopy(m, at) = r - (at - 1) /\ ToCopy(m, at + 1) = r - at
      BY <1>1, <1>2, <1>3, <2>3
    <3>4. ToCopy(m, at) \in 1..r /\ r - ToCopy(m, at) + 1 = at /\ ToCopy(m, at + 1) = ToCopy(m, at) - 1
      BY <1>1, <1>2, <2>3, <3>3
    <3> QED BY <3>1, <3>2, <3>4 DEF StepCounts, CopiesNext, r
  <2> QED BY <1>1, <1>2, <2>2, <2>3
<1>6. \A at \in 1..(Len(Steps(m)) + 1) : ToParse(m, at) \in 0..c /\ ToCopy(m, at) \in 0..r
  <2> DEFINE n == Len(Steps(m)) + 1
  <2> HIDE DEF c, r
  <2>1. n \in Nat /\ n = c + r + 1
    BY <1>1, <1>2
  <2> HIDE DEF n
  <2> SUFFICES ASSUME NEW at \in 1..n PROVE ToParse(m, at) \in 0..c /\ ToCopy(m, at) \in 0..r
    BY DEF n
  <2>2. ToParse(m, at) \in 0..c
    BY <1>1, <1>4, <2>1
  <2>3. ToCopy(m, at) \in 0..r
    BY <1>1, <1>3, <2>1
  <2> QED BY <2>2, <2>3
<1>7. /\ ToParse(m, 1) = c /\ ToCopy(m, 1) = r
      /\ ToParse(m, Len(Steps(m)) + 1) = 0 /\ ToCopy(m, Len(Steps(m)) + 1) = 0
  <2> DEFINE n == Len(Steps(m)) + 1
  <2> HIDE DEF c, r
  <2>1. n \in Nat /\ n = c + r + 1
    BY <1>1, <1>2
  <2> HIDE DEF n
  <2>2. ToParse(m, 1) = c /\ ToParse(m, n) = 0
    BY <1>1, <1>4, <2>1
  <2>3. ToCopy(m, 1) = r /\ ToCopy(m, n) = 0
    BY <1>1, <1>3, <2>1
  <2> QED BY <2>2, <2>3 DEF n
<1> QED BY <1>5, <1>6, <1>7 DEF Counts

\* A struct alternates: the type of a field, then its name.
LEMMA StructCounts ==
  ASSUME NEW m \in Table, Readable(m), HasItsFields(m), m.kind = "struct"
  PROVE  Counts(m)
<1> DEFINE c == Len(m.children)
<1>1. c \in Nat /\ Len(m.names) = c
  BY DEF Table, Readable
<1>2. Len(Steps(m)) = 2 * c
  BY <1>1 DEF Steps, StructSteps
<1>3. \A at : ToCopy(m, at) = c - ((at - 1) \div 2)
  BY <1>1 DEF ToCopy
<1>4. \A at : ToParse(m, at) = c - (at \div 2)
  BY DEF ToParse
<1>5. ASSUME NEW at \in 1..(2 * c) PROVE StepCounts(m, at)
  <2>1. Steps(m)[at] = IF at % 2 = 1 THEN Parse(m)[(at + 1) \div 2] ELSE Copy(m)[at \div 2]
    BY DEF Steps, StructSteps
  <2> HIDE DEF c
  <2>2. CASE at % 2 = 1
    <3>1. PICK k \in 1..c : at = 2 * k - 1
      <4>1. (at + 1) \div 2 \in 1..c /\ at = 2 * ((at + 1) \div 2) - 1
        BY <1>1, <2>2
      <4> QED BY <4>1
    <3>2. (at + 1) \div 2 = k /\ at \div 2 = k - 1 /\ (at - 1) \div 2 = k - 1
      BY <1>1, <3>1
    <3>3. Steps(m)[at].do = "parse" /\ Steps(m)[at].what = m.children[k]
      BY <2>1, <2>2, <3>2, PartsAre DEF c
    <3>4. /\ ToParse(m, at) = c - (k - 1) /\ ToParse(m, at + 1) = c - k
          /\ ToCopy(m, at) = c - (k - 1) /\ ToCopy(m, at + 1) = c - (k - 1)
      <4>1. ((at + 1) - 1) \div 2 = k - 1
        BY <1>1, <3>1
      <4> QED BY <1>3, <1>4, <3>2, <4>1
    <3>5. ToParse(m, at) \in 1..c /\ c - ToParse(m, at) + 1 = k /\ ToParse(m, at + 1) = ToParse(m, at) - 1
      BY <1>1, <3>4
    <3> QED BY <3>3, <3>4, <3>5 DEF StepCounts, ParsesNext, c
  <2>3. CASE at % 2 # 1
    <3>1. PICK k \in 1..c : at = 2 * k
      <4>1. at \div 2 \in 1..c /\ at = 2 * (at \div 2)
        BY <1>1, <2>3
      <4> QED BY <4>1
    <3>2. at \div 2 = k /\ (at - 1) \div 2 = k - 1 /\ (at + 1) \div 2 = k
      BY <1>1, <3>1
    <3>3. Steps(m)[at].do = "copy" /\ Steps(m)[at].what = m.names[k]
      BY <1>1, <2>1, <2>3, <3>2, PartsAre
    <3>4. /\ ToParse(m, at) = c - k /\ ToParse(m, at + 1) = c - k
          /\ ToCopy(m, at) = c - (k - 1) /\ ToCopy(m, at + 1) = c - k
      <4>1. ((at + 1) - 1) \div 2 = k
        BY <1>1, <3>1
      <4> QED BY <1>3, <1>4, <3>2, <4>1
    <3>5. ToCopy(m, at) \in 1..c /\ c - ToCopy(m, at) + 1 = k /\ ToCopy(m, at + 1) = ToCopy(m, at) - 1
      BY <1>1, <3>4
    <3> QED BY <1>1, <3>3, <3>4, <3>5 DEF StepCounts, CopiesNext
  <2> QED BY <2>2, <2>3
<1> HIDE DEF c
<1>6. ASSUME NEW at \in 1..(2 * c + 1)
      PROVE  ToParse(m, at) \in 0..c /\ ToCopy(m, at) \in 0..c
  <2>1. at \div 2 \in 0..c /\ (at - 1) \div 2 \in 0..c
    BY <1>1
  <2> QED BY <1>1, <1>3, <1>4, <2>1
<1>7. /\ ToParse(m, 1) = c /\ ToCopy(m, 1) = c
      /\ ToParse(m, 2 * c + 1) = 0 /\ ToCopy(m, 2 * c + 1) = 0
  <2>1. /\ 1 \div 2 = 0 /\ (1 - 1) \div 2 = 0 /\ (2 * c + 1) \div 2 = c
        /\ ((2 * c + 1) - 1) \div 2 = c
    BY <1>1
  <2> QED BY <1>1, <1>3, <1>4, <2>1
<1> QED BY <1>1, <1>2, <1>5, <1>6, <1>7 DEF Counts, c

LEMMA ListCounts ==
  ASSUME NEW m \in Table, Readable(m), HasItsFields(m), m.kind = "list"
  PROVE  Counts(m)
<1> DEFINE c == Len(m.children)
<1>1. c \in Nat /\ Len(m.names) = 0
  BY DEF Table, HasItsFields
<1>2. Steps(m) = Parse(m) /\ Len(Steps(m)) = c
  BY PartTypes DEF Steps
<1>3. \A at : ToCopy(m, at) = 0 /\ ToParse(m, at) = c - (at - 1)
  BY DEF ToCopy, ToParse
<1>4. ASSUME NEW at \in 1..c PROVE StepCounts(m, at)
  <2>1. Steps(m)[at].do = "parse" /\ Steps(m)[at].what = m.children[at]
    BY <1>2, PartsAre
  <2> HIDE DEF c
  <2>2. /\ ToParse(m, at) \in 1..c /\ c - ToParse(m, at) + 1 = at
        /\ ToParse(m, at + 1) = ToParse(m, at) - 1 /\ ToCopy(m, at + 1) = ToCopy(m, at)
    BY <1>1, <1>3
  <2> QED BY <2>1, <2>2 DEF StepCounts, ParsesNext, c
<1> HIDE DEF c
<1>5. \A at \in 1..(c + 1) : ToParse(m, at) \in 0..c /\ ToCopy(m, at) \in 0..0
  BY <1>1, <1>3
<1>6. ToParse(m, 1) = c /\ ToCopy(m, 1) = 0 /\ ToParse(m, c + 1) = 0 /\ ToCopy(m, c + 1) = 0
  BY <1>1, <1>3
<1> QED BY <1>1, <1>2, <1>4, <1>5, <1>6 DEF Counts, c

LEMMA CountsOfSteps ==
  ASSUME NEW m \in Table, Readable(m), HasItsFields(m)
  PROVE  Counts(m)
<1>1. CASE m.kind = "scalar"
  <2>1. Len(m.children) = 0 /\ Len(m.names) = 0 /\ Steps(m) = <<>>
    BY <1>1 DEF HasItsFields, Steps
  <2>2. \A at : ToCopy(m, at) = 0 /\ ToParse(m, at) = 0
    BY <1>1 DEF ToCopy, ToParse
  <2>3. 1..Len(Steps(m)) = {}
    BY <2>1
  <2> QED BY <2>1, <2>2, <2>3 DEF Counts
<1> QED BY <1>1, LayoutCounts, ArrayCounts, StructCounts, ExtensionCounts, ListCounts DEF Table, Kinds

-----------------------------------------------------------------------------
(* What the calls in progress still owe to the tree.                       *)

\* The tables and the cost that call number j owes.
Owed(f, j) ==
  LET m == graph[f.node]
      below == Forest(Children(graph, f.node, Unfolding(graph)[MaxDepth + 1 - j]))[ToParse(m, f.at)]
  IN  [tables |-> below.tables, cost |-> NamesCost(m.names)[ToCopy(m, f.at)] + below.cost]

\* What the first of some calls owe, together.
Owing(calls, owed) ==
  /\ owed \in [0..Len(calls) -> TreesOf(graph)]
  /\ owed[0] = None
  /\ \A j \in 1..Len(calls) : owed[j] = Then(Owed(calls[j], j), owed[j - 1])

\* What there is of the tree, and this, is the whole of it.
Balanced(rest) ==
  /\ out \o rest.tables = Tree(graph).tables
  /\ (MaxNodes - budget) + rest.cost = Tree(graph).cost

InTree(n) == \E i \in 1..Len(out) : out[i].node = n

AheadInv ==
  /\ \A j \in 1..Len(stack) :
        stack[j].at <= Len(Steps(graph[stack[j].node])) + 1 /\ InTree(stack[j].node)
  /\ \A i \in 1..Len(out) : Readable(graph[out[i].node])
  /\ status = "idle" => budget = MaxNodes
  /\ status \in {"parsing", "parsed"} => \E owed : Owing(stack, owed) /\ Balanced(owed[Len(stack)])
  /\ status = "failed" => ~Acceptable(graph)

\* More of a cost, before or after.
LEMMA ThenCosts ==
  ASSUME NEW tree, NEW rest, NEW more \in Nat, tree.cost \in Nat, rest.cost \in Nat
  PROVE  [tables |-> Then(tree, rest).tables, cost |-> more + Then(tree, rest).cost]
            = Then(tree, [tables |-> rest.tables, cost |-> more + rest.cost])
<1>1. more + (tree.cost + rest.cost) = tree.cost + (more + rest.cost)
  OBVIOUS
<1> QED BY <1>1 DEF Then

LEMMA ThenAssociates ==
  ASSUME NEW E, NEW a \in TreesOver(E), NEW b \in TreesOver(E), NEW c \in TreesOver(E)
  PROVE  Then(Then(a, b), c) = Then(a, Then(b, c))
<1>1. /\ a.tables \in Seq(E) /\ b.tables \in Seq(E) /\ c.tables \in Seq(E)
      /\ a.cost \in Nat /\ b.cost \in Nat /\ c.cost \in Nat
  BY DEF TreesOver
<1>2. (a.tables \o b.tables) \o c.tables = a.tables \o (b.tables \o c.tables)
  <2> DEFINE x == a.tables
             y == b.tables
             z == c.tables
  <2>1. x \in Seq(E) /\ y \in Seq(E) /\ z \in Seq(E)
    BY <1>1
  <2> HIDE DEF x, y, z
  <2>2. (x \o y) \o z = x \o (y \o z)
    BY <2>1, ConcatAssociative
  <2> QED BY <2>2 DEF x, y, z
<1>3. (a.cost + b.cost) + c.cost = a.cost + (b.cost + c.cost)
  BY <1>1
<1> QED BY <1>2, <1>3 DEF Then

LEMMA ThenNone ==
  ASSUME NEW E, NEW a \in TreesOver(E)
  PROVE  Then(None, a) = a
<1>1. a.tables \in Seq(E) /\ a.cost \in Nat /\ a = [tables |-> a.tables, cost |-> a.cost]
  BY DEF TreesOver
<1>2. <<>> \o a.tables = a.tables /\ 0 + a.cost = a.cost
  BY <1>1
<1> QED BY <1>1, <1>2 DEF Then, None

LEMMA Associates ==
  ASSUME NEW E
  PROVE  \A x, y, z \in Seq(E) : (x \o y) \o z = x \o (y \o z)
BY ConcatAssociative

\* One table more of a tree.
LEMMA AppendThen ==
  ASSUME NEW E, NEW s \in Seq(E), NEW e \in E, NEW a \in Seq(E), NEW b \in Seq(E)
  PROVE  Append(s, e) \o (a \o b) = s \o ((<<e>> \o a) \o b)
<1> DEFINE one == <<e>>
           both == a \o b
<1>1. Append(s, e) = s \o one
  BY AppendIsConcat
<1>2. one \in Seq(E)
  OBVIOUS
<1>3. both \in Seq(E)
  OBVIOUS
<1> HIDE DEF one, both
<1>4. (one \o a) \o b = one \o (a \o b)
  BY <1>2, Associates, SMTT(40)
<1>5. (s \o one) \o both = s \o (one \o both)
  BY <1>2, <1>3, Associates, SMTT(40)
<1> QED BY <1>1, <1>4, <1>5 DEF one, both

\* What is known of a call, in the terms of its counts.
CallFacts(f, j) ==
  LET m == graph[f.node]
      trees == Children(graph, f.node, Unfolding(graph)[MaxDepth + 1 - j])
  IN  /\ f.node \in DOMAIN graph /\ m \in Table /\ Counts(m)
      /\ f.at \in 1..(Len(Steps(m)) + 1)
      /\ Len(m.children) \in Nat /\ Len(m.names) \in Nat /\ m.names \in Seq(Nat)
      /\ trees \in Seq(TreesOf(graph)) /\ Len(trees) = Len(m.children)
      /\ Forest(trees)[0] = None
      /\ \A k \in 1..Len(m.children) :
            Forest(trees)[k] = Then(trees[Len(m.children) - k + 1], Forest(trees)[k - 1])
      /\ \A k \in 0..Len(m.children) : Forest(trees)[k] \in TreesOf(graph)

LEMMA FactsOfCall ==
  ASSUME graph \in Graphs, NEW f \in Frame, NEW j \in 1..(MaxDepth + 1), Readable(graph[f.node]),
         f.at <= Len(Steps(graph[f.node])) + 1
  PROVE  CallFacts(f, j)
<1> DEFINE m == graph[f.node]
           low == Unfolding(graph)[MaxDepth + 1 - j]
           trees == Children(graph, f.node, low)
           E == [node : DOMAIN graph, depth : Nat]
<1>1. f.node \in DOMAIN graph /\ f.at \in Nat \ {0}
  BY DEF Frame
<1>2. m \in Table /\ HasItsFields(m)
  BY <1>1, WalkAssumption
<1>3. Len(m.children) \in Nat /\ Len(m.names) \in Nat /\ m.names \in Seq(Nat)
  BY <1>2 DEF Table
<1>4. Counts(m)
  BY <1>2, CountsOfSteps
<1>5. f.at \in 1..(Len(Steps(m)) + 1)
  <2>1. Len(Steps(m)) \in Nat
    BY <1>2, StepsType
  <2> QED BY <1>1, <2>1
<1>6. low \in [Nodes(graph) -> TreesOf(graph)]
  <2>1. MaxDepth + 1 - j \in 0..(MaxDepth + 1)
    BY WalkAssumption
  <2>2. IsLevel(graph, Unfolding(graph), MaxDepth + 1 - j)
    BY <2>1, UnfoldingIs
  <2> QED BY <2>2 DEF IsLevel
<1> HIDE DEF low
<1>7. trees \in Seq(TreesOf(graph)) /\ Len(trees) = Len(m.children)
  BY <1>1, <1>6, ChildrenType
<1> HIDE DEF trees
<1>8. /\ Forest(trees)[0] = None
      /\ \A k \in 1..Len(trees) :
            Forest(trees)[k] = Then(trees[Len(trees) - k + 1], Forest(trees)[k - 1])
      /\ \A k \in 0..Len(trees) : Forest(trees)[k] \in TreesOver(E)
  <2>1. trees \in Seq(TreesOver(E))
    BY <1>7 DEF TreesOf
  <2> HIDE DEF E
  <2> QED BY <2>1, ForestIs
<1>9. /\ \A k \in 1..Len(m.children) :
            Forest(trees)[k] = Then(trees[Len(m.children) - k + 1], Forest(trees)[k - 1])
      /\ \A k \in 0..Len(m.children) : Forest(trees)[k] \in TreesOf(graph)
  BY <1>7, <1>8 DEF TreesOf
<1> QED BY <1>1, <1>2, <1>3, <1>4, <1>5, <1>7, <1>8, <1>9 DEF CallFacts, trees, low

LEMMA OwedType ==
  ASSUME NEW f, NEW j, CallFacts(f, j)
  PROVE  Owed(f, j) \in TreesOf(graph)
<1> DEFINE m == graph[f.node]
           forest == Forest(Children(graph, f.node, Unfolding(graph)[MaxDepth + 1 - j]))
<1>1. ToParse(m, f.at) \in 0..Len(m.children) /\ ToCopy(m, f.at) \in 0..Len(m.names)
  BY DEF CallFacts, Counts
<1>2. forest[ToParse(m, f.at)] \in TreesOf(graph)
  BY <1>1 DEF CallFacts
<1>3. NamesCost(m.names)[ToCopy(m, f.at)] \in Nat
  BY <1>1, NamesCostIs DEF CallFacts
<1> QED BY <1>2, <1>3 DEF Owed, TreesOf, TreesOver

\* A new call owes its children's trees and its names.
LEMMA NewOwed ==
  ASSUME graph \in Graphs, NEW n \in DOMAIN graph, n # Missing, NEW j \in 1..(MaxDepth + 1),
         Readable(graph[n])
  PROVE  LET owed == Owed([node |-> n, at |-> 1], j)
             tree == Unfolding(graph)[MaxDepth + 2 - j][n]
         IN  /\ tree.tables = <<[node |-> n, depth |-> j - 1]>> \o owed.tables
             /\ tree.cost = 1 + owed.cost
<1> DEFINE m == graph[n]
           f == [node |-> n, at |-> 1]
           h == MaxDepth + 2 - j
           low == Unfolding(graph)[MaxDepth + 1 - j]
<1>1. h \in 0..(MaxDepth + 1) /\ h # 0 /\ h - 1 = MaxDepth + 1 - j /\ MaxDepth + 1 - h = j - 1
  BY WalkAssumption
<1>2. Unfolding(graph)[h][n] = Grown(graph, n, h, low)
  <2> HIDE DEF h
  <2>1. IsLevel(graph, Unfolding(graph), h)
    BY <1>1, UnfoldingIs
  <2>2. Unfolding(graph)[h][n] = Grown(graph, n, h, Unfolding(graph)[h - 1])
    BY <1>1, <2>1 DEF IsLevel
  <2> QED BY <1>1, <2>2
<1>3. ToParse(m, 1) = Len(m.children) /\ ToCopy(m, 1) = Len(m.names)
  <2>1. m \in Table /\ HasItsFields(m)
    BY WalkAssumption
  <2> QED BY <2>1, CountsOfSteps DEF Counts
<1>4. /\ Owed(f, j).tables = Forest(Children(graph, n, low))[Len(m.children)].tables
      /\ Owed(f, j).cost = NamesCost(m.names)[Len(m.names)]
                              + Forest(Children(graph, n, low))[Len(m.children)].cost
  BY <1>3 DEF Owed
<1> DEFINE below == Forest(Children(graph, n, low))[Len(m.children)]
           names == NamesCost(m.names)[Len(m.names)]
<1>5. names \in Nat /\ below.cost \in Nat
  <2>1. m \in Table /\ m.names \in Seq(Nat) /\ Len(m.names) \in 0..Len(m.names)
    BY WalkAssumption DEF Table
  <2>2. f \in Frame /\ f.node = n /\ f.at <= Len(Steps(graph[f.node])) + 1
    <3>1. Len(Steps(m)) \in Nat
      BY <2>1, StepsType
    <3> QED BY <3>1 DEF Frame
  <2> HIDE DEF f
  <2>3. CallFacts(f, j)
    BY <2>2, FactsOfCall
  <2>4. below \in TreesOf(graph)
    BY <2>2, <2>3 DEF CallFacts
  <2> QED BY <2>1, <2>4, NamesCostIs DEF TreesOf, TreesOver
<1>6. /\ Grown(graph, n, h, low).tables = <<[node |-> n, depth |-> MaxDepth + 1 - h]>> \o below.tables
      /\ Grown(graph, n, h, low).cost = 1 + names + below.cost
  BY DEF Grown
<1> HIDE DEF names, below, low
<1>7. 1 + names + below.cost = 1 + (names + below.cost)
  BY <1>5
<1> QED BY <1>1, <1>2, <1>4, <1>6, <1>7 DEF names, below, low

\* What a call owes before and after a step, and at its end.
LEMMA OwedAtParse ==
  ASSUME NEW f, NEW next, NEW j, CallFacts(f, j), f.at <= Len(Steps(graph[f.node])),
         ParsesNext(graph[f.node], f.at), next.node = f.node, next.at = f.at + 1
  PROVE  Owed(f, j) = Then(Unfolding(graph)[MaxDepth + 1 - j][Steps(graph[f.node])[f.at].what],
                           Owed(next, j))
<1> DEFINE m == graph[f.node]
           c == Len(m.children)
           k == ToParse(m, f.at)
           low == Unfolding(graph)[MaxDepth + 1 - j]
           trees == Children(graph, f.node, low)
           forest == Forest(trees)
           names == NamesCost(m.names)[ToCopy(m, f.at)]
<1>1. k \in 1..c /\ c \in Nat /\ Steps(m)[f.at].what = m.children[c - k + 1]
  BY DEF ParsesNext, CallFacts
<1>2. trees[c - k + 1] = low[Steps(m)[f.at].what]
  <2>1. c - k + 1 \in 1..c
    <3>1. k \in 1..c /\ c \in Nat
      BY <1>1
    <3> HIDE DEF c, k
    <3> QED BY <3>1
  <2> QED BY <1>1, <2>1 DEF Children
<1>3. forest[k] = Then(trees[c - k + 1], forest[k - 1]) /\ forest[k - 1] \in TreesOf(graph)
  <2>1. k - 1 \in 0..c
    BY <1>1
  <2> QED BY <1>1, <2>1 DEF CallFacts
<1>4. trees[c - k + 1] \in TreesOf(graph)
  <2>1. c - k + 1 \in 1..c
    <3>1. k \in 1..c /\ c \in Nat
      BY <1>1
    <3> HIDE DEF c, k
    <3> QED BY <3>1
  <2>2. trees \in Seq(TreesOf(graph)) /\ Len(trees) = c
    BY DEF CallFacts
  <2> HIDE DEF trees, c, k
  <2> QED BY <2>1, <2>2
<1>5. names \in Nat
  <2>1. ToCopy(m, f.at) \in 0..Len(m.names)
    BY DEF CallFacts, Counts
  <2> QED BY <2>1, NamesCostIs DEF CallFacts
<1>6. Owed(f, j) = [tables |-> forest[k].tables, cost |-> names + forest[k].cost]
  BY DEF Owed
<1>7. Owed(next, j) = [tables |-> forest[k - 1].tables, cost |-> names + forest[k - 1].cost]
  BY DEF Owed, ParsesNext
<1> DEFINE tree == trees[c - k + 1]
           rest == forest[k - 1]
           both == forest[k]
<1>8. tree.cost \in Nat /\ rest.cost \in Nat
  BY <1>3, <1>4 DEF TreesOf, TreesOver
<1>9. both = Then(tree, rest)
  BY <1>3
<1>10. Owed(f, j) = [tables |-> both.tables, cost |-> names + both.cost]
  BY <1>6
<1>11. Owed(next, j) = [tables |-> rest.tables, cost |-> names + rest.cost]
  BY <1>7
<1>12. tree = low[Steps(m)[f.at].what]
  BY <1>2
<1> HIDE DEF tree, rest, both, names, low
<1>13. [tables |-> both.tables, cost |-> names + both.cost]
          = Then(tree, [tables |-> rest.tables, cost |-> names + rest.cost])
  BY <1>5, <1>8, <1>9, ThenCosts
<1>14. Owed(f, j) = Then(tree, Owed(next, j))
  BY <1>10, <1>11, <1>13
<1> QED BY <1>12, <1>14 DEF low

LEMMA OwedAtCopy ==
  ASSUME NEW f, NEW next, NEW j, CallFacts(f, j), f.at <= Len(Steps(graph[f.node])),
         CopiesNext(graph[f.node], f.at), next.node = f.node, next.at = f.at + 1
  PROVE  /\ Owed(f, j).tables = Owed(next, j).tables
         /\ Owed(f, j).cost = TextCost(Steps(graph[f.node])[f.at].what) + Owed(next, j).cost
<1> DEFINE m == graph[f.node]
           n == Len(m.names)
           k == ToCopy(m, f.at)
           names == NamesCost(m.names)
           below == Forest(Children(graph, f.node, Unfolding(graph)[MaxDepth + 1 - j]))[ToParse(m, f.at)]
           cost == TextCost(Steps(m)[f.at].what)
<1>1. k \in 1..n /\ n \in Nat /\ Steps(m)[f.at].what = m.names[n - k + 1] /\ m.names \in Seq(Nat)
  BY DEF CopiesNext, CallFacts
<1>2. names[k] = cost + names[k - 1] /\ names[k - 1] \in Nat
  <2>1. k - 1 \in 0..n
    BY <1>1
  <2> QED BY <1>1, <2>1, NamesCostIs DEF CostOf
<1>3. cost \in Nat
  <2>1. n - k + 1 \in 1..n
    BY <1>1
  <2>2. m.names[n - k + 1] \in Nat
    <3> DEFINE s == m.names
               i == n - k + 1
    <3>1. s \in Seq(Nat) /\ i \in 1..Len(s)
      BY <1>1, <2>1
    <3> HIDE DEF s, i
    <3>2. s[i] \in Nat
      BY <3>1
    <3> QED BY <3>2 DEF s, i
  <2>3. Steps(m)[f.at].what \in Nat
    BY <1>1, <2>2
  <2> QED BY <2>3 DEF TextCost
<1>4. below \in TreesOf(graph)
  <2>1. ToParse(m, f.at) \in 0..Len(m.children)
    BY DEF CallFacts, Counts
  <2> QED BY <2>1 DEF CallFacts
<1>5. Owed(f, j) = [tables |-> below.tables, cost |-> names[k] + below.cost]
  BY DEF Owed
<1>6. Owed(next, j) = [tables |-> below.tables, cost |-> names[k - 1] + below.cost]
  BY DEF Owed, CopiesNext
<1>7. below.cost \in Nat
  BY <1>4 DEF TreesOf, TreesOver
<1> HIDE DEF below, names, cost, k
<1>8. (cost + names[k - 1]) + below.cost = cost + (names[k - 1] + below.cost)
  BY <1>2, <1>3, <1>7
<1> QED BY <1>2, <1>5, <1>6, <1>8 DEF cost

LEMMA OwedAtResolve ==
  ASSUME NEW f, NEW next, NEW j,
         ResolvesNext(graph[f.node], f.at), next.node = f.node, next.at = f.at + 1
  PROVE  Owed(f, j) = Owed(next, j)
BY DEF Owed, ResolvesNext

LEMMA OwedAtEnd ==
  ASSUME NEW f, NEW j, CallFacts(f, j), f.at = Len(Steps(graph[f.node])) + 1
  PROVE  Owed(f, j) = None
<1>1. ToParse(graph[f.node], f.at) = 0 /\ ToCopy(graph[f.node], f.at) = 0
  BY DEF CallFacts, Counts
<1>2. NamesCost(graph[f.node].names)[0] = 0
  BY NamesCostIs DEF CallFacts
<1> QED BY <1>1, <1>2 DEF Owed, CallFacts, None

\* Of some calls, the first few owe what they owed.
LEMMA OwingKept ==
  ASSUME NEW e \in Nat, NEW calls, Len(calls) \in Nat, e <= Len(calls), NEW after, Len(after) = e,
         \A j \in 1..e : after[j] = calls[j], NEW owed, Owing(calls, owed)
  PROVE  \E new : Owing(after, new) /\ new[e] = owed[e]
<1> DEFINE T == TreesOf(graph)
           new == [j \in 0..e |-> owed[j]]
<1>1. /\ owed \in [0..Len(calls) -> T] /\ owed[0] = None
      /\ \A j \in 1..Len(calls) : owed[j] = Then(Owed(calls[j], j), owed[j - 1])
  BY DEF Owing
<1> HIDE DEF T
<1>2. new \in [0..e -> T]
  BY <1>1
<1>3. \A j \in 0..e : new[j] = owed[j]
  OBVIOUS
<1> HIDE DEF new
<1>4. ASSUME NEW j \in 1..e PROVE new[j] = Then(Owed(after[j], j), new[j - 1])
  <2>1. j \in 1..Len(calls) /\ j \in 0..e /\ j - 1 \in 0..e /\ after[j] = calls[j]
    OBVIOUS
  <2>2. new[j] = owed[j] /\ new[j - 1] = owed[j - 1]
    BY <1>3, <2>1
  <2>3. owed[j] = Then(Owed(calls[j], j), owed[j - 1])
    BY <1>1, <2>1
  <2> QED BY <2>1, <2>2, <2>3
<1>5. new[0] = None /\ new[e] = owed[e]
  BY <1>1, <1>3
<1>6. Owing(after, new)
  BY <1>2, <1>4, <1>5 DEF Owing, T
<1> QED BY <1>5, <1>6

\* With one call more, they owe what it owes besides.
LEMMA OwingAdded ==
  ASSUME NEW e \in Nat, NEW calls, Len(calls) \in Nat, e <= Len(calls), NEW after, Len(after) = e + 1,
         \A j \in 1..e : after[j] = calls[j], NEW owed, Owing(calls, owed),
         Owed(after[e + 1], e + 1) \in TreesOf(graph)
  PROVE  \E new : Owing(after, new) /\ new[e + 1] = Then(Owed(after[e + 1], e + 1), owed[e])
<1> DEFINE T == TreesOf(graph)
           more == Owed(after[e + 1], e + 1)
           sum == Then(more, owed[e])
           new == [j \in 0..(e + 1) |-> IF j = e + 1 THEN sum ELSE owed[j]]
<1>1. /\ owed \in [0..Len(calls) -> T] /\ owed[0] = None
      /\ \A j \in 1..Len(calls) : owed[j] = Then(Owed(calls[j], j), owed[j - 1])
  BY DEF Owing
<1>2. sum \in T
  <2>1. owed[e] \in T
    <3> HIDE DEF T
    <3> QED BY <1>1
  <2>2. more \in T
    OBVIOUS
  <2> HIDE DEF more
  <2> QED BY <2>1, <2>2, ThenType DEF TreesOf
<1> HIDE DEF T, sum
<1>3. new \in [0..(e + 1) -> T]
  BY <1>1, <1>2
<1>4. new[e + 1] = sum /\ \A j \in 0..e : new[j] = owed[j]
  OBVIOUS
<1> HIDE DEF new
<1>5. ASSUME NEW j \in 1..(e + 1) PROVE new[j] = Then(Owed(after[j], j), new[j - 1])
  <2>1. CASE j = e + 1
    <3>1. j - 1 = e /\ e \in 0..e
      BY <2>1
    <3>2. new[j] = sum /\ new[j - 1] = owed[e] /\ Owed(after[j], j) = more
      BY <1>4, <2>1, <3>1
    <3> QED BY <3>2 DEF sum
  <2>2. CASE j # e + 1
    <3>1. j \in 1..e /\ j \in 1..Len(calls) /\ j \in 0..e /\ j - 1 \in 0..e /\ after[j] = calls[j]
      BY <2>2
    <3>2. new[j] = owed[j] /\ new[j - 1] = owed[j - 1]
      BY <1>4, <3>1
    <3>3. owed[j] = Then(Owed(calls[j], j), owed[j - 1])
      BY <1>1, <3>1
    <3> QED BY <3>1, <3>2, <3>3
  <2> QED BY <2>1, <2>2
<1>6. new[0] = None
  BY <1>1, <1>4
<1>7. Owing(after, new)
  BY <1>3, <1>5, <1>6 DEF Owing, T
<1> QED BY <1>4, <1>7 DEF sum

LEMMA SameOwing ==
  ASSUME graph' = graph, NEW owed, Owing(stack', owed)
  PROVE  Owing(stack, owed)'
BY DEF Owing, Owed

-----------------------------------------------------------------------------
(* Why a graph is not acceptable.                                          *)

LEMMA PlaceType ==
  ASSUME NEW g \in Graphs, NEW h \in 0..(MaxDepth + 1), NEW n \in Nodes(g)
  PROVE  Unfolding(g)[h][n] \in TreesOf(g)
<1>1. IsLevel(g, Unfolding(g), h)
  BY UnfoldingIs
<1> QED BY <1>1 DEF IsLevel

LEMMA Overspent ==
  ASSUME budget \in Int, NEW rest, Balanced(rest), rest.cost \in Nat, budget < rest.cost
  PROVE  ~Acceptable(graph)
<1>1. Tree(graph).cost = (MaxNodes - budget) + rest.cost
  BY DEF Balanced
<1>2. ~(Tree(graph).cost <= MaxNodes)
  BY <1>1, WalkAssumption
<1> QED BY <1>2 DEF Acceptable

LEMMA Malformed ==
  ASSUME NEW i \in 1..Len(Tree(graph).tables), ~WellFormed(graph[Tree(graph).tables[i].node])
  PROVE  ~Acceptable(graph)
BY DEF Acceptable

\* A table of the tree so far is a table of the whole tree.
LEMMA MalformedSoFar ==
  ASSUME IInv, NEW rest \in TreesOf(graph), Balanced(rest), NEW n, InTree(n), ~WellFormed(graph[n])
  PROVE  ~Acceptable(graph)
<1> DEFINE E == [node : DOMAIN graph, depth : Nat]
           a == out
           b == rest.tables
           whole == Tree(graph).tables
<1>1. a \in Seq(E) /\ b \in Seq(E)
  BY DEF IInv, TypeInv, TypeOK, TreesOf, TreesOver
<1>2. whole = a \o b
  BY DEF Balanced
<1>3. PICK i \in 1..Len(a) : a[i].node = n
  BY DEF InTree
<1>4. i \in 1..Len(whole) /\ whole[i] = a[i]
  <2> HIDE DEF a, b, whole, E
  <2> QED BY <1>1, <1>2
<1>5. ~WellFormed(graph[whole[i].node])
  BY <1>3, <1>4
<1> QED BY <1>4, <1>5, Malformed

LEMMA FailsRightly ==
  ASSUME AheadInv, Fail, UNCHANGED <<graph, out>>, ~Acceptable(graph)
  PROVE  AheadInv'
BY DEF AheadInv, Fail, InTree

Entry == [node : DOMAIN graph, depth : Nat]

\* A table that has its place comes first in its own tree.
LEMMA TreeStarts ==
  ASSUME graph \in Graphs, NEW n \in DOMAIN graph, n # Missing, NEW h \in 1..(MaxDepth + 1)
  PROVE  LET tree == Unfolding(graph)[h][n]
         IN  /\ tree.cost >= 1
             /\ \E more \in Seq(Entry) :
                   tree.tables = <<[node |-> n, depth |-> MaxDepth + 1 - h]>> \o more
<1> DEFINE low == Unfolding(graph)[h - 1]
           trees == Children(graph, n, low)
           c == Len(graph[n].children)
           below == Forest(trees)[c]
           names == NamesCost(graph[n].names)[Len(graph[n].names)]
<1>1. h \in 0..(MaxDepth + 1) /\ h # 0 /\ h - 1 \in 0..(MaxDepth + 1)
  BY WalkAssumption
<1>2. Unfolding(graph)[h][n] = Grown(graph, n, h, low)
  BY <1>1, UnfoldingIs DEF IsLevel
<1>3. low \in [Nodes(graph) -> TreesOf(graph)]
  BY <1>1, UnfoldingIs DEF IsLevel
<1>4. graph[n].names \in Seq(Nat) /\ Len(graph[n].names) \in 0..Len(graph[n].names) /\ c \in Nat
  BY WalkAssumption DEF Table
<1>5. below \in TreesOver(Entry)
  <2> HIDE DEF low
  <2>1. trees \in Seq(TreesOver(Entry)) /\ Len(trees) = c
    BY <1>3, ChildrenType DEF TreesOf, Entry
  <2>2. c \in 0..Len(trees)
    BY <1>4, <2>1
  <2> HIDE DEF trees, c
  <2> QED BY <2>1, <2>2, ForestIs
<1>6. names \in Nat
  BY <1>4, NamesCostIs
<1>7. /\ Grown(graph, n, h, low).tables = <<[node |-> n, depth |-> MaxDepth + 1 - h]>> \o below.tables
      /\ Grown(graph, n, h, low).cost = 1 + names + below.cost
  BY DEF Grown
<1> HIDE DEF low, trees, below, names
<1>8. below.tables \in Seq(Entry) /\ below.cost \in Nat
  BY <1>5 DEF TreesOver
<1>9. 1 + names + below.cost >= 1
  BY <1>6, <1>8
<1> QED BY <1>2, <1>7, <1>8, <1>9

\* What has no place costs more than there is.
LEMMA PlaceMissing ==
  ASSUME graph \in Graphs, NEW n \in Nodes(graph), NEW h \in 0..(MaxDepth + 1), n = Missing \/ h = 0
  PROVE  Unfolding(graph)[h][n] = NoPlace
<1>1. IsLevel(graph, Unfolding(graph), h)
  BY UnfoldingIs
<1>2. CASE n = Missing
  BY <1>1, <1>2 DEF IsLevel
<1>3. CASE n # Missing
  BY <1>1, <1>3 DEF IsLevel, Nodes
<1> QED BY <1>2, <1>3

\* A table whose own checks fail, where the tree so far ends.
LEMMA MalformedNext ==
  ASSUME IInv, NEW n \in DOMAIN graph, n # Missing, NEW h \in 1..(MaxDepth + 1), ~Readable(graph[n]),
         NEW rest \in TreesOf(graph), Balanced(Then(Unfolding(graph)[h][n], rest))
  PROVE  ~Acceptable(graph)
<1> DEFINE tree == Unfolding(graph)[h][n]
           entry == [node |-> n, depth |-> MaxDepth + 1 - h]
           a == out
           b == rest.tables
           whole == Tree(graph).tables
<1>1. graph \in Graphs
  BY DEF IInv, TypeInv
<1>2. PICK more \in Seq(Entry) : tree.tables = <<entry>> \o more
  BY <1>1, TreeStarts
<1> HIDE DEF tree
<1>3. whole = a \o (tree.tables \o b)
  BY DEF Balanced, Then, tree
<1>4. a \in Seq(Entry) /\ b \in Seq(Entry) /\ entry \in Entry
  BY WalkAssumption DEF IInv, TypeInv, TypeOK, TreesOf, TreesOver, Entry
<1>5. entry.node = n
  OBVIOUS
<1> HIDE DEF entry, a, b, whole
<1>6. whole = Append(a, entry) \o (more \o b)
  <2>1. whole = a \o ((<<entry>> \o more) \o b)
    BY <1>2, <1>3
  <2> HIDE DEF Entry
  <2>2. Append(a, entry) \o (more \o b) = a \o ((<<entry>> \o more) \o b)
    BY <1>4, AppendThen, SMTT(30)
  <2> QED BY <2>1, <2>2
<1>7. Len(a) + 1 \in 1..Len(whole) /\ whole[Len(a) + 1] = entry
  <2> DEFINE s == Append(a, entry)
             t == more \o b
  <2>1. s \in Seq(Entry) /\ t \in Seq(Entry) /\ Len(s) = Len(a) + 1 /\ Len(a) \in Nat
    BY <1>4
  <2>2. s[Len(a) + 1] = entry
    BY <1>4
  <2> HIDE DEF s, t
  <2>3. Len(s) \in 1..Len(s \o t) /\ (s \o t)[Len(s)] = s[Len(s)]
    BY <2>1
  <2> QED BY <1>6, <2>1, <2>2, <2>3 DEF s, t
<1>8. ~WellFormed(graph[n])
  BY DEF Readable, WellFormed, Resolved
<1>9. ~WellFormed(graph[whole[Len(a) + 1].node])
  BY <1>5, <1>7, <1>8
<1> QED BY <1>7, <1>9, Malformed DEF whole

-----------------------------------------------------------------------------
(* Each step keeps the balance.                                            *)

InOrder(f) == f.at <= Len(Steps(graph[f.node])) + 1 /\ InTree(f.node)

\* A call that cannot be made, with what its callers owe after it.
LEMMA CallRefused ==
  ASSUME IInv, AheadInv, status # "failed", NEW n \in Nodes(graph), NEW d \in 0..(MaxDepth + 1),
         NEW rest \in TreesOf(graph), Balanced(Then(Unfolding(graph)[MaxDepth + 1 - d][n], rest)),
         n # Missing => ~(NodeBudget(d, budget - 1) /\ Readable(graph[n]))
  PROVE  ~Acceptable(graph)
<1> DEFINE h == MaxDepth + 1 - d
           tree == Unfolding(graph)[h][n]
           all == Then(tree, rest)
<1>1. graph \in Graphs /\ budget \in Nat /\ budget <= MaxNodes
  <2>1. /\ budget \in Int /\ budget >= 0 /\ Len(out) \in Nat /\ copied \in Nat
        /\ Len(out) + copied + budget <= MaxNodes
    BY DEF IInv, TypeInv, TypeOK, BudgetInv
  <2>2. budget <= MaxNodes
    <3> DEFINE o == Len(out)
    <3> HIDE DEF o
    <3>1. o \in Nat /\ o + copied + budget <= MaxNodes
      BY <2>1 DEF o
    <3> QED BY <2>1, <3>1, WalkAssumption
  <2> QED BY <2>1, <2>2 DEF IInv, TypeInv
<1>2. h \in 0..(MaxDepth + 1) /\ (h = 0 <=> d = MaxDepth + 1)
  BY WalkAssumption
<1>3. tree \in TreesOf(graph)
  <2> HIDE DEF h
  <2> QED BY <1>1, <1>2, PlaceType
<1>4. tree.cost \in Nat /\ rest.cost \in Nat /\ all.cost = tree.cost + rest.cost
  <2> HIDE DEF tree
  <2> QED BY <1>3 DEF Then, TreesOf, TreesOver
<1>5. budget < tree.cost => ~Acceptable(graph)
  <2> SUFFICES ASSUME budget < tree.cost PROVE ~Acceptable(graph)
    OBVIOUS
  <2>1. Balanced(all)
    OBVIOUS
  <2> HIDE DEF tree, all
  <2>2. all.cost \in Nat /\ budget < all.cost
    BY <1>1, <1>4
  <2> QED BY <1>1, <2>1, <2>2, Overspent
<1>6. CASE n = Missing \/ h = 0
  <2>1. tree.cost = MaxNodes + 1
    <3> HIDE DEF h
    <3> QED BY <1>1, <1>2, <1>6, PlaceMissing DEF NoPlace
  <2> HIDE DEF tree
  <2>2. budget < tree.cost
    BY <1>1, <2>1, WalkAssumption
  <2> QED BY <1>5, <2>2 DEF tree
<1>7. CASE n # Missing /\ h # 0
  <2>1. n \in DOMAIN graph /\ h \in 1..(MaxDepth + 1) /\ d <= MaxDepth
    BY <1>2, <1>7, WalkAssumption DEF Nodes
  <2>2. CASE budget - 1 < 0
    <3>1. tree.cost >= 1
      <4> HIDE DEF h
      <4> QED BY <1>1, <1>7, <2>1, TreeStarts
    <3> HIDE DEF tree
    <3>2. budget < tree.cost
      BY <1>1, <1>4, <2>2, <3>1
    <3> QED BY <1>5, <3>2 DEF tree
  <2>3. CASE ~(budget - 1 < 0)
    <3>1. budget - 1 >= 0
      BY <1>1, <2>3
    <3>2. ~Readable(graph[n])
      BY <1>7, <2>1, <3>1 DEF NodeBudget
    <3>3. Balanced(Then(Unfolding(graph)[h][n], rest))
      OBVIOUS
    <3> HIDE DEF h
    <3> QED BY <1>7, <2>1, <3>2, <3>3, MalformedNext
  <2> QED BY <2>2, <2>3
<1> QED BY <1>6, <1>7

Made(n, callers) ==
  /\ stack' = Append(callers, [node |-> n, at |-> 1])
  /\ out' = Append(out, [node |-> n, depth |-> Len(callers)])
  /\ budget' = budget - 1
  /\ graph' = graph

\* A call that is made is one more table of the tree, and owes what is below it.
LEMMA CallBalanced ==
  ASSUME IInv, AheadInv, status # "failed", NEW n \in DOMAIN graph, n # Missing, Readable(graph[n]),
         NEW callers \in Seq(Frame), Len(callers) <= MaxDepth, NEW owed, Owing(callers, owed),
         Balanced(Then(Unfolding(graph)[MaxDepth + 1 - Len(callers)][n], owed[Len(callers)])),
         Made(n, callers)
  PROVE  \E new : Owing(stack, new)' /\ Balanced(new[Len(stack)])'
<1> DEFINE d == Len(callers)
           j == d + 1
           f == [node |-> n, at |-> 1]
           entry == [node |-> n, depth |-> d]
           more == Owed(f, j)
           tree == Unfolding(graph)[MaxDepth + 1 - d][n]
           rest == owed[d]
<1>1. graph \in Graphs /\ d \in Nat /\ j \in 1..(MaxDepth + 1) /\ MaxDepth + 2 - j = MaxDepth + 1 - d
  BY WalkAssumption DEF IInv, TypeInv
<1>2. tree.tables = <<entry>> \o more.tables /\ tree.cost = 1 + more.cost
  <2> HIDE DEF f
  <2>1. /\ Unfolding(graph)[MaxDepth + 2 - j][n].tables = <<[node |-> n, depth |-> j - 1]>> \o more.tables
        /\ Unfolding(graph)[MaxDepth + 2 - j][n].cost = 1 + more.cost
    <3> HIDE DEF j
    <3> QED BY <1>1, NewOwed DEF f
  <2>2. j - 1 = d
    BY <1>1
  <2> QED BY <1>1, <2>1, <2>2
<1>3. f \in Frame
  BY DEF Frame
<1>4. more \in TreesOf(graph)
  <2>1. f.node = n /\ f.at <= Len(Steps(graph[f.node])) + 1
    <3>1. Len(Steps(graph[n])) \in Nat
      BY WalkAssumption, StepsType DEF IInv, TypeInv
    <3> QED BY <3>1
  <2> HIDE DEF f, j
  <2>2. CallFacts(f, j)
    BY <1>1, <1>3, <2>1, FactsOfCall
  <2> QED BY <2>2, OwedType
<1>5. /\ Len(stack') = j /\ stack'[j] = f
      /\ \A i \in 1..d : stack'[i] = callers[i]
  <2>1. stack' = Append(callers, f)
    BY DEF Made
  <2> HIDE DEF Frame, f
  <2> QED BY <1>1, <1>3, <2>1
<1>6. PICK new : Owing(stack', new) /\ new[j] = Then(more, rest)
  <2>1. Owed(stack'[j], j) = more
    BY <1>5
  <2>2. /\ Len(callers) \in Nat /\ d <= Len(callers) /\ Len(stack') = d + 1
        /\ Owed(stack'[d + 1], d + 1) \in TreesOf(graph)
        /\ stack'[d + 1] = f
    BY <1>1, <1>4, <1>5
  <2> HIDE DEF f, d, Frame
  <2>3. \E new : Owing(stack', new) /\ new[d + 1] = Then(Owed(stack'[d + 1], d + 1), owed[d])
    BY <1>1, <1>5, <2>2, OwingAdded
  <2> QED BY <2>2, <2>3
<1>7. rest \in TreesOf(graph)
  <2>1. owed \in [0..d -> TreesOf(graph)]
    BY DEF Owing
  <2> HIDE DEF d
  <2> QED BY <1>1, <2>1
<1>8. /\ out \o (tree.tables \o rest.tables) = Tree(graph).tables
      /\ (MaxNodes - budget) + (tree.cost + rest.cost) = Tree(graph).cost
  BY DEF Balanced, Then
<1>9. /\ out \in Seq(Entry) /\ more.tables \in Seq(Entry) /\ rest.tables \in Seq(Entry)
      /\ more.cost \in Nat /\ rest.cost \in Nat /\ budget \in Int /\ entry \in Entry
  BY <1>1, <1>4, <1>7 DEF IInv, TypeInv, TypeOK, TreesOf, TreesOver, Entry
<1> HIDE DEF tree, more, rest, entry
<1>10. out' \o (more.tables \o rest.tables) = Tree(graph).tables
  <2>1. out' = Append(out, entry)
    BY DEF entry, Made
  <2> DEFINE a == more.tables
             b == rest.tables
  <2>2. out \o ((<<entry>> \o a) \o b) = Tree(graph).tables
    BY <1>2, <1>8
  <2>3. out \in Seq(Entry) /\ entry \in Entry /\ a \in Seq(Entry) /\ b \in Seq(Entry)
    BY <1>9
  <2> HIDE DEF a, b, Entry
  <2>4. Append(out, entry) \o (a \o b) = out \o ((<<entry>> \o a) \o b)
    BY <2>3, AppendThen, SMTT(30)
  <2> QED BY <2>1, <2>2, <2>4 DEF a, b
<1>11. (MaxNodes - budget') + (more.cost + rest.cost) = Tree(graph).cost
  <2>1. budget' = budget - 1
    BY DEF Made
  <2>2. (MaxNodes - (budget - 1)) + (more.cost + rest.cost)
           = (MaxNodes - budget) + ((1 + more.cost) + rest.cost)
    BY <1>9, WalkAssumption, SMTT(40)
  <2> QED BY <1>2, <1>8, <2>1, <2>2
<1>12. Balanced(new[Len(stack)])'
  <2>1. new[Len(stack')] = Then(more, rest)
    BY <1>5, <1>6
  <2>2. Then(more, rest).tables = more.tables \o rest.tables /\ Then(more, rest).cost = more.cost + rest.cost
    BY DEF Then
  <2> DEFINE x == Then(more, rest)
  <2> HIDE DEF x
  <2>3. /\ out' \o x.tables = Tree(graph').tables
        /\ (MaxNodes - budget') + x.cost = Tree(graph').cost
    BY <1>10, <1>11, <2>2 DEF x, Made
  <2>4. Len(stack)' = Len(stack')
    OBVIOUS
  <2> QED BY <2>1, <2>3 DEF Balanced, x
<1>13. Owing(stack, new)'
  BY <1>6, SameOwing DEF Made
<1> QED BY <1>12, <1>13

LEMMA CallAhead ==
  ASSUME IInv, AheadInv, status # "failed", NEW n \in Nodes(graph), NEW callers \in Seq(Frame),
         Len(callers) <= MaxDepth + 1, NEW owed, Owing(callers, owed),
         Balanced(Then(Unfolding(graph)[MaxDepth + 1 - Len(callers)][n], owed[Len(callers)])),
         \A j \in 1..Len(callers) : InOrder(callers[j]), Call(n, callers), graph' = graph
  PROVE  AheadInv'
<1> DEFINE d == Len(callers)
           new == [node |-> n, at |-> 1]
           entry == [node |-> n, depth |-> d]
<1>1. d \in Nat /\ d \in 0..(MaxDepth + 1)
  BY WalkAssumption
<1>2. owed[d] \in TreesOf(graph)
  <2>1. owed \in [0..d -> TreesOf(graph)]
    BY DEF Owing
  <2> HIDE DEF d
  <2> QED BY <1>1, <2>1
<1>3. CASE Fail
  <2>1. out' = out
    BY <1>3 DEF Call, Fail
  <2>2. n # Missing => ~(NodeBudget(d, budget - 1) /\ Readable(graph[n]))
    BY <1>3 DEF Call, Fail
  <2>3. ~Acceptable(graph)
    <3> HIDE DEF d
    <3> QED BY <1>1, <1>2, <2>2, CallRefused DEF d
  <2> QED BY <1>3, <2>1, <2>3, FailsRightly
<1>4. CASE ~Fail
  <2>1. n # Missing /\ n \in DOMAIN graph /\ Readable(graph[n]) /\ d <= MaxDepth /\ status' = "parsing"
    BY <1>4 DEF Call, NodeBudget, Nodes
  <2>2. Made(n, callers)
    BY <1>4 DEF Call, Made
  <2>3. \E o : Owing(stack, o)' /\ Balanced(o[Len(stack)])'
    BY <2>1, <2>2, CallBalanced
  <2>4. out \in Seq(Entry) /\ Len(out) \in Nat /\ entry \in Entry /\ new \in Frame
    BY <2>1 DEF IInv, TypeInv, TypeOK, Entry, Frame
  <2>5. /\ Len(out') = Len(out) + 1 /\ out'[Len(out) + 1] = entry
        /\ \A i \in 1..Len(out) : out'[i] = out[i]
    <3>1. out' = Append(out, entry)
      BY <2>2 DEF Made
    <3> HIDE DEF entry, Entry
    <3> QED BY <2>4, <3>1
  <2>6. /\ Len(stack') = d + 1 /\ stack'[d + 1] = new
        /\ \A j \in 1..d : stack'[j] = callers[j]
    <3>1. stack' = Append(callers, new)
      BY <2>2 DEF Made
    <3> HIDE DEF new, Frame
    <3> QED BY <2>4, <3>1
  <2>7. \A x : InTree(x) => InTree(x)'
    <3> SUFFICES ASSUME NEW x, InTree(x) PROVE InTree(x)'
      OBVIOUS
    <3>1. PICK i \in 1..Len(out) : out[i].node = x
      BY DEF InTree
    <3>2. i \in 1..Len(out') /\ out'[i].node = x
      BY <2>4, <2>5, <3>1
    <3> QED BY <3>2 DEF InTree
  <2>8. InTree(n)'
    <3>1. Len(out) + 1 \in 1..Len(out') /\ out'[Len(out) + 1].node = n
      BY <2>4, <2>5
    <3> QED BY <3>1 DEF InTree
  <2>9. ASSUME NEW j \in 1..Len(stack')
        PROVE  InOrder(stack[j])'
    <3>1. CASE j <= d
      <4>1. stack'[j] = callers[j] /\ InOrder(callers[j])
        BY <1>1, <2>6, <3>1
      <4> QED BY <2>2, <2>7, <4>1 DEF InOrder, Made
    <3>2. CASE ~(j <= d)
      <4>1. stack'[j] = new
        <5>1. j = d + 1
          BY <1>1, <2>6, <3>2
        <5> QED BY <2>6, <5>1
      <4>2. Len(Steps(graph[n])) \in Nat
        BY <2>1, WalkAssumption, StepsType DEF IInv, TypeInv
      <4> QED BY <2>2, <2>8, <4>1, <4>2 DEF InOrder, Made
    <3> QED BY <3>1, <3>2
  <2>10. ASSUME NEW i \in 1..Len(out')
         PROVE  Readable(graph[out[i].node])'
    <3>1. CASE i <= Len(out)
      <4>1. out'[i] = out[i] /\ i \in 1..Len(out)
        BY <2>4, <2>5, <3>1
      <4> QED BY <2>2, <4>1 DEF Made, AheadInv
    <3>2. CASE ~(i <= Len(out))
      <4>1. out'[i].node = n
        <5>1. i = Len(out) + 1
          BY <2>4, <2>5, <3>2
        <5> QED BY <2>5, <5>1
      <4> QED BY <2>1, <2>2, <4>1 DEF Made
    <3> QED BY <3>1, <3>2
  <2> QED BY <2>1, <2>3, <2>9, <2>10 DEF AheadInv, InOrder
<1> QED BY <1>3, <1>4

LEMMA StartAhead == ASSUME IInv, AheadInv, Start PROVE AheadInv'
<1>1. status = "idle" /\ stack = <<>> /\ out = <<>> /\ budget = MaxNodes /\ Call(1, <<>>) /\ graph' = graph
  BY DEF Start, IInv, ProgressInv, AheadInv
<1>2. graph \in Graphs /\ 1 \in Nodes(graph) /\ MaxDepth + 1 \in 0..(MaxDepth + 1)
  BY WalkAssumption DEF IInv, TypeInv, Nodes
<1> DEFINE tree == Tree(graph)
           owed == [j \in 0..0 |-> None]
           E == [node : DOMAIN graph, depth : Nat]
<1>3. tree = Unfolding(graph)[MaxDepth + 1 - 0][1] /\ tree \in TreesOf(graph)
  <2>1. MaxDepth + 1 - 0 = MaxDepth + 1
    BY WalkAssumption
  <2> QED BY <1>2, <2>1, PlaceType DEF Tree
<1>4. None \in TreesOf(graph)
  BY DEF None, TreesOf, TreesOver
<1>5. owed \in [0..0 -> TreesOf(graph)] /\ owed[0] = None
  BY <1>4
<1> HIDE DEF owed, tree
<1>6. Len(<<>>) = 0 /\ <<>> \in Seq(Frame) /\ 1..0 = {}
  OBVIOUS
<1>7. Owing(<<>>, owed)
  BY <1>5, <1>6 DEF Owing
<1>8. Balanced(Then(tree, None))
  <2>1. tree.tables \in Seq(E) /\ tree.cost \in Nat
    BY <1>3 DEF TreesOf, TreesOver
  <2>2. Then(tree, None).tables = tree.tables \o <<>> /\ Then(tree, None).cost = tree.cost + 0
    BY DEF Then, None
  <2>3. <<>> \o (tree.tables \o <<>>) = tree.tables
    <3> DEFINE a == tree.tables
    <3>1. a \in Seq(E)
      BY <2>1
    <3> HIDE DEF a, E
    <3>2. <<>> \o (a \o <<>>) = a
      BY <3>1
    <3> QED BY <3>2 DEF a
  <2>4. (MaxNodes - MaxNodes) + (tree.cost + 0) = tree.cost
    BY <2>1, WalkAssumption
  <2> DEFINE x == Then(tree, None)
  <2> HIDE DEF x
  <2>5. out \o x.tables = tree.tables /\ (MaxNodes - budget) + x.cost = tree.cost
    BY <1>1, <2>2, <2>3, <2>4 DEF x
  <2> QED BY <2>5 DEF Balanced, x, tree
<1>9. /\ Balanced(Then(Unfolding(graph)[MaxDepth + 1 - Len(<<>>)][1], owed[Len(<<>>)]))
      /\ Len(<<>>) <= MaxDepth + 1 /\ \A j \in 1..Len(<<>>) : InOrder(<<>>[j])
  BY <1>3, <1>5, <1>6, <1>8, WalkAssumption
<1> HIDE DEF Frame
<1> QED BY <1>1, <1>2, <1>6, <1>7, <1>9, CallAhead

\* What the call in progress owes, and its callers.
LEMMA TopOwes ==
  ASSUME IInv, AheadInv, status = "parsing"
  PROVE  /\ Len(stack) \in 1..(MaxDepth + 1) /\ CallFacts(Top, Len(stack))
         /\ Top.at <= Len(TopSteps) + 1 /\ InTree(Top.node)
         /\ \E owed : /\ Owing(stack, owed)
                      /\ owed[Len(stack) - 1] \in TreesOf(graph)
                      /\ owed[Len(stack)] = Then(Owed(Top, Len(stack)), owed[Len(stack) - 1])
                      /\ Balanced(owed[Len(stack)])
<1> DEFINE d == Len(stack)
<1>1. d \in Nat \ {0} /\ Top = stack[d] /\ Top \in Frame /\ Readable(graph[Top.node])
  BY TopFacts
<1>2. d \in 1..(MaxDepth + 1) /\ graph \in Graphs
  <2>1. d <= MaxDepth + 1 /\ graph \in Graphs
    BY DEF IInv, BudgetInv, WorkBounded, TypeInv
  <2> QED BY <1>1, <2>1, WalkAssumption
<1>3. Top.at <= Len(TopSteps) + 1 /\ InTree(Top.node)
  BY <1>1, <1>2 DEF AheadInv, TopSteps
<1>4. CallFacts(Top, d)
  <2> HIDE DEF d
  <2> QED BY <1>1, <1>2, <1>3, FactsOfCall DEF TopSteps
<1>5. PICK owed : Owing(stack, owed) /\ Balanced(owed[d])
  BY DEF AheadInv
<1>6. owed[d - 1] \in TreesOf(graph) /\ owed[d] = Then(Owed(Top, d), owed[d - 1])
  <2>1. /\ owed \in [0..d -> TreesOf(graph)]
        /\ \A j \in 1..d : owed[j] = Then(Owed(stack[j], j), owed[j - 1])
    BY <1>5 DEF Owing
  <2> HIDE DEF d
  <2>2. d - 1 \in 0..d /\ d \in 1..d
    BY <1>1
  <2>3. owed[d - 1] \in TreesOf(graph)
    BY <2>1, <2>2
  <2>4. owed[d] = Then(Owed(stack[d], d), owed[d - 1])
    BY <2>1, <2>2
  <2> QED BY <1>1, <2>3, <2>4
<1> QED BY <1>2, <1>3, <1>4, <1>5, <1>6

\* After its step the call owes less; its callers owe what they did.
LEMMA AdvancedOwes ==
  ASSUME IInv, AheadInv, status = "parsing", Top.at <= Len(TopSteps), StepResolved(TopSteps[Top.at]),
         NEW owed, Owing(stack, owed)
  PROVE  /\ Advanced[Len(stack)].node = Top.node /\ Advanced[Len(stack)].at = Top.at + 1
         /\ Owed(Advanced[Len(stack)], Len(stack)) \in TreesOf(graph)
         /\ \A j \in 1..Len(Advanced) : InOrder(Advanced[j])
         /\ \E new : /\ Owing(Advanced, new)
                     /\ new[Len(stack)] = Then(Owed(Advanced[Len(stack)], Len(stack)), owed[Len(stack) - 1])
<1> DEFINE d == Len(stack)
           next == Advanced[d]
           e == d - 1
<1>1. /\ stack \in Seq(Frame) /\ d \in Nat \ {0} /\ \A j \in 1..d : stack[j] \in Frame
      /\ Top = stack[d] /\ Top \in Frame
  BY StackFacts
<1>2. /\ Advanced \in Seq(Frame) /\ Len(Advanced) = d
      /\ \A j \in 1..d : FrameOK(Advanced[j])
  BY AdvancedFacts
<1>3. \A j \in 1..d : Advanced[j] = IF j = d THEN [Top EXCEPT !.at = @ + 1] ELSE stack[j]
  BY <1>1 DEF Advanced
<1>4. next.node = Top.node /\ next.at = Top.at + 1
  <2>1. next = [Top EXCEPT !.at = @ + 1]
    BY <1>1, <1>3
  <2> HIDE DEF next
  <2> QED BY <1>1, <2>1 DEF Frame
<1>5. d \in 1..(MaxDepth + 1) /\ InTree(Top.node)
  BY TopOwes
<1>6. next \in Frame /\ Readable(graph[next.node])
  <2>1. d \in 1..d
    BY <1>1
  <2> HIDE DEF d, Frame
  <2>2. next \in Frame /\ FrameOK(next)
    BY <1>2, <2>1
  <2> QED BY <2>2 DEF FrameOK
<1>7. Len(TopSteps) \in Nat /\ Top.at \in Nat
  <2>1. Len(TopSteps) \in Nat
    BY TopFacts
  <2> QED BY <1>1, <2>1 DEF Frame
<1>8. next.at <= Len(Steps(graph[next.node])) + 1
  <2> HIDE DEF next
  <2> QED BY <1>4, <1>7 DEF TopSteps
<1>9. Owed(next, d) \in TreesOf(graph)
  <2> HIDE DEF next, d
  <2>1. graph \in Graphs
    BY DEF IInv, TypeInv
  <2>2. CallFacts(next, d)
    BY <1>5, <1>6, <1>8, <2>1, FactsOfCall
  <2> QED BY <2>2, OwedType
<1>10. ASSUME NEW j \in 1..d PROVE InOrder(Advanced[j])
  <2>1. CASE j = d
    <3> HIDE DEF next
    <3>1. InOrder(next)
      BY <1>4, <1>5, <1>8 DEF InOrder
    <3> QED BY <2>1, <3>1 DEF next
  <2>2. CASE j # d
    <3>1. Advanced[j] = stack[j]
      BY <1>3, <2>2
    <3> QED BY <3>1 DEF AheadInv, InOrder
  <2> QED BY <2>1, <2>2
<1>11. \E new : Owing(Advanced, new) /\ new[d] = Then(Owed(next, d), owed[e])
  <2>1. e \in Nat /\ e + 1 = d /\ e <= d
    BY <1>1
  <2>2. \A j \in 1..e : Advanced[j] = stack[j]
    BY <1>1, <1>3
  <2>3. e \in Nat /\ Len(Advanced) = e + 1 /\ Len(stack) \in Nat /\ e <= Len(stack)
    BY <1>1, <1>2, <2>1
  <2>4. Owed(Advanced[e + 1], e + 1) \in TreesOf(graph)
    BY <1>9, <2>1
  <2>6. Owed(Advanced[e + 1], e + 1) = Owed(next, d)
    BY <2>1
  <2> HIDE DEF e, next
  <2>5. \E new : Owing(Advanced, new) /\ new[e + 1] = Then(Owed(Advanced[e + 1], e + 1), owed[e])
    <3> HIDE DEF d
    <3> QED BY <2>2, <2>3, <2>4, OwingAdded
  <2> QED BY <2>1, <2>5, <2>6
<1> QED BY <1>2, <1>4, <1>9, <1>10, <1>11

\* A step other than a call, that leaves the tree and what is owed in balance.
LEMMA AdvanceAhead ==
  ASSUME IInv, AheadInv, status = "parsing", Top.at <= Len(TopSteps), StepResolved(TopSteps[Top.at]),
         NEW owed, Owing(stack, owed), stack' = Advanced, UNCHANGED <<graph, status, out>>,
         NEW rest, rest = Then(Owed(Advanced[Len(stack)], Len(stack)), owed[Len(stack) - 1]),
         out \o rest.tables = Tree(graph).tables, (MaxNodes - budget') + rest.cost = Tree(graph).cost
  PROVE  AheadInv'
<1>1. PICK new : Owing(Advanced, new) /\ new[Len(stack)] = rest
  BY AdvancedOwes
<1>2. \A j \in 1..Len(Advanced) : InOrder(Advanced[j])
  BY AdvancedOwes
<1>3. Len(Advanced) = Len(stack)
  BY AdvancedFacts
<1>4. Owing(stack, new)'
  BY <1>1, SameOwing
<1>5. Balanced(new[Len(stack)])'
  BY <1>1, <1>3 DEF Balanced
<1>6. \A x : InTree(x) => InTree(x)'
  BY DEF InTree
<1>7. \A j \in 1..Len(stack') : InOrder(stack[j])'
  BY <1>2, <1>6 DEF InOrder
<1>8. \A i \in 1..Len(out') : Readable(graph[out[i].node])'
  BY DEF AheadInv
<1> QED BY <1>4, <1>5, <1>7, <1>8 DEF AheadInv, InOrder

\* The step that comes next is of one sort.
LEMMA TopCounts ==
  ASSUME IInv, AheadInv, status = "parsing", Top.at <= Len(TopSteps)
  PROVE  /\ Top.at \in 1..Len(TopSteps)
         /\ TopSteps[Top.at].do = "parse" => ParsesNext(graph[Top.node], Top.at)
         /\ TopSteps[Top.at].do = "copy" => CopiesNext(graph[Top.node], Top.at)
         /\ TopSteps[Top.at].do = "resolve" => ResolvesNext(graph[Top.node], Top.at)
<1>1. Top.at \in 1..Len(TopSteps)
  BY TopFacts DEF Frame
<1>2. CallFacts(Top, Len(stack))
  BY TopOwes
<1>3. StepCounts(graph[Top.node], Top.at)
  BY <1>1, <1>2 DEF CallFacts, Counts, TopSteps
<1> QED BY <1>1, <1>3 DEF StepCounts, ParsesNext, CopiesNext, ResolvesNext, TopSteps

LEMMA ParseChildAhead == ASSUME IInv, AheadInv, ParseChild PROVE AheadInv'
<1> DEFINE d == Len(stack)
           n == TopSteps[Top.at].what
           next == Advanced[d]
           tree == Unfolding(graph)[MaxDepth + 1 - d][n]
           more == Owed(next, d)
<1>1. /\ status = "parsing" /\ Top.at <= Len(TopSteps) /\ TopSteps[Top.at].do = "parse"
      /\ Call(n, Advanced) /\ graph' = graph
  BY DEF ParseChild, Doing
<1>2. ParsesNext(graph[Top.node], Top.at) /\ Top.at \in 1..Len(TopSteps) /\ StepResolved(TopSteps[Top.at])
  BY <1>1, TopCounts DEF StepResolved
<1>3. d \in 1..(MaxDepth + 1) /\ CallFacts(Top, d)
  BY <1>1, TopOwes
<1>4. PICK owed : /\ Owing(stack, owed)
                  /\ owed[d - 1] \in TreesOf(graph)
                  /\ owed[d] = Then(Owed(Top, d), owed[d - 1])
                  /\ Balanced(owed[d])
  BY <1>1, TopOwes
<1>5. /\ next.node = Top.node /\ next.at = Top.at + 1
      /\ more \in TreesOf(graph)
      /\ \A j \in 1..Len(Advanced) : InOrder(Advanced[j])
      /\ \E new : Owing(Advanced, new) /\ new[d] = Then(more, owed[d - 1])
  BY <1>1, <1>2, <1>4, AdvancedOwes
<1>6. Advanced \in Seq(Frame) /\ Len(Advanced) = d
  BY <1>1, <1>2, AdvancedFacts
<1>7. n \in Nodes(graph)
  <2>1. PICK k \in 1..Len(graph[Top.node].children) : n = graph[Top.node].children[k]
    BY <1>1, <1>2, TopFacts, StepParses DEF TopSteps
  <2> QED BY <1>1, <2>1, TopFacts, GraphFacts DEF IInv, Frame, Nodes
<1>8. Owed(Top, d) = Then(tree, more)
  <2>1. Top.at <= Len(Steps(graph[Top.node])) /\ n = Steps(graph[Top.node])[Top.at].what
    BY <1>1 DEF TopSteps
  <2> HIDE DEF d, next, n
  <2> QED BY <1>2, <1>3, <1>5, <2>1, OwedAtParse
<1>9. tree \in TreesOf(graph)
  <2>1. graph \in Graphs /\ MaxDepth + 1 - d \in 0..(MaxDepth + 1)
    BY <1>3, WalkAssumption DEF IInv, TypeInv
  <2> HIDE DEF d, n
  <2> QED BY <1>7, <2>1, PlaceType
<1> HIDE DEF d, n, next, tree, more
<1>10. PICK new : Owing(Advanced, new) /\ new[d] = Then(more, owed[d - 1])
  BY <1>5
<1>11. Balanced(Then(tree, new[d]))
  <2>1. Then(Then(tree, more), owed[d - 1]) = Then(tree, Then(more, owed[d - 1]))
    BY <1>4, <1>5, <1>9, ThenAssociates DEF TreesOf
  <2>2. owed[d] = Then(tree, new[d])
    BY <1>4, <1>8, <1>10, <2>1
  <2> QED BY <1>4, <2>2
<1>12. Balanced(Then(Unfolding(graph)[MaxDepth + 1 - Len(Advanced)][n], new[Len(Advanced)]))
  BY <1>6, <1>11 DEF tree
<1>13. Len(Advanced) <= MaxDepth + 1
  BY <1>3, <1>6, WalkAssumption
<1>14. status # "failed"
  BY <1>1
<1> HIDE DEF Frame
<1> QED BY <1>1, <1>5, <1>6, <1>7, <1>10, <1>12, <1>13, <1>14, CallAhead

LEMMA ResolveRefAhead == ASSUME IInv, AheadInv, ResolveRef PROVE AheadInv'
<1> DEFINE d == Len(stack)
           m == graph[Top.node]
<1>1. /\ status = "parsing" /\ Top.at <= Len(TopSteps) /\ TopSteps[Top.at].do = "resolve"
      /\ UNCHANGED <<graph, budget, out>>
  BY DEF ResolveRef, Doing
<1>2. ResolvesNext(m, Top.at)
  BY <1>1, TopCounts
<1>3. PICK owed : /\ Owing(stack, owed)
                  /\ owed[d - 1] \in TreesOf(graph)
                  /\ owed[d] = Then(Owed(Top, d), owed[d - 1])
                  /\ Balanced(owed[d])
  BY <1>1, TopOwes
<1>4. CASE TopSteps[Top.at].what < Targets
  <2>1. stack' = Advanced /\ status' = status /\ StepResolved(TopSteps[Top.at])
    BY <1>4 DEF ResolveRef, StepResolved
  <2>2. Advanced[d].node = Top.node /\ Advanced[d].at = Top.at + 1
    BY <1>1, <1>3, <2>1, AdvancedOwes
  <2>3. Owed(Top, d) = Owed(Advanced[d], d)
    BY <1>2, <2>2, OwedAtResolve
  <2> DEFINE rest == owed[d]
  <2>4. rest = Then(Owed(Advanced[d], d), owed[d - 1])
    BY <1>3, <2>3
  <2>5. out \o rest.tables = Tree(graph).tables /\ (MaxNodes - budget') + rest.cost = Tree(graph).cost
    BY <1>1, <1>3 DEF Balanced
  <2> HIDE DEF rest
  <2> QED BY <1>1, <1>3, <2>1, <2>4, <2>5, AdvanceAhead
<1>5. CASE ~(TopSteps[Top.at].what < Targets)
  <2>1. Fail
    BY <1>5 DEF ResolveRef
  <2>2. ~WellFormed(m)
    <3>1. PICK r \in 1..Len(m.refs) : TopSteps[Top.at].what = m.refs[r]
      BY <1>2 DEF ResolvesNext, TopSteps
    <3>2. m.kind \in {"layout", "array"}
      BY <1>2 DEF ResolvesNext
    <3> QED BY <1>5, <3>1, <3>2 DEF WellFormed, Resolved
  <2>3. InTree(Top.node)
    BY <1>1, TopOwes
  <2>4. owed[d] \in TreesOf(graph)
    <3>1. Owed(Top, d) \in TreesOf(graph)
      BY <1>1, TopOwes, OwedType
    <3> QED BY <1>3, <3>1, ThenType DEF TreesOf
  <2>5. ~Acceptable(graph)
    BY <1>3, <2>2, <2>3, <2>4, MalformedSoFar
  <2> QED BY <1>1, <2>1, <2>5, FailsRightly
<1> QED BY <1>4, <1>5

LEMMA CopyTextAhead == ASSUME IInv, AheadInv, CopyText PROVE AheadInv'
<1> DEFINE d == Len(stack)
           cost == TextCost(TopSteps[Top.at].what)
           next == Advanced[d]
           less == Owed(next, d)
<1>1. /\ status = "parsing" /\ Top.at <= Len(TopSteps) /\ TopSteps[Top.at].do = "copy"
      /\ UNCHANGED <<graph, out>>
  BY DEF CopyText, Doing
<1>2. CopiesNext(graph[Top.node], Top.at) /\ Top.at \in 1..Len(TopSteps) /\ StepResolved(TopSteps[Top.at])
  BY <1>1, TopCounts DEF StepResolved
<1>3. CallFacts(Top, d)
  BY <1>1, TopOwes
<1>4. PICK owed : /\ Owing(stack, owed)
                  /\ owed[d - 1] \in TreesOf(graph)
                  /\ owed[d] = Then(Owed(Top, d), owed[d - 1])
                  /\ Balanced(owed[d])
  BY <1>1, TopOwes
<1>5. next.node = Top.node /\ next.at = Top.at + 1 /\ less \in TreesOf(graph)
  BY <1>1, <1>2, <1>4, AdvancedOwes
<1>6. Owed(Top, d).tables = less.tables /\ Owed(Top, d).cost = cost + less.cost
  <2>1. /\ Top.at <= Len(Steps(graph[Top.node]))
        /\ cost = TextCost(Steps(graph[Top.node])[Top.at].what)
    BY <1>1 DEF TopSteps
  <2> HIDE DEF d, next, cost
  <2> QED BY <1>2, <1>3, <1>5, <2>1, OwedAtCopy
<1>7. cost \in Nat
  <2>1. TopSteps[Top.at] \in Step
    BY <1>2, TopFacts, <1>1
  <2> QED BY <2>1 DEF Step, TextCost
<1>8. less.cost \in Nat
  <2> HIDE DEF less
  <2> QED BY <1>5 DEF TreesOf, TreesOver
<1> DEFINE before == owed[d - 1]
           all == owed[d]
           rest == Then(less, before)
           owing == Owed(Top, d)
<1>9. before.cost \in Nat
  <2> HIDE DEF before
  <2> QED BY <1>4 DEF TreesOf, TreesOver, before
<1>10. budget \in Nat
  BY <1>1 DEF IInv, TypeInv, TypeOK, BudgetInv
<1>11. all = Then(owing, before) /\ Balanced(all)
  BY <1>4
<1> HIDE DEF cost, less, before, owing
<1>12. all.tables = rest.tables /\ all.cost = cost + rest.cost /\ rest.cost \in Nat
  <2>1. rest.tables = less.tables \o before.tables /\ rest.cost = less.cost + before.cost
    BY DEF Then
  <2>2. Then(owing, before).tables = owing.tables \o before.tables
    BY DEF Then
  <2>3. Then(owing, before).cost = owing.cost + before.cost
    BY DEF Then
  <2>4. owing.tables = less.tables /\ owing.cost = cost + less.cost
    BY <1>6 DEF owing
  <2>5. (cost + less.cost) + before.cost = cost + (less.cost + before.cost)
    BY <1>7, <1>8, <1>9
  <2>6. less.cost + before.cost \in Nat
    BY <1>8, <1>9
  <2> HIDE DEF rest, all
  <2> QED BY <1>11, <2>1, <2>2, <2>3, <2>4, <2>5, <2>6
<1>13. rest = Then(Owed(Advanced[d], d), owed[d - 1])
  BY DEF less, before
<1> HIDE DEF all, rest
<1>14. CASE cost <= budget
  <2>1. budget' = budget - cost /\ stack' = Advanced /\ status' = status
    BY <1>14 DEF CopyText, cost
  <2>2. out \o rest.tables = Tree(graph).tables
    BY <1>11, <1>12 DEF Balanced
  <2>3. (MaxNodes - budget') + rest.cost = Tree(graph).cost
    <3>1. (MaxNodes - budget) + all.cost = Tree(graph).cost
      BY <1>11 DEF Balanced
    <3>2. (MaxNodes - (budget - cost)) + rest.cost = (MaxNodes - budget) + (cost + rest.cost)
      BY <1>7, <1>10, <1>12, WalkAssumption
    <3> QED BY <1>12, <2>1, <3>1, <3>2
  <2> QED BY <1>1, <1>2, <1>4, <1>13, <2>1, <2>2, <2>3, AdvanceAhead
<1>15. CASE ~(cost <= budget)
  <2>1. Fail
    BY <1>15 DEF CopyText, cost
  <2>2. all.cost \in Nat /\ budget < all.cost
    BY <1>7, <1>10, <1>12, <1>15
  <2>3. ~Acceptable(graph)
    BY <1>10, <1>11, <2>2, Overspent
  <2> QED BY <1>1, <2>1, <2>3, FailsRightly
<1> QED BY <1>14, <1>15

\* A call that returns owes nothing.
LEMMA ReturnAhead == ASSUME IInv, AheadInv, Return PROVE AheadInv'
<1> DEFINE d == Len(stack)
           e == d - 1
<1>1. /\ status = "parsing" /\ Top.at > Len(TopSteps) /\ stack' = SubSeq(stack, 1, d - 1)
      /\ status' \in {"parsing", "parsed"} /\ UNCHANGED <<graph, budget, out>>
  BY DEF Return, RootCall
<1>2. stack \in Seq(Frame) /\ d \in Nat \ {0} /\ e \in Nat /\ e <= d /\ e + 1 = d
  <2>1. stack \in Seq(Frame) /\ d \in Nat \ {0}
    BY <1>1, StackFacts
  <2> HIDE DEF d
  <2> QED BY <2>1
<1>3. Len(stack') = e /\ \A j \in 1..e : stack'[j] = stack[j] /\ j \in 1..d
  <2>1. stack' = SubSeq(stack, 1, e)
    BY <1>1
  <2> HIDE DEF e, Frame
  <2> QED BY <1>2, <2>1
<1>4. PICK owed : /\ Owing(stack, owed)
                  /\ owed[e] \in TreesOf(graph)
                  /\ owed[d] = Then(Owed(Top, d), owed[e])
                  /\ Balanced(owed[d])
  BY <1>1, TopOwes
<1>5. Owed(Top, d) = None
  <2>1. CallFacts(Top, d) /\ Top.at <= Len(TopSteps) + 1
    BY <1>1, TopOwes
  <2>2. Top.at = Len(Steps(graph[Top.node])) + 1
    <3>1. Len(TopSteps) \in Nat /\ Top.at \in Nat
      <4>1. Len(TopSteps) \in Nat
        BY <1>1, TopFacts
      <4> QED BY <1>1, <4>1, TopFacts DEF Frame
    <3> QED BY <1>1, <2>1, <3>1 DEF TopSteps
  <2> HIDE DEF d
  <2> QED BY <2>1, <2>2, OwedAtEnd
<1>6. owed[d] = owed[e]
  BY <1>4, <1>5, ThenNone DEF TreesOf
<1>7. PICK new : Owing(stack', new) /\ new[e] = owed[e]
  <2> HIDE DEF e
  <2> QED BY <1>2, <1>3, <1>4, OwingKept
<1>8. Owing(stack, new)'
  BY <1>1, <1>7, SameOwing
<1>9. Balanced(new[Len(stack)])'
  BY <1>1, <1>3, <1>4, <1>6, <1>7 DEF Balanced
<1>10. \A x : InTree(x) => InTree(x)'
  BY <1>1 DEF InTree
<1>11. \A j \in 1..Len(stack') : InOrder(stack[j])'
  <2> SUFFICES ASSUME NEW j \in 1..Len(stack') PROVE InOrder(stack[j])'
    OBVIOUS
  <2>1. stack'[j] = stack[j] /\ j \in 1..d
    BY <1>3
  <2>2. InOrder(stack[j])
    BY <2>1 DEF AheadInv, InOrder
  <2> QED BY <1>1, <1>10, <2>1, <2>2 DEF InOrder
<1>12. \A i \in 1..Len(out') : Readable(graph[out[i].node])'
  BY <1>1 DEF AheadInv
<1> QED BY <1>1, <1>8, <1>9, <1>11, <1>12 DEF AheadInv, InOrder

LEMMA InitAhead == ASSUME Init PROVE AheadInv
<1>1. stack = <<>> /\ out = <<>> /\ 1..Len(stack) = {} /\ 1..Len(out) = {}
  BY DEF Init
<1> QED BY <1>1 DEF Init, AheadInv

LEMMA AheadInductive == ASSUME IInv, AheadInv, [Next]_vars PROVE AheadInv'
<1>1. CASE UNCHANGED vars
  BY <1>1 DEF vars, AheadInv, InTree, Owing, Owed, Balanced
<1> QED BY <1>1, StartAhead, ParseChildAhead, ResolveRefAhead, CopyTextAhead, ReturnAhead DEF Next

\* A call that ends well has made the whole tree, and the tree is acceptable.
LEMMA EndsRightly == ASSUME IInv, AheadInv PROVE ParsesTheUnfolding
<1>1. CASE status = "parsed"
  <2>1. stack = <<>> /\ budget \in Nat /\ out \in Seq(Entry)
    BY <1>1 DEF IInv, ProgressInv, BudgetInv, TypeInv, TypeOK, Entry
  <2>2. PICK owed : Owing(stack, owed) /\ Balanced(owed[Len(stack)])
    BY <1>1 DEF AheadInv
  <2>3. Balanced(None)
    BY <2>1, <2>2 DEF Owing
  <2>4. out = Tree(graph).tables /\ Tree(graph).cost = MaxNodes - budget
    <3>1. out \o <<>> = Tree(graph).tables /\ (MaxNodes - budget) + 0 = Tree(graph).cost
      BY <2>3 DEF Balanced, None
    <3>2. out \o <<>> = out
      <4> HIDE DEF Entry
      <4> QED BY <2>1
    <3> QED BY <2>1, <3>1, <3>2, WalkAssumption
  <2>5. Tree(graph).cost <= MaxNodes
    BY <2>1, <2>4, WalkAssumption
  <2>6. \A i \in 1..Len(out) : WellFormed(graph[out[i].node])
    BY <1>1 DEF IInv, ProgressInv, Accounted, AheadInv, Readable, WellFormed
  <2> QED BY <1>1, <2>4, <2>5, <2>6 DEF ParsesTheUnfolding, Acceptable
<1>2. CASE status # "parsed"
  BY <1>2 DEF AheadInv, ParsesTheUnfolding, Ended
<1> QED BY <1>1, <1>2

(* Parsing succeeds exactly for a graph that unfolds to a tree within the   *)
(* limits, and the tree it makes is that unfolding (parseLayout, parseType, *)
(* parseNode): for every graph, cyclic or shared, and all limits.           *)
THEOREM ParsesUnfoldings == Spec => []ParsesTheUnfolding
<1>1. Init => AheadInv
  BY InitAhead
<1>2. IInv /\ AheadInv /\ [Next]_vars => AheadInv'
  BY AheadInductive
<1>3. IInv /\ AheadInv => ParsesTheUnfolding
  BY EndsRightly
<1> QED BY <1>1, <1>2, <1>3, Invariance, PTL DEF Spec
=============================================================================
