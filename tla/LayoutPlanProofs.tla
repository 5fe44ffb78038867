-------------------------- MODULE LayoutPlanProofs --------------------------
(***************************************************************************)
(* For every layout tree a file may hold: the plan of a column tiles the   *)
(* rows, so that a scan of it may assume so; every row is read where the   *)
(* tree puts it, its zones are those above it; and a column is refused     *)
(* exactly when its tree is not a good one.                                *)
(*                                                                         *)
(* What the recursive functions of the model compute is shown by induction *)
(* on the place of a layout in its tree: children come before parents.     *)
(* In order: induction; the recursive functions exist; what each kind of   *)
(* layout makes of the plans of its children (ChunkedIs, ZonedIs, DictIs,  *)
(* StructIs); the rows a plan covers; the columns that get one; the place  *)
(* of a row; and the theorems, from the invariant that a reader's plans    *)
(* are those of its columns.                                               *)
(***************************************************************************)
EXTENDS LayoutPlan, FiniteSetTheorems, WellFoundedInduction, TLAPS

-----------------------------------------------------------------------------
(* Induction, from the order of numbers: a set without its least element   *)
(* has none.                                                               *)

LEMMA LeastOf ==
  ASSUME NEW T \in SUBSET Nat, T # {}
  PROVE  \E n \in T : \A m \in T : n <= m
<1> DEFINE R == OpToRel(<, Nat)
<1>1. IsWellFoundedOn(R, Nat)
  BY NatLessThanWellFounded
<1>2. \E n \in T : \A m \in T : ~(<<m, n>> \in R)
  <2> HIDE DEF R
  <2> QED BY <1>1, WFMin
<1>3. \A m, n \in Nat : <<m, n>> \in R <=> m < n
  BY DEF OpToRel
<1> HIDE DEF R
<1>4. PICK n \in T : \A m \in T : ~(<<m, n>> \in R)
  BY <1>2
<1>5. \A m \in T : ~(m < n)
  BY <1>3, <1>4
<1> QED BY <1>5

LEMMA Induct ==
  ASSUME NEW S \in SUBSET Nat, 0 \in S, \A n \in S : n + 1 \in S
  PROVE  S = Nat
<1> SUFFICES ASSUME S # Nat PROVE FALSE
  OBVIOUS
<1>1. Nat \ S # {}
  OBVIOUS
<1>2. PICK n \in Nat \ S : \A m \in Nat \ S : n <= m
  BY <1>1, LeastOf
<1>3. n # 0 /\ n - 1 \in S
  BY <1>2
<1> QED BY <1>2, <1>3

\* A set of numbers that holds n when it holds all below n.
LEMMA InductBelow ==
  ASSUME NEW S \in SUBSET Nat, \A n \in Nat : (\A m \in 0..(n - 1) : m \in S) => n \in S
  PROVE  S = Nat
<1> SUFFICES ASSUME S # Nat PROVE FALSE
  OBVIOUS
<1>1. Nat \ S # {}
  OBVIOUS
<1>2. PICK n \in Nat \ S : \A m \in Nat \ S : n <= m
  BY <1>1, LeastOf
<1>3. \A m \in 0..(n - 1) : m \in S
  BY <1>2
<1> QED BY <1>2, <1>3

-----------------------------------------------------------------------------
(* Trees.                                                                  *)

LEMMA TreeFacts ==
  ASSUME NEW t \in Trees
  PROVE  /\ Len(t) \in Nat \ {0}
         /\ \A n \in 1..Len(t) :
              /\ t[n].rows \in 0..(Half - 1) /\ t[n].zoneLen \in Nat
              /\ Len(t[n].children) \in Nat
              /\ \A i \in 1..Len(t[n].children) :
                   t[n].children[i] \in 1..(n - 1) /\ t[n].children[i] \in 1..Len(t)
<1>1. Len(t) \in Nat \ {0}
  BY TreesAssumption
<1>2. ASSUME NEW n \in 1..Len(t)
      PROVE  /\ t[n].rows \in 0..(Half - 1) /\ t[n].zoneLen \in Nat
             /\ t[n].children \in Seq(1..(n - 1))
  BY TreesAssumption
<1>3. ASSUME NEW n \in 1..Len(t), NEW i \in 1..Len(t[n].children)
      PROVE  t[n].children[i] \in 1..(n - 1)
  BY <1>2
<1>4. ASSUME NEW n \in 1..Len(t), NEW c \in 1..(n - 1)
      PROVE  c \in 1..Len(t)
  BY <1>1
<1>5. ASSUME NEW n \in 1..Len(t) PROVE Len(t[n].children) \in Nat
  BY <1>2
<1> QED BY <1>1, <1>2, <1>3, <1>4, <1>5

\* Numbers that an int64 holds are themselves.
LEMMA Int64Of ==
  ASSUME NEW n \in (-Half)..(Half - 1)
  PROVE  Int64(n) = n
<1>1. (n + Half) % (2 * Half) = n + Half
  <2> DEFINE a == n + Half
             b == 2 * Half
  <2>1. a \in Nat /\ b \in Nat /\ b > 0 /\ a < b
    BY HalfAssumption
  <2> HIDE DEF a, b
  <2>2. a % b = a
    BY <2>1
  <2> QED BY <2>2 DEF a, b
<1> QED BY <1>1, HalfAssumption DEF Int64

-----------------------------------------------------------------------------
(* The recursive functions exist: what each gives is its definition.       *)

IsChunks(f, t, l, start, build, n) ==
  f = [k \in 0..n |-> IF k = 0 THEN [plan |-> NoPlan, offset |-> start]
                      ELSE Chunk(t, l, start, l.children[k], f[k - 1], build)]

LEMMA ChunksExist ==
  ASSUME NEW t, NEW l, NEW start, NEW build, NEW n \in Nat
  PROVE  \E f : IsChunks(f, t, l, start, build, n)
<1> DEFINE S == {k \in Nat : \E f : IsChunks(f, t, l, start, build, k)}
           first == [plan |-> NoPlan, offset |-> start]
<1>1. 0 \in S
  <2> DEFINE f == [k \in 0..0 |-> first]
  <2>1. f = [k \in 0..0 |-> IF k = 0 THEN first
                            ELSE Chunk(t, l, start, l.children[k], f[k - 1], build)]
    OBVIOUS
  <2> HIDE DEF f
  <2> QED BY <2>1 DEF IsChunks
<1>2. ASSUME NEW k \in S PROVE k + 1 \in S
  <2>1. PICK f : IsChunks(f, t, l, start, build, k)
    OBVIOUS
  <2> DEFINE new == Chunk(t, l, start, l.children[k + 1], f[k], build)
             g == [i \in 0..(k + 1) |-> IF i = k + 1 THEN new ELSE f[i]]
  <2>2. ASSUME NEW i \in 0..(k + 1)
        PROVE  g[i] = IF i = 0 THEN first
                      ELSE Chunk(t, l, start, l.children[i], g[i - 1], build)
    <3> HIDE DEF first
    <3>1. CASE i = k + 1
      BY <3>1
    <3>2. CASE i # k + 1
      <4>1. f[i] = IF i = 0 THEN first
                   ELSE Chunk(t, l, start, l.children[i], f[i - 1], build)
        BY <2>1, <3>2 DEF IsChunks, first
      <4> QED BY <3>2, <4>1
    <3> QED BY <3>1, <3>2
  <2>3. g = [i \in 0..(k + 1) |-> g[i]]
    OBVIOUS
  <2> HIDE DEF g
  <2>4. IsChunks(g, t, l, start, build, k + 1)
    BY <2>2, <2>3 DEF IsChunks
  <2> QED BY <2>4
<1> HIDE DEF S
<1>3. S = Nat
  BY <1>1, <1>2, Induct, S \in SUBSET Nat DEF S
<1> QED BY <1>3 DEF S

\* The plans after each chunk, and the last of them.
After(f, t, l, start, build) ==
  /\ f[0] = [plan |-> NoPlan, offset |-> start]
  /\ \A k \in 1..Len(l.children) :
       f[k] = Chunk(t, l, start, l.children[k], f[k - 1], build)
  /\ Chunks(t, l, start, build) = f[Len(l.children)]

LEMMA ChunksAre ==
  ASSUME NEW t, NEW l, NEW start, NEW build, Len(l.children) \in Nat
  PROVE  \E f : After(f, t, l, start, build)
<1> DEFINE n == Len(l.children)
           g == CHOOSE f : f = [k \in 0..n |->
                  IF k = 0 THEN [plan |-> NoPlan, offset |-> start]
                  ELSE Chunk(t, l, start, l.children[k], f[k - 1], build)]
<1>1. Chunks(t, l, start, build) = g[n]
  BY DEF Chunks
<1>2. IsChunks(g, t, l, start, build, n)
  <2>1. \E f : IsChunks(f, t, l, start, build, n)
    BY ChunksExist
  <2>2. \E f : f = [k \in 0..n |->
                  IF k = 0 THEN [plan |-> NoPlan, offset |-> start]
                  ELSE Chunk(t, l, start, l.children[k], f[k - 1], build)]
    BY <2>1 DEF IsChunks
  <2> QED BY <2>2 DEF IsChunks
<1> HIDE DEF g
<1>3. g[0] = [plan |-> NoPlan, offset |-> start]
  BY <1>2 DEF IsChunks
<1>4. ASSUME NEW k \in 1..n
      PROVE  g[k] = Chunk(t, l, start, l.children[k], g[k - 1], build)
  BY <1>2 DEF IsChunks
<1> QED BY <1>1, <1>3, <1>4 DEF After

\* A chunked plan only asks for the plans of its children.
LEMMA ChunkedAgree ==
  ASSUME NEW t, NEW l, NEW start, NEW f, NEW g, Len(l.children) \in Nat,
         \A i \in 1..Len(l.children) : f[l.children[i]] = g[l.children[i]]
  PROVE  ChunkedPlan(t, l, start, f) = ChunkedPlan(t, l, start, g)
<1> DEFINE n == Len(l.children)
<1>1. PICK a : After(a, t, l, start, f)
  BY ChunksAre
<1>2. PICK b : After(b, t, l, start, g)
  BY ChunksAre
<1>3. ASSUME NEW k \in 1..n, NEW done
      PROVE  Chunk(t, l, start, l.children[k], done, f) = Chunk(t, l, start, l.children[k], done, g)
  BY DEF Chunk
<1> DEFINE S == {k \in Nat : k <= n => a[k] = b[k]}
<1>4. 0 \in S
  BY <1>1, <1>2 DEF After
<1>5. ASSUME NEW k \in S PROVE k + 1 \in S
  <2> SUFFICES ASSUME k + 1 <= n PROVE a[k + 1] = b[k + 1]
    OBVIOUS
  <2>1. k + 1 \in 1..n /\ a[k] = b[k] /\ (k + 1) - 1 = k
    OBVIOUS
  <2>2. a[k + 1] = Chunk(t, l, start, l.children[k + 1], a[k], f)
    BY <1>1, <2>1 DEF After
  <2>3. b[k + 1] = Chunk(t, l, start, l.children[k + 1], b[k], g)
    BY <1>2, <2>1 DEF After
  <2> QED BY <1>3, <2>1, <2>2, <2>3
<1> HIDE DEF S
<1>6. S = Nat
  BY <1>4, <1>5, Induct, S \in SUBSET Nat DEF S
<1>7. a[n] = b[n]
  BY <1>6 DEF S
<1> QED BY <1>1, <1>2, <1>7 DEF ChunkedPlan, After

LEMMA ScalarAgree ==
  ASSUME NEW t \in Trees, NEW n \in 1..Len(t), NEW start, NEW f, NEW g,
         \A c \in 1..(n - 1) : f[c] = g[c]
  PROVE  ScalarPlan(t, n, start, f) = ScalarPlan(t, n, start, g)
<1> DEFINE l == t[n]
<1>1. /\ Len(l.children) \in Nat
      /\ \A i \in 1..Len(l.children) : f[l.children[i]] = g[l.children[i]]
  BY TreeFacts
<1>2. ChunkedPlan(t, l, start, f) = ChunkedPlan(t, l, start, g)
  BY <1>1, ChunkedAgree
<1>3. Len(l.children) = 2 => /\ f[l.children[1]] = g[l.children[1]]
                             /\ f[l.children[2]] = g[l.children[2]]
  BY <1>1
<1> QED BY <1>2, <1>3 DEF ScalarPlan, TwoChildren

LEMMA FieldAgree ==
  ASSUME NEW t \in Trees, NEW n \in 1..Len(t), NEW start, NEW field, NEW f, NEW g,
         \A c \in 1..(n - 1) : f[c] = g[c]
  PROVE  FieldPlan(t, n, start, field, f) = FieldPlan(t, n, start, field, g)
<1> DEFINE l == t[n]
<1>1. /\ Len(l.children) \in Nat
      /\ \A i \in 1..Len(l.children) : f[l.children[i]] = g[l.children[i]]
  BY TreeFacts
<1>2. ChunkedPlan(t, l, start, f) = ChunkedPlan(t, l, start, g)
  BY <1>1, ChunkedAgree
<1> QED BY <1>2 DEF FieldPlan

IsScalar(f, t, m) ==
  f = [n \in 1..m |-> [start \in Int |-> ScalarPlan(t, n, start, f)]]

LEMMA ScalarExists ==
  ASSUME NEW t \in Trees, NEW m \in 0..Len(t)
  PROVE  \E f : IsScalar(f, t, m)
<1> DEFINE S == {k \in Nat : k <= Len(t) => \E f : IsScalar(f, t, k)}
<1>0. Len(t) \in Nat
  BY TreeFacts
<1>1. 0 \in S
  <2> DEFINE f == [n \in 1..0 |-> 0]
  <2>1. f = [n \in 1..0 |-> [start \in Int |-> ScalarPlan(t, n, start, f)]]
    OBVIOUS
  <2> HIDE DEF f
  <2> QED BY <2>1 DEF IsScalar
<1>2. ASSUME NEW k \in S PROVE k + 1 \in S
  <2> SUFFICES ASSUME k + 1 <= Len(t) PROVE \E f : IsScalar(f, t, k + 1)
    OBVIOUS
  <2>1. PICK f : IsScalar(f, t, k)
    BY <1>0
  <2> DEFINE g == [n \in 1..(k + 1) |-> IF n = k + 1
                                        THEN [start \in Int |-> ScalarPlan(t, n, start, f)]
                                        ELSE f[n]]
  <2>2. ASSUME NEW n \in 1..(k + 1)
        PROVE  g[n] = [start \in Int |-> ScalarPlan(t, n, start, g)]
    <3>1. n \in 1..Len(t) /\ \A c \in 1..(n - 1) : f[c] = g[c]
      BY <1>0
    <3> HIDE DEF g
    <3>2. ASSUME NEW start \in Int PROVE ScalarPlan(t, n, start, f) = ScalarPlan(t, n, start, g)
      BY <3>1, ScalarAgree
    <3>3. g[n] = [start \in Int |-> ScalarPlan(t, n, start, f)]
      <4>1. CASE n = k + 1
        BY <4>1 DEF g
      <4>2. CASE n # k + 1
        <5>1. n \in 1..k /\ g[n] = f[n]
          BY <4>2 DEF g
        <5> QED BY <2>1, <5>1 DEF IsScalar
      <4> QED BY <4>1, <4>2
    <3> QED BY <3>2, <3>3
  <2>3. g = [n \in 1..(k + 1) |-> g[n]]
    OBVIOUS
  <2> HIDE DEF g
  <2>4. IsScalar(g, t, k + 1)
    BY <2>2, <2>3 DEF IsScalar
  <2> QED BY <2>4
<1> HIDE DEF S
<1>3. S = Nat
  BY <1>1, <1>2, Induct, S \in SUBSET Nat DEF S
<1> QED BY <1>0, <1>3 DEF S

LEMMA ScalarIs ==
  ASSUME NEW t \in Trees, NEW n \in 1..Len(t), NEW start \in Int
  PROVE  ScalarPlans(t)[n][start] = ScalarPlan(t, n, start, ScalarPlans(t))
<1> DEFINE g == CHOOSE f : f = [k \in 1..Len(t) |-> [s \in Int |-> ScalarPlan(t, k, s, f)]]
<1>1. ScalarPlans(t) = g
  BY DEF ScalarPlans
<1>2. IsScalar(g, t, Len(t))
  <2>1. Len(t) \in 0..Len(t)
    BY TreeFacts
  <2>2. \E f : IsScalar(f, t, Len(t))
    BY <2>1, ScalarExists
  <2>3. \E f : f = [k \in 1..Len(t) |-> [s \in Int |-> ScalarPlan(t, k, s, f)]]
    BY <2>2 DEF IsScalar
  <2> QED BY <2>3 DEF IsScalar
<1> HIDE DEF g
<1>3. g[n][start] = ScalarPlan(t, n, start, g)
  BY <1>2 DEF IsScalar
<1> QED BY <1>1, <1>3

IsField(f, t, field, m) ==
  f = [n \in 1..m |-> [start \in Int |-> FieldPlan(t, n, start, field, f)]]

LEMMA FieldExists ==
  ASSUME NEW t \in Trees, NEW field, NEW m \in 0..Len(t)
  PROVE  \E f : IsField(f, t, field, m)
<1> DEFINE S == {k \in Nat : k <= Len(t) => \E f : IsField(f, t, field, k)}
<1>0. Len(t) \in Nat
  BY TreeFacts
<1>1. 0 \in S
  <2> DEFINE f == [n \in 1..0 |-> 0]
  <2>1. f = [n \in 1..0 |-> [start \in Int |-> FieldPlan(t, n, start, field, f)]]
    OBVIOUS
  <2> HIDE DEF f
  <2> QED BY <2>1 DEF IsField
<1>2. ASSUME NEW k \in S PROVE k + 1 \in S
  <2> SUFFICES ASSUME k + 1 <= Len(t) PROVE \E f : IsField(f, t, field, k + 1)
    OBVIOUS
  <2>1. PICK f : IsField(f, t, field, k)
    BY <1>0
  <2> DEFINE g == [n \in 1..(k + 1) |-> IF n = k + 1
                                        THEN [start \in Int |-> FieldPlan(t, n, start, field, f)]
                                        ELSE f[n]]
  <2>2. ASSUME NEW n \in 1..(k + 1)
        PROVE  g[n] = [start \in Int |-> FieldPlan(t, n, start, field, g)]
    <3>1. n \in 1..Len(t) /\ \A c \in 1..(n - 1) : f[c] = g[c]
      BY <1>0
    <3> HIDE DEF g
    <3>2. ASSUME NEW start \in Int PROVE FieldPlan(t, n, start, field, f) = FieldPlan(t, n, start, field, g)
      BY <3>1, FieldAgree
    <3>3. g[n] = [start \in Int |-> FieldPlan(t, n, start, field, f)]
      <4>1. CASE n = k + 1
        BY <4>1 DEF g
      <4>2. CASE n # k + 1
        <5>1. n \in 1..k /\ g[n] = f[n]
          BY <4>2 DEF g
        <5> QED BY <2>1, <5>1 DEF IsField
      <4> QED BY <4>1, <4>2
    <3> QED BY <3>2, <3>3
  <2>3. g = [n \in 1..(k + 1) |-> g[n]]
    OBVIOUS
  <2> HIDE DEF g
  <2>4. IsField(g, t, field, k + 1)
    BY <2>2, <2>3 DEF IsField
  <2> QED BY <2>4
<1> HIDE DEF S
<1>3. S = Nat
  BY <1>1, <1>2, Induct, S \in SUBSET Nat DEF S
<1> QED BY <1>0, <1>3 DEF S

LEMMA FieldIs ==
  ASSUME NEW t \in Trees, NEW field, NEW n \in 1..Len(t), NEW start \in Int
  PROVE  FieldPlans(t, field)[n][start] = FieldPlan(t, n, start, field, FieldPlans(t, field))
<1> DEFINE g == CHOOSE f : f = [k \in 1..Len(t) |-> [s \in Int |-> FieldPlan(t, k, s, field, f)]]
<1>1. FieldPlans(t, field) = g
  BY DEF FieldPlans
<1>2. IsField(g, t, field, Len(t))
  <2>1. Len(t) \in 0..Len(t)
    BY TreeFacts
  <2>2. \E f : IsField(f, t, field, Len(t))
    BY <2>1, FieldExists
  <2>3. \E f : f = [k \in 1..Len(t) |-> [s \in Int |-> FieldPlan(t, k, s, field, f)]]
    BY <2>2 DEF IsField
  <2> QED BY <2>3 DEF IsField
<1> HIDE DEF g
<1>3. g[n][start] = FieldPlan(t, n, start, field, g)
  BY <1>2 DEF IsField
<1> QED BY <1>1, <1>3

IsUpTo(f, t, l, n) == f = [i \in 0..n |-> IF i = 0 THEN 0 ELSE f[i - 1] + t[l.children[i]].rows]

LEMMA UpToExists ==
  ASSUME NEW t, NEW l, NEW n \in Nat
  PROVE  \E f : IsUpTo(f, t, l, n)
<1> DEFINE S == {k \in Nat : \E f : IsUpTo(f, t, l, k)}
<1>1. 0 \in S
  <2> DEFINE f == [i \in 0..0 |-> 0]
  <2>1. f = [i \in 0..0 |-> IF i = 0 THEN 0 ELSE f[i - 1] + t[l.children[i]].rows]
    OBVIOUS
  <2> HIDE DEF f
  <2> QED BY <2>1 DEF IsUpTo
<1>2. ASSUME NEW k \in S PROVE k + 1 \in S
  <2>1. PICK f : IsUpTo(f, t, l, k)
    OBVIOUS
  <2> DEFINE g == [i \in 0..(k + 1) |-> IF i = k + 1 THEN f[k] + t[l.children[k + 1]].rows ELSE f[i]]
  <2>2. ASSUME NEW i \in 0..(k + 1)
        PROVE  g[i] = IF i = 0 THEN 0 ELSE g[i - 1] + t[l.children[i]].rows
    <3>1. CASE i = k + 1
      BY <3>1
    <3>2. CASE i # k + 1
      <4>1. f[i] = IF i = 0 THEN 0 ELSE f[i - 1] + t[l.children[i]].rows
        BY <2>1, <3>2 DEF IsUpTo
      <4> QED BY <3>2, <4>1
    <3> QED BY <3>1, <3>2
  <2>3. g = [i \in 0..(k + 1) |-> g[i]]
    OBVIOUS
  <2> HIDE DEF g
  <2>4. IsUpTo(g, t, l, k + 1)
    BY <2>2, <2>3 DEF IsUpTo
  <2> QED BY <2>4
<1> HIDE DEF S
<1>3. S = Nat
  BY <1>1, <1>2, Induct, S \in SUBSET Nat DEF S
<1> QED BY <1>3 DEF S

\* Rows before each chunk: numbers, and more and more.
LEMMA BeforeIs ==
  ASSUME NEW t \in Trees, NEW n \in 1..Len(t)
  PROVE  LET l == t[n] IN
         /\ RowsBefore(t, l, 1) = 0
         /\ \A k \in 1..Len(l.children) :
              RowsBefore(t, l, k + 1) = RowsBefore(t, l, k) + t[l.children[k]].rows
         /\ \A k \in 1..(Len(l.children) + 1) : RowsBefore(t, l, k) \in Nat
         /\ \A k \in 1..(Len(l.children) + 1) : \A j \in 1..k :
              RowsBefore(t, l, j) <= RowsBefore(t, l, k)
<1> DEFINE l == t[n]
           m == Len(l.children)
           g == CHOOSE f : f = [i \in 0..m |->
                  IF i = 0 THEN 0 ELSE f[i - 1] + t[l.children[i]].rows]
<1>1. m \in Nat /\ \A i \in 1..m : t[l.children[i]].rows \in Nat
  BY TreeFacts
<1>2. \A k \in 1..(m + 1) : RowsBefore(t, l, k) = g[k - 1]
  BY DEF RowsBefore
<1>3. IsUpTo(g, t, l, m)
  <2>1. \E f : IsUpTo(f, t, l, m)
    BY <1>1, UpToExists
  <2>2. \E f : f = [i \in 0..m |-> IF i = 0 THEN 0 ELSE f[i - 1] + t[l.children[i]].rows]
    BY <2>1 DEF IsUpTo
  <2> QED BY <2>2 DEF IsUpTo
<1> HIDE DEF g
<1>4. g[0] = 0 /\ \A i \in 1..m : g[i] = g[i - 1] + t[l.children[i]].rows
  <2>1. \A i \in 0..m : g[i] = IF i = 0 THEN 0 ELSE g[i - 1] + t[l.children[i]].rows
    BY <1>3 DEF IsUpTo
  <2> QED BY <1>1, <2>1
<1> DEFINE S == {k \in Nat : k <= m => \A j \in 0..k : g[j] \in Nat /\ g[j] <= g[k]}
<1> HIDE DEF l, m
<1>5. 0 \in S
  BY <1>4
<1>6. ASSUME NEW k \in S PROVE k + 1 \in S
  <2> SUFFICES ASSUME k + 1 <= m, NEW j \in 0..(k + 1)
               PROVE  g[j] \in Nat /\ g[j] <= g[k + 1]
    OBVIOUS
  <2>1. \A i \in 0..k : g[i] \in Nat /\ g[i] <= g[k]
    BY <1>1
  <2>2. g[k + 1] = g[k] + t[l.children[k + 1]].rows /\ t[l.children[k + 1]].rows \in Nat
    BY <1>1, <1>4
  <2>3. g[k] \in Nat
    BY <2>1
  <2> QED BY <2>1, <2>2, <2>3
<1> HIDE DEF S
<1>7. S = Nat
  BY <1>5, <1>6, Induct, S \in SUBSET Nat DEF S
<1>8. ASSUME NEW k \in 0..m, NEW j \in 0..k
      PROVE  g[j] \in Nat /\ g[j] <= g[k]
  BY <1>1, <1>7, <1>8 DEF S
<1>9. RowsBefore(t, l, 1) = 0
  BY <1>1, <1>2, <1>4
<1>10. ASSUME NEW k \in 1..m
       PROVE  RowsBefore(t, l, k + 1) = RowsBefore(t, l, k) + t[l.children[k]].rows
  <2>1. RowsBefore(t, l, k + 1) = g[k] /\ RowsBefore(t, l, k) = g[k - 1]
    BY <1>1, <1>2
  <2> QED BY <1>4, <2>1
<1>11. ASSUME NEW k \in 1..(m + 1), NEW j \in 1..k
       PROVE  RowsBefore(t, l, j) \in Nat /\ RowsBefore(t, l, j) <= RowsBefore(t, l, k)
  <2>1. k - 1 \in 0..m /\ j - 1 \in 0..(k - 1) /\ j \in 1..(m + 1)
    BY <1>1
  <2>2. RowsBefore(t, l, j) = g[j - 1] /\ RowsBefore(t, l, k) = g[k - 1]
    BY <1>2, <2>1
  <2> QED BY <1>8, <2>1, <2>2
<1>12. \A k \in 1..(m + 1) : k \in 1..k
  BY <1>1
<1> QED BY <1>9, <1>10, <1>11, <1>12 DEF l, m

-----------------------------------------------------------------------------
(* A chunked plan is its children's, one after the other.                  *)

PieceType == [start : Int, end : Int, node : Nat, field : Nat, dict : Nat]
ZoneType == [start : Int, end : Int, len : Nat]
PlanType == [err : {"none", "invalid", "unsupported"}, pieces : Seq(PieceType),
             zones : Seq(ZoneType)]

\* A layout whose rows lie in an int64 when it starts there.
Room(t, n, start) == start \in Nat /\ start + t[n].rows < Half

\* The plan of chunk k.
Part(t, l, start, build, k) == build[l.children[k]][start + RowsBefore(t, l, k)]

\* The plans of the first chunks, appended.
Joined(f, t, l, start, build) ==
  /\ f[0] = NoPlan
  /\ \A k \in 0..Len(l.children) : f[k] \in PlanType /\ f[k].err = "none"
  /\ \A k \in 1..Len(l.children) :
       /\ f[k].pieces = f[k - 1].pieces \o Part(t, l, start, build, k).pieces
       /\ f[k].zones = f[k - 1].zones \o Part(t, l, start, build, k).zones

LEMMA AppendedType ==
  ASSUME NEW p \in PlanType, NEW q \in PlanType
  PROVE  /\ Appended(p, q) \in PlanType
         /\ Appended(p, q).err = q.err
         /\ q.err = "none" => /\ Appended(p, q).pieces = p.pieces \o q.pieces
                              /\ Appended(p, q).zones = p.zones \o q.zones
BY DEF Appended, Refused, PlanType

LEMMA RefusedType ==
  ASSUME NEW e \in {"none", "invalid", "unsupported"}
  PROVE  Refused(e) \in PlanType /\ Refused(e).err = e
BY DEF Refused, PlanType

LEMMA NoPlanType == NoPlan \in PlanType /\ NoPlan.err = "none" /\ NoPlan.pieces = <<>> /\ NoPlan.zones = <<>>
BY DEF NoPlan, PlanType

\* The plans of children are plans, wherever they start.
Typed(t, l, build) ==
  \A i \in 1..Len(l.children) : \A s \in Nat :
    Room(t, l.children[i], s) => build[l.children[i]][s] \in PlanType

\* What `new` is to the plans `done` of the chunks before chunk k.
Extends(new, t, n, start, k, done, build) ==
  /\ new.plan \in PlanType
  /\ new.plan.err = "none" <=> /\ done.plan.err = "none"
                               /\ RowsBefore(t, t[n], k + 1) <= t[n].rows
                               /\ Part(t, t[n], start, build, k).err = "none"
  /\ new.plan.err = "none" =>
       /\ new.offset = start + RowsBefore(t, t[n], k + 1)
       /\ new.plan.pieces = done.plan.pieces \o Part(t, t[n], start, build, k).pieces
       /\ new.plan.zones = done.plan.zones \o Part(t, t[n], start, build, k).zones

LEMMA ChunkIs ==
  ASSUME NEW t \in Trees, NEW n \in 1..Len(t), NEW start, Room(t, n, start), NEW build,
         Typed(t, t[n], build), NEW k \in 1..Len(t[n].children), NEW done,
         done.plan \in PlanType,
         done.plan.err = "none" => /\ done.offset = start + RowsBefore(t, t[n], k)
                                  /\ RowsBefore(t, t[n], k) <= t[n].rows
  PROVE  Extends(Chunk(t, t[n], start, t[n].children[k], done, build),
                 t, n, start, k, done, build)
<1> DEFINE l == t[n]
           c == l.children[k]
           new == Chunk(t, l, start, c, done, build)
           part == Part(t, l, start, build, k)
           before == RowsBefore(t, l, k)
           after == RowsBefore(t, l, k + 1)
           rows == l.rows
           more == t[c].rows
<1> SUFFICES Extends(new, t, n, start, k, done, build)
  OBVIOUS
<1>1. rows \in Nat /\ more \in Nat /\ Half \in Nat /\ start \in Nat /\ start + rows < Half
  <2>1. rows \in 0..(Half - 1) /\ more \in 0..(Half - 1)
    BY TreeFacts
  <2> QED BY <2>1, HalfAssumption DEF Room
<1>2. before \in Nat /\ after = before + more
  <2>1. Len(l.children) \in Nat
    BY TreeFacts
  <2>2. k \in 1..(Len(l.children) + 1)
    BY <2>1
  <2> QED BY <2>2, BeforeIs
<1>3. CASE done.plan.err # "none"
  <2>1. new = done
    BY <1>3 DEF Chunk
  <2> HIDE DEF new
  <2> QED BY <1>3, <2>1 DEF Extends
<1>4. CASE done.plan.err = "none"
  <2> DEFINE at == done.offset
  <2>1. at = start + before /\ before <= rows
    BY <1>4
  <2>2. Int64(at - start) = before /\ Int64(rows - before) = rows - before
    <3> HIDE DEF before, rows, at
    <3>1. at - start = before
      BY <1>1, <1>2, <2>1
    <3>2. before \in (-Half)..(Half - 1) /\ rows - before \in (-Half)..(Half - 1)
      BY <1>1, <1>2, <2>1
    <3> QED BY <3>1, <3>2, Int64Of
  <2>3. ChunkFits(t[c], l, Int64(at - start)) <=> after <= rows
    <3>1. ChunkFits(t[c], l, Int64(at - start)) <=> more <= rows - before
      BY <2>2 DEF ChunkFits
    <3> HIDE DEF before, after, rows, more
    <3>2. more <= rows - before <=> after <= rows
      BY <1>1, <1>2
    <3> QED BY <3>1, <3>2
  <2>4. CASE ~(after <= rows)
    <3>1. new = [plan |-> Refused("invalid"), offset |-> done.offset]
      BY <1>4, <2>3, <2>4 DEF Chunk
    <3>2. new.plan = Refused("invalid")
      BY <3>1
    <3> HIDE DEF new
    <3> QED BY <2>4, <3>2, RefusedType DEF Extends
  <2>5. CASE after <= rows
    <3>1. new = [plan |-> Appended(done.plan, build[c][at]), offset |-> Int64(at + more)]
      BY <1>4, <2>3, <2>5 DEF Chunk
    <3>2. build[c][at] = part
      BY <2>1 DEF Part
    <3>3. at \in Nat /\ at + more = start + after /\ start + after < Half
      <4> HIDE DEF before, after, rows, more, at
      <4> QED BY <1>1, <1>2, <2>1, <2>5
    <3>4. part \in PlanType
      <4>1. Room(t, c, at)
        <5>1. at + more < Half
          BY <3>3
        <5> QED BY <3>3, <5>1 DEF Room
      <4> QED BY <3>2, <3>3, <4>1 DEF Typed
    <3>5. Int64(at + more) = start + after
      <4>1. start + after \in (-Half)..(Half - 1)
        <5> HIDE DEF before, after, rows, more, at
        <5> QED BY <1>1, <3>3, <1>2, SMTT(30)
      <4> QED BY <3>3, <4>1, Int64Of
    <3>6. new.plan = Appended(done.plan, part) /\ new.offset = start + after
      BY <3>1, <3>2, <3>5
    <3> HIDE DEF new, part
    <3>7. /\ new.plan \in PlanType /\ new.plan.err = part.err
          /\ part.err = "none" => /\ new.plan.pieces = done.plan.pieces \o part.pieces
                                  /\ new.plan.zones = done.plan.zones \o part.zones
      <4> DEFINE p == done.plan
      <4>1. p \in PlanType /\ new.plan = Appended(p, part)
        BY <3>6
      <4> HIDE DEF p
      <4>2. /\ Appended(p, part) \in PlanType /\ Appended(p, part).err = part.err
            /\ part.err = "none" => /\ Appended(p, part).pieces = p.pieces \o part.pieces
                                    /\ Appended(p, part).zones = p.zones \o part.zones
        BY <3>4, <4>1, AppendedType
      <4> QED BY <4>1, <4>2 DEF p
    <3> QED BY <1>4, <2>5, <3>6, <3>7 DEF Extends, part
  <2> QED BY <2>4, <2>5
<1> QED BY <1>3, <1>4

\* The plan of a chunked layout, from those of its chunks.
IsChunked(plan, t, n, start, build) ==
  /\ plan \in PlanType
  /\ plan.err = "none" <=>
       /\ ChunksAddUp(t, t[n])
       /\ \A i \in 1..Len(t[n].children) : Part(t, t[n], start, build, i).err = "none"
  /\ plan.err = "none" =>
       \E f : Joined(f, t, t[n], start, build) /\ plan = f[Len(t[n].children)]

LEMMA ChunkedIs ==
  ASSUME NEW t \in Trees, NEW n \in 1..Len(t), NEW start, Room(t, n, start), NEW build,
         Typed(t, t[n], build)
  PROVE  IsChunked(ChunkedPlan(t, t[n], start, build), t, n, start, build)
<1> DEFINE l == t[n]
           m == Len(l.children)
           plan == ChunkedPlan(t, l, start, build)
           B(k) == RowsBefore(t, l, k)
           P(k) == Part(t, l, start, build, k)
<1>1. m \in Nat /\ l.rows \in 0..(Half - 1) /\ Half \in Nat /\ start \in Nat
  BY TreeFacts, HalfAssumption DEF Room
<1>2. /\ B(1) = 0
      /\ \A k \in 1..(m + 1) : B(k) \in Nat
      /\ \A k \in 1..(m + 1) : \A j \in 1..k : B(j) <= B(k)
  BY BeforeIs
<1>3. PICK a : After(a, t, l, start, build)
  BY <1>1, ChunksAre
<1> DEFINE Good(k) == \A i \in 1..k : B(i + 1) <= l.rows /\ P(i).err = "none"
           Step(k) == /\ a[k].plan \in PlanType
                      /\ a[k].plan.err = "none" <=> Good(k)
                      /\ a[k].plan.err = "none" => a[k].offset = start + B(k + 1)
           More(k) == a[k].plan.err = "none" =>
                        /\ a[k].plan.pieces = a[k - 1].plan.pieces \o P(k).pieces
                        /\ a[k].plan.zones = a[k - 1].plan.zones \o P(k).zones
<1>4. Step(0)
  <2>1. a[0] = [plan |-> NoPlan, offset |-> start]
    BY <1>3 DEF After
  <2>2. a[0].plan = NoPlan /\ a[0].offset = start
    BY <2>1
  <2>3. B(0 + 1) = 0
    BY <1>2
  <2>4. Good(0)
    OBVIOUS
  <2> HIDE DEF B, Good
  <2> QED BY <1>1, <2>2, <2>3, <2>4, NoPlanType
<1>5. ASSUME NEW k \in Nat, k + 1 <= m, Step(k)
      PROVE  Step(k + 1) /\ More(k + 1)
  <2> DEFINE done == a[k]
             new == Chunk(t, l, start, l.children[k + 1], done, build)
  <2>1. a[k + 1] = new
    <3>1. k + 1 \in 1..m /\ (k + 1) - 1 = k
      BY <1>1, <1>5, SMTT(30)
    <3> QED BY <1>3, <3>1 DEF After
  <2>2. /\ k + 1 \in 1..m /\ done.plan \in PlanType
        /\ done.plan.err = "none" => done.offset = start + B(k + 1) /\ B(k + 1) <= l.rows
    <3>1. k + 1 \in 1..m
      BY <1>1, <1>5
    <3>2. Good(k) => B(k + 1) <= l.rows
      <4>1. CASE k = 0
        BY <1>1, <1>2, <4>1
      <4>2. CASE k # 0
        <5>1. k \in 1..k
          BY <4>2
        <5> QED BY <5>1
      <4> QED BY <4>1, <4>2
    <3> QED BY <1>5, <3>1, <3>2
  <2>3. /\ new.plan \in PlanType
        /\ new.plan.err = "none" <=> /\ done.plan.err = "none"
                                     /\ B((k + 1) + 1) <= l.rows /\ P(k + 1).err = "none"
        /\ new.plan.err = "none" =>
             /\ new.offset = start + B((k + 1) + 1)
             /\ new.plan.pieces = done.plan.pieces \o P(k + 1).pieces
             /\ new.plan.zones = done.plan.zones \o P(k + 1).zones
    <3> DEFINE k1 == k + 1
    <3>1. k1 \in 1..m /\ done.plan \in PlanType
          /\ (done.plan.err = "none" => done.offset = start + B(k1) /\ B(k1) <= l.rows)
      BY <2>2
    <3> HIDE DEF done, k1
    <3>2. Extends(Chunk(t, l, start, l.children[k1], done, build), t, n, start, k1, done, build)
      BY <3>1, ChunkIs
    <3> QED BY <3>2 DEF k1, Extends
  <2>4. Good(k + 1) <=> Good(k) /\ B((k + 1) + 1) <= l.rows /\ P(k + 1).err = "none"
    <3>1. 1..(k + 1) = (1..k) \cup {k + 1}
      OBVIOUS
    <3> QED BY <3>1
  <2> HIDE DEF Good, B, P, new, l
  <2>5. (k + 1) - 1 = k
    OBVIOUS
  <2> QED BY <1>5, <2>1, <2>3, <2>4, <2>5
<1> HIDE DEF Step, More
<1> DEFINE S == {k \in Nat : k <= m => Step(k)}
<1>6. 0 \in S
  BY <1>4
<1>7. ASSUME NEW k \in S PROVE k + 1 \in S
  <2> SUFFICES ASSUME k + 1 <= m PROVE Step(k + 1)
    OBVIOUS
  <2>1. k <= m
    BY <1>1
  <2> QED BY <1>5, <2>1
<1> HIDE DEF S
<1>8. S = Nat
  BY <1>6, <1>7, Induct, S \in SUBSET Nat DEF S
<1>9. ASSUME NEW k \in 0..m PROVE Step(k)
  BY <1>1, <1>8 DEF S
<1>10. ASSUME NEW k \in 1..m PROVE More(k)
  <2>1. k - 1 \in Nat /\ (k - 1) + 1 = k /\ k - 1 \in 0..m
    BY <1>1
  <2>2. Step(k - 1)
    BY <1>9, <2>1
  <2>3. Step((k - 1) + 1) /\ More((k - 1) + 1)
    BY <1>5, <2>1, <2>2
  <2> QED BY <2>1, <2>3
<1>11. /\ a[m].plan \in PlanType
       /\ a[m].plan.err = "none" <=> Good(m)
       /\ a[m].plan.err = "none" => a[m].offset = start + B(m + 1)
  BY <1>1, <1>9 DEF Step
<1>12. Good(m) => B(m + 1) <= l.rows
  <2>1. CASE m = 0
    BY <1>1, <1>2, <2>1
  <2>2. CASE m # 0
    <3>1. m \in 1..m
      BY <1>1, <2>2
    <3> QED BY <3>1
  <2> QED BY <2>1, <2>2
<1>13. plan = IF a[m].plan.err # "none" \/ B(m + 1) = l.rows THEN a[m].plan ELSE Refused("invalid")
  <2>1. Chunks(t, l, start, build) = a[m]
    BY <1>3 DEF After
  <2>2. CASE a[m].plan.err # "none"
    BY <2>1, <2>2 DEF ChunkedPlan
  <2>3. CASE a[m].plan.err = "none"
    <3> DEFINE at == a[m].offset
               b == B(m + 1)
               rows == l.rows
    <3>1. at = start + b /\ b \in Nat /\ b <= rows /\ rows \in 0..(Half - 1)
      <4>1. m + 1 \in 1..(m + 1)
        BY <1>1
      <4> QED BY <1>1, <1>2, <1>11, <1>12, <2>3, <4>1
    <3>2. Int64(at - start) = b
      <4> HIDE DEF at, b, rows
      <4>1. at - start = b /\ b \in (-Half)..(Half - 1)
        BY <1>1, <3>1
      <4> QED BY <4>1, Int64Of
    <3>3. plan = IF SumExact(Int64(at - start), l) THEN a[m].plan ELSE Refused("invalid")
      BY <2>1, <2>3 DEF ChunkedPlan
    <3> QED BY <2>3, <3>2, <3>3 DEF SumExact
  <2> QED BY <2>2, <2>3
<1>14. ChunksAddUp(t, l) <=> B(m + 1) = l.rows
  BY DEF ChunksAddUp
<1>15. plan \in PlanType
  <2> HIDE DEF plan, Good, B
  <2> QED BY <1>11, <1>13, RefusedType
<1>16. plan.err = "none" <=> a[m].plan.err = "none" /\ ChunksAddUp(t, l)
  <2> HIDE DEF plan, Good, B
  <2> QED BY <1>13, <1>14, RefusedType
<1>17. plan.err = "none" <=> ChunksAddUp(t, l) /\ \A i \in 1..m : P(i).err = "none"
  <2>1. ASSUME ChunksAddUp(t, l), NEW i \in 1..m PROVE B(i + 1) <= l.rows
    <3>1. i + 1 \in 1..(m + 1) /\ m + 1 \in 1..(m + 1)
      BY <1>1
    <3>2. B(m + 1) = l.rows
      BY <1>14, <2>1
    <3> QED BY <1>2, <3>1, <3>2
  <2>2. ChunksAddUp(t, l) => (Good(m) <=> \A i \in 1..m : P(i).err = "none")
    <3> HIDE DEF B, P
    <3> QED BY <2>1
  <2> HIDE DEF plan, Good, B, P
  <2> QED BY <1>11, <1>16, <2>2
<1>18. ASSUME plan.err = "none"
       PROVE  \E f : Joined(f, t, l, start, build) /\ plan = f[m]
  <2> DEFINE f == [k \in 0..m |-> a[k].plan]
  <2>1. a[m].plan.err = "none" /\ plan = a[m].plan
    <3> HIDE DEF plan, B, Good
    <3> QED BY <1>13, <1>14, <1>16, <1>18
  <2>2. ASSUME NEW k \in 0..m PROVE a[k].plan \in PlanType /\ a[k].plan.err = "none"
    <3>1. \A i \in 1..k : i \in 1..m
      BY <1>1
    <3>2. Good(m)
      BY <1>11, <2>1
    <3>3. Good(k)
      BY <3>1, <3>2
    <3>4. Step(k)
      BY <1>9
    <3> HIDE DEF Good
    <3> QED BY <3>3, <3>4 DEF Step
  <2>3. f[0] = NoPlan
    <3>1. a[0] = [plan |-> NoPlan, offset |-> start]
      BY <1>3 DEF After
    <3>2. a[0].plan = NoPlan
      BY <3>1
    <3> QED BY <1>1, <3>2
  <2>4. \A k \in 0..m : f[k] \in PlanType /\ f[k].err = "none"
    BY <2>2
  <2>5. ASSUME NEW k \in 1..m
        PROVE  /\ f[k].pieces = f[k - 1].pieces \o P(k).pieces
               /\ f[k].zones = f[k - 1].zones \o P(k).zones
    <3>1. k \in 0..m /\ k - 1 \in 0..m
      BY <1>1
    <3>2. f[k] = a[k].plan /\ f[k - 1] = a[k - 1].plan
      BY <3>1
    <3> HIDE DEF f, P
    <3>3. a[k].plan.err = "none" /\ More(k)
      BY <1>10, <2>2, <3>1
    <3> QED BY <3>2, <3>3 DEF More
  <2>6. plan = f[m]
    BY <1>1, <2>1
  <2>7. Joined(f, t, l, start, build)
    <3> HIDE DEF f
    <3> QED BY <2>3, <2>4, <2>5 DEF Joined
  <2> HIDE DEF f, plan
  <2> QED BY <2>6, <2>7
<1> QED BY <1>15, <1>17, <1>18 DEF IsChunked

-----------------------------------------------------------------------------
(* What buildScalarPlan makes of the other layouts.                        *)

LEMMA LeafIs ==
  ASSUME NEW t \in Trees, NEW n \in 1..Len(t), NEW start, Room(t, n, start), NEW field \in Nat
  PROVE  /\ Leaf(t, n, start, field) \in PlanType
         /\ Leaf(t, n, start, field) =
              [err |-> "none",
               pieces |-> <<[start |-> start, end |-> start + t[n].rows, node |-> n,
                             field |-> field, dict |-> 0]>>,
               zones |-> <<>>]
<1>1. t[n].rows \in Nat /\ start \in Nat /\ start + t[n].rows < Half /\ Half \in Nat /\ n \in Nat
  BY TreeFacts, HalfAssumption DEF Room
<1>2. Int64(start + t[n].rows) = start + t[n].rows
  <2>1. start + t[n].rows \in (-Half)..(Half - 1)
    BY <1>1
  <2> QED BY <2>1, Int64Of
<1> DEFINE piece == [start |-> start, end |-> start + t[n].rows, node |-> n,
                     field |-> field, dict |-> 0]
<1>3. piece \in PieceType
  BY <1>1 DEF PieceType
<1>4. Leaf(t, n, start, field) = [err |-> "none", pieces |-> <<piece>>, zones |-> <<>>]
  BY <1>2 DEF Leaf, NoPlan
<1>5. [err |-> "none", pieces |-> <<piece>>, zones |-> <<>>] \in PlanType
  <2> HIDE DEF piece
  <2> QED BY <1>3 DEF PlanType
<1> QED BY <1>4, <1>5

\* A zone that is as long as the rows it lies over.
LEMMA ZoneIs ==
  ASSUME NEW t \in Trees, NEW n \in 1..Len(t), NEW start, Room(t, n, start)
  PROVE  /\ Zone(t, t[n], start) \in ZoneType
         /\ Zone(t, t[n], start).start = start
         /\ Zone(t, t[n], start).end = start + t[n].rows
<1>1. /\ t[n].rows \in Nat /\ start \in Nat /\ start + t[n].rows < Half /\ Half \in Nat
      /\ t[n].zoneLen \in Nat
  BY TreeFacts, HalfAssumption DEF Room
<1>2. Int64(start + t[n].rows) = start + t[n].rows
  <2>1. start + t[n].rows \in (-Half)..(Half - 1)
    BY <1>1
  <2> QED BY <2>1, Int64Of
<1> DEFINE len == UsableZoneLen(t[n].rows, t[n].zoneLen, t[n].zoneLen # 0,
                                t[t[n].children[2]].rows)
<1>3. len \in Nat
  BY <1>1 DEF UsableZoneLen
<1>4. Zone(t, t[n], start) = [start |-> start, end |-> start + t[n].rows, len |-> len]
  BY <1>2 DEF Zone
<1> HIDE DEF len
<1> QED BY <1>1, <1>3, <1>4 DEF ZoneType

\* The plan of a zoned layout, from that of its data.
IsZoned(plan, t, n, start, data) ==
  /\ plan \in PlanType
  /\ plan.err = "none" <=> TwoChildren(t, t[n], 1) /\ data.err = "none"
  /\ plan.err = "none" => /\ data \in PlanType
                          /\ plan.pieces = data.pieces
                          /\ plan.zones = <<Zone(t, t[n], start)>> \o data.zones

LEMMA ZonedIs ==
  ASSUME NEW t \in Trees, NEW n \in 1..Len(t), NEW start, Room(t, n, start), NEW build,
         Typed(t, t[n], build), t[n].id = "zoned"
  PROVE  IsZoned(ScalarPlan(t, n, start, build), t, n, start, build[t[n].children[1]][start])
<1> DEFINE l == t[n]
           plan == ScalarPlan(t, n, start, build)
           data == build[l.children[1]][start]
           zones == <<Zone(t, l, start)>>
           out == [NoPlan EXCEPT !.zones = zones]
<1> SUFFICES IsZoned(plan, t, n, start, data)
  OBVIOUS
<1>1. plan = IF ~TwoChildren(t, l, 1) THEN Refused("invalid") ELSE Appended(out, data)
  BY DEF ScalarPlan
<1>2. CASE ~TwoChildren(t, l, 1)
  <2>1. plan = Refused("invalid")
    BY <1>1, <1>2
  <2> HIDE DEF plan, data
  <2> QED BY <1>2, <2>1, RefusedType DEF IsZoned
<1>3. CASE TwoChildren(t, l, 1)
  <2>1. plan = Appended(out, data)
    BY <1>1, <1>3
  <2>2. data \in PlanType
    <3>1. 1 \in 1..Len(l.children) /\ t[l.children[1]].rows = l.rows
      BY <1>3 DEF TwoChildren
    <3>2. start \in Nat /\ Room(t, l.children[1], start)
      BY <3>1 DEF Room
    <3> QED BY <3>1, <3>2 DEF Typed
  <2>3. zones \in Seq(ZoneType)
    BY ZoneIs
  <2>4. out = [err |-> "none", pieces |-> <<>>, zones |-> zones]
    BY DEF NoPlan
  <2>5. out \in PlanType /\ out.pieces = <<>> /\ out.zones = zones
    <3> HIDE DEF zones, out
    <3> QED BY <2>3, <2>4 DEF PlanType
  <2> HIDE DEF out, data
  <2>6. /\ Appended(out, data) \in PlanType /\ Appended(out, data).err = data.err
        /\ data.err = "none" => /\ Appended(out, data).pieces = out.pieces \o data.pieces
                                /\ Appended(out, data).zones = out.zones \o data.zones
    BY <2>2, <2>5, AppendedType
  <2>7. <<>> \o data.pieces = data.pieces
    BY <2>2 DEF PlanType
  <2> HIDE DEF plan, zones
  <2>8. /\ plan \in PlanType /\ plan.err = data.err
        /\ data.err = "none" => plan.pieces = data.pieces /\ plan.zones = zones \o data.zones
    BY <2>1, <2>5, <2>6, <2>7
  <2> QED BY <1>3, <2>2, <2>8 DEF IsZoned, zones
<1> QED BY <1>2, <1>3

\* The plan of a dictionary, from that of its codes.
IsDict(plan, t, n, codes) ==
  /\ plan \in PlanType
  /\ plan.err = "none" <=>
       /\ TwoChildren(t, t[n], 2) /\ t[n].codeType /\ codes.err = "none"
       /\ \A i \in 1..Len(codes.pieces) : codes.pieces[i].dict = 0
  /\ plan.err = "none" =>
       /\ codes \in PlanType /\ plan.zones = <<>>
       /\ Len(plan.pieces) = Len(codes.pieces)
       /\ \A i \in 1..Len(codes.pieces) :
            plan.pieces[i] = [codes.pieces[i] EXCEPT !.dict = t[n].children[1]]

LEMMA DictIs ==
  ASSUME NEW t \in Trees, NEW n \in 1..Len(t), NEW start, Room(t, n, start), NEW build,
         Typed(t, t[n], build), t[n].id = "dict"
  PROVE  IsDict(ScalarPlan(t, n, start, build), t, n, build[t[n].children[2]][start])
<1> DEFINE l == t[n]
           plan == ScalarPlan(t, n, start, build)
           codes == build[l.children[2]][start]
           pieces == [i \in 1..Len(codes.pieces) |-> [codes.pieces[i] EXCEPT !.dict = l.children[1]]]
<1> SUFFICES IsDict(plan, t, n, codes)
  OBVIOUS
<1>1. CASE ~TwoChildren(t, l, 2) \/ ~l.codeType
  <2>1. plan = Refused("invalid")
    BY <1>1 DEF ScalarPlan
  <2> HIDE DEF plan, codes
  <2> QED BY <1>1, <2>1, RefusedType DEF IsDict
<1>2. CASE TwoChildren(t, l, 2) /\ l.codeType
  <2>1. 2 \in 1..Len(l.children) /\ 1 \in 1..Len(l.children) /\ t[l.children[2]].rows = l.rows
    BY <1>2 DEF TwoChildren
  <2>2. codes \in PlanType
    <3>1. start \in Nat /\ Room(t, l.children[2], start)
      BY <2>1 DEF Room
    <3> QED BY <2>1, <3>1 DEF Typed
  <2>3. l.children[1] \in Nat
    BY <2>1, TreeFacts
  <2>4. plan = IF codes.err # "none" THEN codes
               ELSE IF \E i \in 1..Len(codes.pieces) : codes.pieces[i].dict # 0
               THEN Refused("unsupported") ELSE WithDictionary(l, codes)
    BY <1>2 DEF ScalarPlan
  <2>5. codes = [err |-> codes.err, pieces |-> codes.pieces, zones |-> codes.zones]
    <3> HIDE DEF codes
    <3> QED BY <2>2 DEF PlanType
  <2>6. WithDictionary(l, codes) = [err |-> codes.err, pieces |-> pieces, zones |-> <<>>]
    <3>1. CodesWithZones(l, codes) = [codes EXCEPT !.pieces = pieces]
      BY DEF CodesWithZones
    <3> HIDE DEF codes, pieces
    <3>2. [codes EXCEPT !.pieces = pieces]
            = [err |-> codes.err, pieces |-> pieces, zones |-> codes.zones]
      BY <2>5
    <3> DEFINE w == CodesWithZones(l, codes)
               e == codes.err
               z == codes.zones
    <3>3. WithDictionary(l, codes) = [w EXCEPT !.zones = <<>>]
      BY DEF WithDictionary
    <3>4. w = [err |-> e, pieces |-> pieces, zones |-> z]
      BY <3>1, <3>2
    <3> HIDE DEF w, e, z
    <3>5. [w EXCEPT !.zones = <<>>] = [err |-> e, pieces |-> pieces, zones |-> <<>>]
      BY <3>4
    <3> QED BY <3>3, <3>5 DEF e
  <2>7. pieces \in Seq(PieceType) /\ Len(pieces) = Len(codes.pieces)
    <3> DEFINE ps == codes.pieces
    <3>1. ps \in Seq(PieceType)
      <4> HIDE DEF codes
      <4> QED BY <2>2 DEF PlanType
    <3> HIDE DEF codes
    <3>2. ASSUME NEW i \in 1..Len(ps) PROVE [ps[i] EXCEPT !.dict = l.children[1]] \in PieceType
      <4>1. ps[i] \in PieceType
        BY <3>1
      <4> HIDE DEF ps
      <4> QED BY <2>3, <4>1 DEF PieceType
    <3> HIDE DEF ps
    <3>3. Len(ps) \in Nat
      BY <3>1
    <3>4. pieces = [i \in 1..Len(ps) |-> [ps[i] EXCEPT !.dict = l.children[1]]]
      BY DEF ps
    <3> HIDE DEF pieces
    <3> QED BY <3>2, <3>3, <3>4 DEF ps
  <2>8. CASE codes.err # "none"
    <3>1. plan = codes
      BY <2>4, <2>8
    <3> HIDE DEF plan, codes
    <3> QED BY <1>2, <2>2, <2>8, <3>1 DEF IsDict
  <2>9. CASE codes.err = "none" /\ \E i \in 1..Len(codes.pieces) : codes.pieces[i].dict # 0
    <3>1. plan = Refused("unsupported")
      BY <2>4, <2>9
    <3> HIDE DEF plan, codes
    <3> QED BY <2>9, <3>1, RefusedType DEF IsDict
  <2>10. CASE codes.err = "none" /\ \A i \in 1..Len(codes.pieces) : codes.pieces[i].dict = 0
    <3>1. plan = [err |-> "none", pieces |-> pieces, zones |-> <<>>]
      BY <2>4, <2>6, <2>10
    <3>2. plan \in PlanType /\ plan.err = "none" /\ plan.pieces = pieces /\ plan.zones = <<>>
      <4> HIDE DEF plan, pieces
      <4> QED BY <2>7, <3>1 DEF PlanType
    <3>3. \A i \in 1..Len(codes.pieces) :
             pieces[i] = [codes.pieces[i] EXCEPT !.dict = l.children[1]]
      OBVIOUS
    <3> HIDE DEF plan, codes, pieces
    <3> QED BY <1>2, <2>2, <2>7, <2>10, <3>2, <3>3 DEF IsDict
  <2> QED BY <2>8, <2>9, <2>10
<1> QED BY <1>1, <1>2

Ids == {"flat", "chunked", "zoned", "dict"}

LEMMA OtherIs ==
  ASSUME NEW t, NEW n, NEW start, NEW build, t[n].id \notin Ids
  PROVE  ScalarPlan(t, n, start, build) = Refused("unsupported")
BY DEF ScalarPlan, Ids

-----------------------------------------------------------------------------
(* The plans of all layouts are plans.                                     *)

LEMMA TypedBelow ==
  ASSUME NEW t \in Trees, NEW n \in 1..Len(t), NEW build,
         \A c \in 1..(n - 1) : \A s \in Nat : Room(t, c, s) => build[c][s] \in PlanType
  PROVE  Typed(t, t[n], build)
BY TreeFacts DEF Typed

LEMMA ScalarTyped ==
  ASSUME NEW t \in Trees, NEW n \in 1..Len(t), NEW start \in Nat, Room(t, n, start)
  PROVE  ScalarPlans(t)[n][start] \in PlanType
<1> DEFINE build == ScalarPlans(t)
           S == {k \in Nat : k \in 1..Len(t) =>
                  \A s \in Nat : Room(t, k, s) => build[k][s] \in PlanType}
<1>1. ASSUME NEW k \in Nat, \A m \in 0..(k - 1) : m \in S PROVE k \in S
  <2> SUFFICES ASSUME k \in 1..Len(t), NEW s \in Nat, Room(t, k, s)
               PROVE  build[k][s] \in PlanType
    OBVIOUS
  <2>1. \A c \in 1..(k - 1) : \A r \in Nat : Room(t, c, r) => build[c][r] \in PlanType
    <3>1. ASSUME NEW c \in 1..(k - 1) PROVE c \in S /\ c \in 1..Len(t)
      BY <1>1, TreeFacts
    <3> QED BY <3>1
  <2>2. build[k][s] = ScalarPlan(t, k, s, build)
    BY ScalarIs
  <2> HIDE DEF build, S
  <2>3. Typed(t, t[k], build)
    BY <2>1, TypedBelow
  <2>4. CASE t[k].id = "flat"
    <3>1. build[k][s] = Leaf(t, k, s, 0)
      BY <2>2, <2>4 DEF ScalarPlan
    <3> QED BY <3>1, LeafIs
  <2>5. CASE t[k].id = "chunked"
    <3>1. build[k][s] = ChunkedPlan(t, t[k], s, build)
      BY <2>2, <2>5 DEF ScalarPlan
    <3>2. ChunkedPlan(t, t[k], s, build) \in PlanType
      BY <2>3, ChunkedIs DEF IsChunked
    <3> QED BY <3>1, <3>2
  <2>6. CASE t[k].id = "zoned"
    BY <2>2, <2>3, <2>6, ZonedIs, ZenonT(40) DEF IsZoned
  <2>7. CASE t[k].id = "dict"
    <3>1. IsDict(ScalarPlan(t, k, s, build), t, k, build[t[k].children[2]][s])
      BY <2>3, <2>7, DictIs
    <3> QED BY <2>2, <3>1, ZenonT(40) DEF IsDict
  <2>8. CASE t[k].id \notin Ids
    BY <2>2, <2>8, OtherIs, RefusedType
  <2> QED BY <2>4, <2>5, <2>6, <2>7, <2>8 DEF Ids
<1> HIDE DEF S
<1>2. \A k \in Nat : (\A m \in 0..(k - 1) : m \in S) => k \in S
  BY <1>1
<1>3. S = Nat
  BY <1>2, InductBelow, S \in SUBSET Nat DEF S
<1>4. n \in S
  BY <1>3
<1> QED BY <1>4 DEF S

LEMMA ScalarTypes ==
  ASSUME NEW t \in Trees, NEW n \in 1..Len(t)
  PROVE  Typed(t, t[n], ScalarPlans(t))
<1>1. ASSUME NEW c \in 1..(n - 1), NEW s \in Nat, Room(t, c, s)
      PROVE  ScalarPlans(t)[c][s] \in PlanType
  <2>1. c \in 1..Len(t)
    BY TreeFacts
  <2> QED BY <1>1, <2>1, ScalarTyped
<1> QED BY <1>1, TypedBelow

\* Chunks that add up have room.
LEMMA PartRoom ==
  ASSUME NEW t \in Trees, NEW n \in 1..Len(t), NEW start, Room(t, n, start),
         ChunksAddUp(t, t[n]), NEW k \in 1..Len(t[n].children)
  PROVE  /\ start + RowsBefore(t, t[n], k) \in Nat
         /\ start + RowsBefore(t, t[n], k) + t[t[n].children[k]].rows
              = start + RowsBefore(t, t[n], k + 1)
         /\ Room(t, t[n].children[k], start + RowsBefore(t, t[n], k))
<1> DEFINE l == t[n]
           m == Len(l.children)
           b == RowsBefore(t, l, k)
           a == RowsBefore(t, l, k + 1)
           more == t[l.children[k]].rows
           rows == l.rows
<1>1. m \in Nat /\ rows \in Nat /\ more \in Nat /\ start \in Nat /\ start + rows < Half /\ Half \in Nat
  BY TreeFacts, HalfAssumption, SMTT(30) DEF Room
<1>2. b \in Nat /\ a = b + more /\ a <= rows
  <2>1. k \in 1..(m + 1) /\ k + 1 \in 1..(m + 1) /\ m + 1 \in 1..(m + 1)
    BY <1>1
  <2>2. RowsBefore(t, l, m + 1) = rows
    BY DEF ChunksAddUp
  <2>3. b \in Nat /\ a = b + more /\ a <= RowsBefore(t, l, m + 1)
    BY <2>1, BeforeIs
  <2> QED BY <2>2, <2>3
<1>3. start + b \in Nat /\ start + b + more = start + a /\ start + b + more < Half
  <2> HIDE DEF b, a, more, rows
  <2> QED BY <1>1, <1>2
<1> QED BY <1>3 DEF Room

-----------------------------------------------------------------------------
(* Pieces that tile a range of rows, and zones that lie in one.            *)

\* Where piece i starts.
From(ps, from, i) == IF i = 1 THEN from ELSE ps[i - 1].end

Tiles(ps, from, to) ==
  /\ \A i \in 1..Len(ps) : ps[i].start = From(ps, from, i) /\ ps[i].start <= ps[i].end
  /\ to = From(ps, from, Len(ps) + 1)

Within(zs, from, to) ==
  \A i \in 1..Len(zs) : from <= zs[i].start /\ zs[i].start <= zs[i].end /\ zs[i].end <= to

LEMMA TilesJoin ==
  ASSUME NEW p \in Seq(PieceType), NEW q \in Seq(PieceType), NEW a, NEW b, NEW c,
         Tiles(p, a, b), Tiles(q, b, c)
  PROVE  Tiles(p \o q, a, c)
<1> DEFINE s == p \o q
           m == Len(p)
           n == Len(q)
<1>1. m \in Nat /\ n \in Nat /\ Len(s) = m + n
  OBVIOUS
<1>2. \A i \in 1..m : s[i] = p[i]
  OBVIOUS
<1>3. \A i \in (m + 1)..(m + n) : s[i] = q[i - m]
  OBVIOUS
<1>4. /\ \A i \in 1..m : p[i].start = From(p, a, i) /\ p[i].start <= p[i].end
      /\ b = From(p, a, m + 1)
  BY DEF Tiles
<1>5. /\ \A i \in 1..n : q[i].start = From(q, b, i) /\ q[i].start <= q[i].end
      /\ c = From(q, b, n + 1)
  BY DEF Tiles
<1> HIDE DEF s, m, n
<1>6. ASSUME NEW i \in 1..(m + 1) PROVE From(s, a, i) = From(p, a, i)
  <2>1. i # 1 => i - 1 \in 1..m
    BY <1>1
  <2> QED BY <1>2, <2>1 DEF From
<1>7. ASSUME NEW i \in 1..(n + 1) PROVE From(s, a, m + i) = From(q, b, i)
  <2>1. CASE i = 1
    <3>1. m + i = m + 1 /\ m + 1 \in 1..(m + 1) /\ From(q, b, i) = b
      BY <1>1, <2>1 DEF From
    <3> QED BY <1>4, <1>6, <3>1
  <2>2. CASE i # 1
    <3>1. m + i # 1 /\ (m + i) - 1 \in (m + 1)..(m + n) /\ ((m + i) - 1) - m = i - 1
      BY <1>1, <2>2
    <3>2. s[(m + i) - 1] = q[i - 1]
      BY <1>3, <3>1
    <3> QED BY <2>2, <3>1, <3>2 DEF From
  <2> QED BY <2>1, <2>2
<1>8. ASSUME NEW i \in 1..(m + n)
      PROVE  s[i].start = From(s, a, i) /\ s[i].start <= s[i].end
  <2>1. CASE i <= m
    <3>1. i \in 1..m /\ i \in 1..(m + 1)
      BY <1>1, <2>1
    <3> QED BY <1>2, <1>4, <1>6, <3>1
  <2>2. CASE i > m
    <3>1. /\ i \in (m + 1)..(m + n) /\ i - m \in 1..n /\ i - m \in 1..(n + 1)
          /\ m + (i - m) = i
      BY <1>1, <2>2
    <3>2. s[i] = q[i - m] /\ From(s, a, i) = From(q, b, i - m)
      BY <1>3, <1>7, <3>1
    <3> QED BY <1>5, <3>1, <3>2
  <2> QED BY <1>1, <2>1, <2>2
<1>9. c = From(s, a, (m + n) + 1)
  <2>1. n + 1 \in 1..(n + 1) /\ m + (n + 1) = (m + n) + 1
    BY <1>1
  <2> QED BY <1>5, <1>7, <2>1
<1>10. Tiles(s, a, c)
  BY <1>1, <1>8, <1>9 DEF Tiles
<1> QED BY <1>10 DEF s

LEMMA WithinJoin ==
  ASSUME NEW p \in Seq(ZoneType), NEW q \in Seq(ZoneType), NEW a \in Int, NEW b \in Int,
         NEW c \in Int, NEW d \in Int, a <= b, c <= d, Within(p, a, c), Within(q, b, d)
  PROVE  Within(p \o q, a, d)
<1> DEFINE s == p \o q
<1>1. ASSUME NEW i \in 1..Len(s)
      PROVE  a <= s[i].start /\ s[i].start <= s[i].end /\ s[i].end <= d
  <2>1. CASE i \in 1..Len(p)
    <3>1. s[i] = p[i] /\ p[i] \in ZoneType
      BY <2>1
    <3>2. a <= p[i].start /\ p[i].start <= p[i].end /\ p[i].end <= c
      BY <2>1 DEF Within
    <3> HIDE DEF s
    <3> QED BY <3>1, <3>2 DEF ZoneType
  <2>2. CASE i \in (Len(p) + 1)..(Len(p) + Len(q))
    <3>1. s[i] = q[i - Len(p)] /\ q[i - Len(p)] \in ZoneType /\ i - Len(p) \in 1..Len(q)
      BY <2>2
    <3>2. b <= s[i].start /\ s[i].start <= s[i].end /\ s[i].end <= d
      BY <3>1 DEF Within
    <3> HIDE DEF s
    <3> QED BY <3>1, <3>2, SMTT(30) DEF ZoneType
  <2> QED BY <2>1, <2>2
<1> QED BY <1>1 DEF Within

Fits(plan, from, to) == Tiles(plan.pieces, from, to) /\ Within(plan.zones, from, to)

\* A plan covers the rows of its layout.
Covers(t, n, start, plan) == plan.err = "none" => Fits(plan, start, start + t[n].rows)

LEMMA ChunkedCovers ==
  ASSUME NEW t \in Trees, NEW n \in 1..Len(t), NEW start, Room(t, n, start), NEW build,
         Typed(t, t[n], build),
         \A c \in 1..(n - 1) : \A s \in Nat : Room(t, c, s) => Covers(t, c, s, build[c][s])
  PROVE  Covers(t, n, start, ChunkedPlan(t, t[n], start, build))
<1> DEFINE l == t[n]
           m == Len(l.children)
           plan == ChunkedPlan(t, l, start, build)
           B(k) == RowsBefore(t, l, k)
           P(k) == Part(t, l, start, build, k)
<1> SUFFICES ASSUME plan.err = "none" PROVE Fits(plan, start, start + l.rows)
  BY DEF Covers
<1>1. /\ ChunksAddUp(t, l)
      /\ \A i \in 1..m : P(i).err = "none"
      /\ \E f : Joined(f, t, l, start, build) /\ plan = f[m]
  <2>1. IsChunked(plan, t, n, start, build)
    BY ChunkedIs
  <2> HIDE DEF plan
  <2> QED BY <2>1 DEF IsChunked
<1>2. PICK f : Joined(f, t, l, start, build) /\ plan = f[m]
  BY <1>1
<1>3. m \in Nat /\ start \in Nat /\ B(1) = 0 /\ B(m + 1) = l.rows
      /\ \A k \in 1..(m + 1) : B(k) \in Nat
  BY <1>1, TreeFacts, BeforeIs DEF Room, ChunksAddUp
<1>4. ASSUME NEW k \in 1..m
      PROVE  P(k) \in PlanType /\ Fits(P(k), start + B(k), start + B(k + 1)) /\ B(k) <= B(k + 1)
  <2> DEFINE c == l.children[k]
             s == start + B(k)
  <2>1. s \in Nat /\ s + t[c].rows = start + B(k + 1) /\ Room(t, c, s)
    BY <1>1, PartRoom
  <2>2. c \in 1..(n - 1)
    BY TreeFacts
  <2>3. Covers(t, c, s, build[c][s])
    BY <2>1, <2>2
  <2>4. P(k) = build[c][s]
    BY DEF Part
  <2>5. P(k) \in PlanType
    BY <2>1, <2>4 DEF Typed
  <2>6. B(k) <= B(k + 1)
    <3>1. k + 1 \in 1..(m + 1) /\ k \in 1..(k + 1)
      BY <1>3
    <3> QED BY <3>1, BeforeIs
  <2> HIDE DEF P, B, s, c
  <2> QED BY <1>1, <2>1, <2>3, <2>4, <2>5, <2>6 DEF Covers, s
<1> DEFINE S == {k \in Nat : k <= m => Fits(f[k], start, start + B(k + 1))}
<1>5. 0 \in S
  <2>1. f[0].pieces = <<>> /\ f[0].zones = <<>>
    BY <1>2, NoPlanType DEF Joined
  <2>2. B(0 + 1) = 0 /\ start + 0 = start
    BY <1>3
  <2> HIDE DEF B
  <2>3. Fits(f[0], start, start)
    BY <2>1 DEF Fits, Tiles, Within, From
  <2> QED BY <2>2, <2>3
<1>6. ASSUME NEW k \in S PROVE k + 1 \in S
  <2> SUFFICES ASSUME k + 1 <= m PROVE Fits(f[k + 1], start, start + B((k + 1) + 1))
    OBVIOUS
  <2> DEFINE i == k + 1
             x == start + B(i)
             y == start + B(i + 1)
  <2>1. i \in 1..m /\ i - 1 = k /\ k \in 0..m /\ i \in 1..(m + 1) /\ i + 1 \in 1..(m + 1)
    BY <1>3
  <2>2. Fits(f[k], start, x)
    BY <2>1
  <2>3. P(i) \in PlanType /\ Fits(P(i), x, y) /\ B(i) <= B(i + 1)
    BY <1>4, <2>1
  <2>4. /\ f[i].pieces = f[k].pieces \o P(i).pieces /\ f[i].zones = f[k].zones \o P(i).zones
        /\ f[k] \in PlanType
    BY <1>2, <2>1 DEF Joined
  <2>5. start \in Int /\ x \in Int /\ y \in Int /\ start <= x /\ x <= y
    <3>1. B(i) \in Nat /\ B(i + 1) \in Nat
      BY <1>3, <2>1
    <3> HIDE DEF B, i
    <3> QED BY <1>3, <2>3, <3>1
  <2> HIDE DEF P, B, i, x, y
  <2>6. Tiles(f[i].pieces, start, y)
    <3>1. f[k].pieces \in Seq(PieceType) /\ P(i).pieces \in Seq(PieceType)
      BY <2>3, <2>4 DEF PlanType
    <3>2. Tiles(f[k].pieces, start, x) /\ Tiles(P(i).pieces, x, y)
      BY <2>2, <2>3 DEF Fits
    <3>3. Tiles(f[k].pieces \o P(i).pieces, start, y)
      BY <3>1, <3>2, TilesJoin
    <3> QED BY <2>4, <3>3
  <2>7. Within(f[i].zones, start, y)
    <3>1. f[k].zones \in Seq(ZoneType) /\ P(i).zones \in Seq(ZoneType)
      BY <2>3, <2>4 DEF PlanType
    <3>2. Within(f[k].zones, start, x) /\ Within(P(i).zones, x, y)
      BY <2>2, <2>3 DEF Fits
    <3>3. Within(f[k].zones \o P(i).zones, start, y)
      BY <2>5, <3>1, <3>2, WithinJoin
    <3> QED BY <2>4, <3>3
  <2>8. Fits(f[i], start, y)
    BY <2>6, <2>7 DEF Fits
  <2> QED BY <2>8 DEF i, y
<1> HIDE DEF S
<1>7. S = Nat
  BY <1>5, <1>6, Induct, S \in SUBSET Nat DEF S
<1>8. m \in S
  BY <1>3, <1>7
<1>9. Fits(f[m], start, start + B(m + 1))
  BY <1>3, <1>8 DEF S
<1> HIDE DEF plan, B
<1> QED BY <1>2, <1>3, <1>9

LEMMA LeafCovers ==
  ASSUME NEW t \in Trees, NEW n \in 1..Len(t), NEW start, Room(t, n, start), NEW field \in Nat
  PROVE  Covers(t, n, start, Leaf(t, n, start, field))
<1> DEFINE piece == [start |-> start, end |-> start + t[n].rows, node |-> n,
                     field |-> field, dict |-> 0]
           to == start + t[n].rows
           p == Leaf(t, n, start, field)
<1>1. p = [err |-> "none", pieces |-> <<piece>>, zones |-> <<>>]
  BY LeafIs
<1>2. p.pieces = <<piece>> /\ p.zones = <<>>
  BY <1>1
<1>3. piece.start = start /\ piece.end = to /\ start <= to
  BY TreeFacts DEF Room
<1> HIDE DEF p, piece, to
<1>4. Tiles(p.pieces, start, to)
  BY <1>2, <1>3 DEF Tiles, From
<1>5. Within(p.zones, start, to)
  BY <1>2 DEF Within
<1> QED BY <1>4, <1>5 DEF Covers, Fits, p, to

LEMMA ScalarCovers ==
  ASSUME NEW t \in Trees, NEW n \in 1..Len(t), NEW start \in Nat, Room(t, n, start)
  PROVE  Covers(t, n, start, ScalarPlans(t)[n][start])
<1> DEFINE build == ScalarPlans(t)
           S == {k \in Nat : k \in 1..Len(t) =>
                  \A s \in Nat : Room(t, k, s) => Covers(t, k, s, build[k][s])}
<1>1. ASSUME NEW k \in Nat, \A m \in 0..(k - 1) : m \in S PROVE k \in S
  <2> SUFFICES ASSUME k \in 1..Len(t), NEW s \in Nat, Room(t, k, s)
               PROVE  Covers(t, k, s, build[k][s])
    OBVIOUS
  <2>1. \A c \in 1..(k - 1) : \A r \in Nat : Room(t, c, r) => Covers(t, c, r, build[c][r])
    <3>1. ASSUME NEW c \in 1..(k - 1) PROVE c \in S /\ c \in 1..Len(t)
      BY <1>1, TreeFacts
    <3> QED BY <3>1
  <2>2. build[k][s] = ScalarPlan(t, k, s, build)
    BY ScalarIs
  <2>3. Typed(t, t[k], build)
    BY ScalarTypes
  <2> HIDE DEF build, S
  <2> DEFINE l == t[k]
             plan == build[k][s]
  <2>4. CASE l.id = "flat"
    <3>1. plan = Leaf(t, k, s, 0)
      BY <2>2, <2>4 DEF ScalarPlan
    <3> QED BY <3>1, LeafCovers
  <2>5. CASE l.id = "chunked"
    <3>1. plan = ChunkedPlan(t, l, s, build)
      BY <2>2, <2>5 DEF ScalarPlan
    <3>2. Covers(t, k, s, ChunkedPlan(t, l, s, build))
      BY <2>1, <2>3, ChunkedCovers
    <3> QED BY <3>1, <3>2
  <2>6. CASE l.id = "zoned"
    <3> SUFFICES ASSUME plan.err = "none" PROVE Fits(plan, s, s + l.rows)
      BY DEF Covers
    <3> DEFINE data == build[l.children[1]][s]
               zones == <<Zone(t, l, s)>>
    <3>1. /\ TwoChildren(t, l, 1) /\ data.err = "none" /\ data \in PlanType
          /\ plan.pieces = data.pieces /\ plan.zones = zones \o data.zones
      <4>1. IsZoned(plan, t, k, s, data)
        BY <2>2, <2>3, <2>6, ZonedIs
      <4> HIDE DEF plan, data
      <4> QED BY <4>1 DEF IsZoned
    <3>2. Fits(data, s, s + l.rows)
      <4>1. l.children[1] \in 1..(k - 1) /\ t[l.children[1]].rows = l.rows
        <5> HIDE DEF plan, data
        <5>1. 1 \in 1..Len(l.children) /\ t[l.children[1]].rows = l.rows
          BY <3>1 DEF TwoChildren
        <5> QED BY <5>1, TreeFacts
      <4>2. Room(t, l.children[1], s)
        BY <4>1 DEF Room
      <4> HIDE DEF plan
      <4> QED BY <2>1, <3>1, <4>1, <4>2 DEF Covers
    <3>3. zones \in Seq(ZoneType) /\ Within(zones, s, s + l.rows)
      <4>1. /\ Zone(t, l, s) \in ZoneType /\ Zone(t, l, s).start = s
            /\ Zone(t, l, s).end = s + l.rows /\ l.rows \in Nat
        BY ZoneIs, TreeFacts
      <4> QED BY <4>1 DEF Within
    <3>4. s \in Int /\ s + l.rows \in Int /\ s <= s /\ s + l.rows <= s + l.rows
      BY TreeFacts
    <3> HIDE DEF zones, data, plan, l
    <3>5. Within(zones \o data.zones, s, s + l.rows)
      BY <3>1, <3>2, <3>3, <3>4, WithinJoin DEF Fits, PlanType
    <3> QED BY <3>1, <3>2, <3>5 DEF Fits
  <2>7. CASE l.id = "dict"
    <3> SUFFICES ASSUME plan.err = "none" PROVE Fits(plan, s, s + l.rows)
      BY DEF Covers
    <3> DEFINE codes == build[l.children[2]][s]
    <3>1. /\ TwoChildren(t, l, 2) /\ codes.err = "none" /\ codes \in PlanType /\ plan \in PlanType
          /\ plan.zones = <<>> /\ Len(plan.pieces) = Len(codes.pieces)
          /\ \A i \in 1..Len(codes.pieces) :
               plan.pieces[i] = [codes.pieces[i] EXCEPT !.dict = l.children[1]]
      <4>1. IsDict(plan, t, k, codes)
        BY <2>2, <2>3, <2>7, DictIs
      <4> HIDE DEF plan, codes
      <4> QED BY <4>1 DEF IsDict
    <3>2. Fits(codes, s, s + l.rows)
      <4>1. l.children[2] \in 1..(k - 1) /\ t[l.children[2]].rows = l.rows
        <5> HIDE DEF plan, codes
        <5>1. 2 \in 1..Len(l.children) /\ t[l.children[2]].rows = l.rows
          BY <3>1 DEF TwoChildren
        <5> QED BY <5>1, TreeFacts
      <4>2. Room(t, l.children[2], s)
        BY <4>1 DEF Room
      <4> HIDE DEF plan
      <4> QED BY <2>1, <3>1, <4>1, <4>2 DEF Covers
    <3> DEFINE p == plan.pieces
               q == codes.pieces
    <3>3. /\ Len(p) = Len(q) /\ Len(q) \in Nat
          /\ \A i \in 1..Len(q) : p[i].start = q[i].start /\ p[i].end = q[i].end
      <4>1. q \in Seq(PieceType)
        <5> HIDE DEF codes
        <5> QED BY <3>1 DEF PlanType
      <4> HIDE DEF plan, codes
      <4>2. ASSUME NEW i \in 1..Len(q) PROVE p[i].start = q[i].start /\ p[i].end = q[i].end
        <5>1. q[i] \in PieceType /\ p[i] = [q[i] EXCEPT !.dict = l.children[1]]
          BY <3>1, <4>1
        <5> HIDE DEF p, q
        <5> QED BY <5>1 DEF PieceType
      <4> QED BY <3>1, <4>1, <4>2
    <3>4. Tiles(q, s, s + l.rows)
      BY <3>2 DEF Fits
    <3> HIDE DEF p, q, l
    <3>5. Tiles(p, s, s + l.rows)
      <4>1. \A i \in 1..(Len(q) + 1) : From(p, s, i) = From(q, s, i)
        BY <3>3 DEF From
      <4> QED BY <3>3, <3>4, <4>1 DEF Tiles
    <3> QED BY <3>1, <3>5 DEF Fits, Within, p
  <2>8. CASE l.id \notin Ids
    <3>1. plan.err # "none"
      BY <2>2, <2>8, OtherIs, RefusedType
    <3> QED BY <3>1 DEF Covers
  <2> QED BY <2>4, <2>5, <2>6, <2>7, <2>8 DEF Ids
<1> HIDE DEF S
<1>2. \A k \in Nat : (\A m \in 0..(k - 1) : m \in S) => k \in S
  BY <1>1
<1>3. S = Nat
  BY <1>2, InductBelow, S \in SUBSET Nat DEF S
<1>4. n \in S
  BY <1>3
<1> QED BY <1>4 DEF S

-----------------------------------------------------------------------------
(* The plans of columns.                                                   *)

\* A struct layout with a child of its rows for each column.
Shaped(t, n) ==
  /\ Len(t[n].children) = Cardinality(Fields)
  /\ \A i \in 1..Len(t[n].children) : t[t[n].children[i]].rows = t[n].rows

\* The plan of a struct, from that of the child of its column.
IsStruct(plan, t, n, column) ==
  /\ plan \in PlanType
  /\ plan.err = "none" <=> Shaped(t, n) /\ column.err = "none"
  /\ plan.err = "none" => plan = column

LEMMA ShapedFacts ==
  ASSUME NEW t \in Trees, NEW n \in 1..Len(t), NEW start, Room(t, n, start), NEW f \in Fields,
         Shaped(t, n)
  PROVE  /\ t[n].children[f] \in 1..Len(t) /\ t[n].children[f] \in 1..(n - 1)
         /\ t[t[n].children[f]].rows = t[n].rows /\ Room(t, t[n].children[f], start)
<1>1. f \in 1..Len(t[n].children)
  BY FieldsAssumption DEF Shaped
<1> QED BY <1>1, TreeFacts DEF Shaped, Room

LEMMA StructIs ==
  ASSUME NEW t \in Trees, NEW n \in 1..Len(t), NEW start, Room(t, n, start), NEW f \in Fields,
         NEW build, t[n].id = "struct"
  PROVE  IsStruct(FieldPlan(t, n, start, f, build), t, n,
                  ScalarPlans(t)[t[n].children[f]][start])
<1> DEFINE plan == FieldPlan(t, n, start, f, build)
           column == ScalarPlans(t)[t[n].children[f]][start]
<1> SUFFICES IsStruct(plan, t, n, column)
  OBVIOUS
<1>1. plan = IF Shaped(t, n) THEN column ELSE Refused("invalid")
  <2> HIDE DEF column
  <2>1. column = ScalarPlans(t)[FieldChild(t[n], f)][start]
    BY DEF FieldChild, column
  <2> QED BY <2>1 DEF FieldPlan, Shaped
<1>2. Shaped(t, n) => column \in PlanType
  <2> SUFFICES ASSUME Shaped(t, n) PROVE column \in PlanType
    OBVIOUS
  <2>1. start \in Nat
    BY DEF Room
  <2> QED BY <2>1, ShapedFacts, ScalarTyped
<1> HIDE DEF plan, column
<1> QED BY <1>1, <1>2, RefusedType DEF IsStruct

LEMMA FieldNat == Fields \subseteq Nat
<1>1. Cardinality(Fields) \in Nat
  BY FieldsAssumption, FS_CardinalityType
<1> QED BY <1>1, FieldsAssumption

LEMMA FieldTyped ==
  ASSUME NEW t \in Trees, NEW f \in Fields, NEW n \in 1..Len(t), NEW start \in Nat,
         Room(t, n, start)
  PROVE  FieldPlans(t, f)[n][start] \in PlanType
<1> DEFINE build == FieldPlans(t, f)
           S == {k \in Nat : k \in 1..Len(t) =>
                  \A s \in Nat : Room(t, k, s) => build[k][s] \in PlanType}
<1>1. ASSUME NEW k \in Nat, \A m \in 0..(k - 1) : m \in S PROVE k \in S
  <2> SUFFICES ASSUME k \in 1..Len(t), NEW s \in Nat, Room(t, k, s)
               PROVE  build[k][s] \in PlanType
    OBVIOUS
  <2>1. \A c \in 1..(k - 1) : \A r \in Nat : Room(t, c, r) => build[c][r] \in PlanType
    <3>1. ASSUME NEW c \in 1..(k - 1) PROVE c \in S /\ c \in 1..Len(t)
      BY <1>1, TreeFacts
    <3> QED BY <3>1
  <2>2. build[k][s] = FieldPlan(t, k, s, f, build)
    BY FieldIs
  <2> HIDE DEF build, S
  <2>3. Typed(t, t[k], build)
    BY <2>1, TypedBelow
  <2>4. CASE t[k].id = "flat"
    <3>1. build[k][s] = Leaf(t, k, s, f)
      BY <2>2, <2>4 DEF FieldPlan
    <3>2. f \in Nat
      BY FieldNat
    <3> QED BY <3>1, <3>2, LeafIs
  <2>5. CASE t[k].id = "chunked"
    <3>1. build[k][s] = ChunkedPlan(t, t[k], s, build)
      BY <2>2, <2>5 DEF FieldPlan
    <3>2. ChunkedPlan(t, t[k], s, build) \in PlanType
      BY <2>3, ChunkedIs DEF IsChunked
    <3> QED BY <3>1, <3>2
  <2>6. CASE t[k].id = "struct"
    BY <2>2, <2>6, StructIs DEF IsStruct
  <2>7. CASE t[k].id \notin {"flat", "chunked", "struct"}
    <3>1. build[k][s] = Refused("unsupported")
      BY <2>2, <2>7 DEF FieldPlan
    <3> QED BY <3>1, RefusedType
  <2> QED BY <2>4, <2>5, <2>6, <2>7
<1> HIDE DEF S
<1>2. \A k \in Nat : (\A m \in 0..(k - 1) : m \in S) => k \in S
  BY <1>1
<1>3. S = Nat
  BY <1>2, InductBelow, S \in SUBSET Nat DEF S
<1>4. n \in S
  BY <1>3
<1> QED BY <1>4 DEF S

LEMMA FieldTypes ==
  ASSUME NEW t \in Trees, NEW f \in Fields, NEW n \in 1..Len(t)
  PROVE  Typed(t, t[n], FieldPlans(t, f))
<1>1. ASSUME NEW c \in 1..(n - 1), NEW s \in Nat, Room(t, c, s)
      PROVE  FieldPlans(t, f)[c][s] \in PlanType
  <2>1. c \in 1..Len(t)
    BY TreeFacts
  <2> QED BY <1>1, <2>1, FieldTyped
<1> QED BY <1>1, TypedBelow

LEMMA FieldCovers ==
  ASSUME NEW t \in Trees, NEW f \in Fields, NEW n \in 1..Len(t), NEW start \in Nat,
         Room(t, n, start)
  PROVE  Covers(t, n, start, FieldPlans(t, f)[n][start])
<1> DEFINE build == FieldPlans(t, f)
           S == {k \in Nat : k \in 1..Len(t) =>
                  \A s \in Nat : Room(t, k, s) => Covers(t, k, s, build[k][s])}
<1>1. ASSUME NEW k \in Nat, \A m \in 0..(k - 1) : m \in S PROVE k \in S
  <2> SUFFICES ASSUME k \in 1..Len(t), NEW s \in Nat, Room(t, k, s)
               PROVE  Covers(t, k, s, build[k][s])
    OBVIOUS
  <2>1. \A c \in 1..(k - 1) : \A r \in Nat : Room(t, c, r) => Covers(t, c, r, build[c][r])
    <3>1. ASSUME NEW c \in 1..(k - 1) PROVE c \in S /\ c \in 1..Len(t)
      BY <1>1, TreeFacts
    <3> QED BY <3>1
  <2>2. build[k][s] = FieldPlan(t, k, s, f, build)
    BY FieldIs
  <2>3. Typed(t, t[k], build)
    BY FieldTypes
  <2> HIDE DEF build, S
  <2>4. CASE t[k].id = "flat"
    <3>1. build[k][s] = Leaf(t, k, s, f)
      BY <2>2, <2>4 DEF FieldPlan
    <3>2. f \in Nat
      BY FieldNat
    <3> QED BY <3>1, <3>2, LeafCovers
  <2>5. CASE t[k].id = "chunked"
    <3>1. build[k][s] = ChunkedPlan(t, t[k], s, build)
      BY <2>2, <2>5 DEF FieldPlan
    <3>2. Covers(t, k, s, ChunkedPlan(t, t[k], s, build))
      BY <2>1, <2>3, ChunkedCovers
    <3> QED BY <3>1, <3>2
  <2>6. CASE t[k].id = "struct"
    <3> DEFINE plan == build[k][s]
               c == t[k].children[f]
               column == ScalarPlans(t)[c][s]
    <3> SUFFICES ASSUME plan.err = "none" PROVE Fits(plan, s, s + t[k].rows)
      BY DEF Covers
    <3>1. Shaped(t, k) /\ column.err = "none" /\ plan = column
      <4>1. IsStruct(plan, t, k, column)
        BY <2>2, <2>6, StructIs
      <4> HIDE DEF plan, column
      <4> QED BY <4>1 DEF IsStruct
    <3>2. c \in 1..Len(t) /\ t[c].rows = t[k].rows /\ Room(t, c, s)
      BY <3>1, ShapedFacts
    <3> HIDE DEF c
    <3>3. Covers(t, c, s, column)
      BY <3>2, ScalarCovers
    <3> HIDE DEF plan, column
    <3> QED BY <3>1, <3>2, <3>3 DEF Covers
  <2>7. CASE t[k].id \notin {"flat", "chunked", "struct"}
    <3>1. build[k][s] = Refused("unsupported")
      BY <2>2, <2>7 DEF FieldPlan
    <3>2. build[k][s].err # "none"
      BY <3>1, RefusedType
    <3> QED BY <3>2 DEF Covers
  <2> QED BY <2>4, <2>5, <2>6, <2>7
<1> HIDE DEF S
<1>2. \A k \in Nat : (\A m \in 0..(k - 1) : m \in S) => k \in S
  BY <1>1
<1>3. S = Nat
  BY <1>2, InductBelow, S \in SUBSET Nat DEF S
<1>4. n \in S
  BY <1>3
<1> QED BY <1>4 DEF S

-----------------------------------------------------------------------------
(* The columns that get a plan are the good ones.                          *)

\* A set that holds a layout when it holds those before it.
LEMMA InTree ==
  ASSUME NEW t \in Trees, NEW S, \A n \in 1..Len(t) : (\A c \in 1..(n - 1) : c \in S) => n \in S
  PROVE  \A n \in 1..Len(t) : n \in S
<1> DEFINE T == {k \in Nat : k \in 1..Len(t) => k \in S}
<1>1. ASSUME NEW k \in Nat, \A m \in 0..(k - 1) : m \in T PROVE k \in T
  <2> SUFFICES ASSUME k \in 1..Len(t) PROVE k \in S
    OBVIOUS
  <2>1. ASSUME NEW c \in 1..(k - 1) PROVE c \in S
    <3>1. c \in 0..(k - 1) /\ c \in 1..Len(t)
      BY TreeFacts
    <3> QED BY <1>1, <3>1
  <2> QED BY <2>1
<1> HIDE DEF T
<1>2. T = Nat
  BY <1>1, InductBelow, T \in SUBSET Nat DEF T
<1>3. \A n \in 1..Len(t) : n \in T
  BY <1>2
<1> QED BY <1>3 DEF T

\* The children a layout asks for come before it.
LEMMA ChildrenAgree ==
  ASSUME NEW t \in Trees, NEW n \in 1..Len(t), NEW f, NEW g, \A c \in 1..(n - 1) : f[c] = g[c]
  PROVE  /\ \A i \in 1..Len(t[n].children) : f[t[n].children[i]] = g[t[n].children[i]]
         /\ Len(t[n].children) = 2 => /\ f[t[n].children[1]] = g[t[n].children[1]]
                                      /\ f[t[n].children[2]] = g[t[n].children[2]]
<1>1. \A i \in 1..Len(t[n].children) : f[t[n].children[i]] = g[t[n].children[i]]
  BY TreeFacts
<1>2. Len(t[n].children) = 2 => 1 \in 1..Len(t[n].children) /\ 2 \in 1..Len(t[n].children)
  OBVIOUS
<1> QED BY <1>1, <1>2

\* What HasLeaf says of a layout, given what it says of its children.
HasOf(t, n, has) ==
  \/ t[n].id = "flat"
  \/ t[n].id = "chunked" /\ \E i \in 1..Len(t[n].children) : has[t[n].children[i]]
  \/ t[n].id = "zoned" /\ TwoChildren(t, t[n], 1) /\ has[t[n].children[1]]
  \/ t[n].id = "dict" /\ TwoChildren(t, t[n], 2) /\ has[t[n].children[2]]

IsHas(f, t, m) == f = [n \in 1..m |-> HasOf(t, n, f)]

LEMMA HasAgree ==
  ASSUME NEW t \in Trees, NEW n \in 1..Len(t), NEW f, NEW g, \A c \in 1..(n - 1) : f[c] = g[c]
  PROVE  HasOf(t, n, f) = HasOf(t, n, g)
BY ChildrenAgree, SMTT(30) DEF HasOf, TwoChildren

LEMMA HasExists ==
  ASSUME NEW t \in Trees, NEW m \in 0..Len(t)
  PROVE  \E f : IsHas(f, t, m)
<1> DEFINE S == {k \in Nat : k <= Len(t) => \E f : IsHas(f, t, k)}
<1>0. Len(t) \in Nat
  BY TreeFacts
<1>1. 0 \in S
  <2> DEFINE f == [n \in 1..0 |-> 0]
  <2>1. f = [n \in 1..0 |-> HasOf(t, n, f)]
    OBVIOUS
  <2> HIDE DEF f
  <2> QED BY <2>1 DEF IsHas
<1>2. ASSUME NEW k \in S PROVE k + 1 \in S
  <2> SUFFICES ASSUME k + 1 <= Len(t) PROVE \E f : IsHas(f, t, k + 1)
    OBVIOUS
  <2>1. PICK f : IsHas(f, t, k)
    BY <1>0
  <2> DEFINE g == [n \in 1..(k + 1) |-> IF n = k + 1 THEN HasOf(t, n, f) ELSE f[n]]
  <2>2. ASSUME NEW n \in 1..(k + 1)
        PROVE  g[n] = HasOf(t, n, g)
    <3>1. n \in 1..Len(t) /\ \A c \in 1..(n - 1) : f[c] = g[c]
      BY <1>0
    <3> HIDE DEF g
    <3>2. HasOf(t, n, f) = HasOf(t, n, g)
      BY <3>1, HasAgree
    <3>3. g[n] = HasOf(t, n, f)
      <4>1. CASE n = k + 1
        BY <4>1 DEF g
      <4>2. CASE n # k + 1
        <5>1. n \in 1..k /\ g[n] = f[n]
          BY <4>2 DEF g
        <5> QED BY <2>1, <5>1 DEF IsHas
      <4> QED BY <4>1, <4>2
    <3> QED BY <3>2, <3>3
  <2>3. g = [n \in 1..(k + 1) |-> g[n]]
    OBVIOUS
  <2> HIDE DEF g
  <2>4. IsHas(g, t, k + 1)
    BY <2>2, <2>3 DEF IsHas
  <2> QED BY <2>4
<1> HIDE DEF S
<1>3. S = Nat
  BY <1>1, <1>2, Induct, S \in SUBSET Nat DEF S
<1> QED BY <1>0, <1>3 DEF S

LEMMA HasIs ==
  ASSUME NEW t \in Trees, NEW n \in 1..Len(t)
  PROVE  HasLeaf(t)[n] = HasOf(t, n, HasLeaf(t))
<1> DEFINE g == CHOOSE f : f = [k \in 1..Len(t) |-> HasOf(t, k, f)]
<1>1. HasLeaf(t) = g
  BY DEF HasLeaf, HasOf
<1>2. IsHas(g, t, Len(t))
  <2>1. Len(t) \in 0..Len(t)
    BY TreeFacts
  <2>2. \E f : IsHas(f, t, Len(t))
    BY <2>1, HasExists
  <2>3. \E f : f = [k \in 1..Len(t) |-> HasOf(t, k, f)]
    BY <2>2 DEF IsHas
  <2> QED BY <2>3 DEF IsHas
<1> HIDE DEF g
<1>3. g[n] = HasOf(t, n, g)
  BY <1>2 DEF IsHas
<1> QED BY <1>1, <1>3

\* What GoodColumn says of a layout, given what it says of its children.
GoodOf(t, n, inDict, good) ==
  \/ t[n].id = "flat"
  \/ /\ t[n].id = "chunked" /\ ChunksAddUp(t, t[n])
     /\ \A i \in 1..Len(t[n].children) : good[t[n].children[i]][inDict]
  \/ /\ t[n].id = "zoned" /\ TwoChildren(t, t[n], 1)
     /\ good[t[n].children[1]][inDict]
  \/ /\ t[n].id = "dict" /\ TwoChildren(t, t[n], 2) /\ t[n].codeType
     /\ good[t[n].children[2]][TRUE]
     /\ ~(inDict /\ HasLeaf(t)[n])

IsGood(f, t, m) == f = [n \in 1..m |-> [inDict \in BOOLEAN |-> GoodOf(t, n, inDict, f)]]

LEMMA GoodAgree ==
  ASSUME NEW t \in Trees, NEW n \in 1..Len(t), NEW inDict \in BOOLEAN, NEW f, NEW g,
         \A c \in 1..(n - 1) : f[c] = g[c]
  PROVE  GoodOf(t, n, inDict, f) = GoodOf(t, n, inDict, g)
<1>1. (\A i \in 1..Len(t[n].children) : f[t[n].children[i]][inDict])
        = \A i \in 1..Len(t[n].children) : g[t[n].children[i]][inDict]
  BY ChildrenAgree
<1>2. Len(t[n].children) = 2 => /\ f[t[n].children[1]] = g[t[n].children[1]]
                                /\ f[t[n].children[2]] = g[t[n].children[2]]
  BY ChildrenAgree
<1> QED BY <1>1, <1>2 DEF GoodOf, TwoChildren

LEMMA GoodExists ==
  ASSUME NEW t \in Trees, NEW m \in 0..Len(t)
  PROVE  \E f : IsGood(f, t, m)
<1> DEFINE S == {k \in Nat : k <= Len(t) => \E f : IsGood(f, t, k)}
<1>0. Len(t) \in Nat
  BY TreeFacts
<1>1. 0 \in S
  <2> DEFINE f == [n \in 1..0 |-> 0]
  <2>1. f = [n \in 1..0 |-> [inDict \in BOOLEAN |-> GoodOf(t, n, inDict, f)]]
    OBVIOUS
  <2> HIDE DEF f
  <2> QED BY <2>1 DEF IsGood
<1>2. ASSUME NEW k \in S PROVE k + 1 \in S
  <2> SUFFICES ASSUME k + 1 <= Len(t) PROVE \E f : IsGood(f, t, k + 1)
    OBVIOUS
  <2>1. PICK f : IsGood(f, t, k)
    BY <1>0
  <2> DEFINE g == [n \in 1..(k + 1) |-> IF n = k + 1
                                        THEN [inDict \in BOOLEAN |-> GoodOf(t, n, inDict, f)]
                                        ELSE f[n]]
  <2>2. ASSUME NEW n \in 1..(k + 1)
        PROVE  g[n] = [inDict \in BOOLEAN |-> GoodOf(t, n, inDict, g)]
    <3>1. n \in 1..Len(t) /\ \A c \in 1..(n - 1) : f[c] = g[c]
      BY <1>0
    <3> HIDE DEF g
    <3>2. ASSUME NEW inDict \in BOOLEAN PROVE GoodOf(t, n, inDict, f) = GoodOf(t, n, inDict, g)
      BY <3>1, GoodAgree
    <3>3. g[n] = [inDict \in BOOLEAN |-> GoodOf(t, n, inDict, f)]
      <4>1. CASE n = k + 1
        BY <4>1 DEF g
      <4>2. CASE n # k + 1
        <5>1. n \in 1..k /\ g[n] = f[n]
          BY <4>2 DEF g
        <5> QED BY <2>1, <5>1 DEF IsGood
      <4> QED BY <4>1, <4>2
    <3> QED BY <3>2, <3>3
  <2>3. g = [n \in 1..(k + 1) |-> g[n]]
    OBVIOUS
  <2> HIDE DEF g
  <2>4. IsGood(g, t, k + 1)
    BY <2>2, <2>3 DEF IsGood
  <2> QED BY <2>4
<1> HIDE DEF S
<1>3. S = Nat
  BY <1>1, <1>2, Induct, S \in SUBSET Nat DEF S
<1> QED BY <1>0, <1>3 DEF S

LEMMA GoodIs ==
  ASSUME NEW t \in Trees, NEW n \in 1..Len(t), NEW inDict \in BOOLEAN
  PROVE  GoodColumn(t)[n][inDict] = GoodOf(t, n, inDict, GoodColumn(t))
<1> DEFINE g == CHOOSE f : f = [k \in 1..Len(t) |-> [d \in BOOLEAN |-> GoodOf(t, k, d, f)]]
<1>1. GoodColumn(t) = g
  BY DEF GoodColumn, GoodOf
<1>2. IsGood(g, t, Len(t))
  <2>1. Len(t) \in 0..Len(t)
    BY TreeFacts
  <2>2. \E f : IsGood(f, t, Len(t))
    BY <2>1, GoodExists
  <2>3. \E f : f = [k \in 1..Len(t) |-> [d \in BOOLEAN |-> GoodOf(t, k, d, f)]]
    BY <2>2 DEF IsGood
  <2> QED BY <2>3 DEF IsGood
<1> HIDE DEF g
<1>3. g[n][inDict] = GoodOf(t, n, inDict, g)
  BY <1>2 DEF IsGood
<1> QED BY <1>1, <1>3

\* What GoodRoot says of a layout, given what it says of its children.
RootOf(t, n, field, good) ==
  \/ t[n].id = "flat"
  \/ /\ t[n].id = "chunked" /\ ChunksAddUp(t, t[n])
     /\ \A i \in 1..Len(t[n].children) : good[t[n].children[i]]
  \/ /\ t[n].id = "struct" /\ Len(t[n].children) = Cardinality(Fields)
     /\ \A i \in 1..Len(t[n].children) : t[t[n].children[i]].rows = t[n].rows
     /\ GoodColumn(t)[t[n].children[field]][FALSE]

IsRoot(f, t, field, m) == f = [n \in 1..m |-> RootOf(t, n, field, f)]

LEMMA RootAgree ==
  ASSUME NEW t \in Trees, NEW n \in 1..Len(t), NEW field, NEW f, NEW g,
         \A c \in 1..(n - 1) : f[c] = g[c]
  PROVE  RootOf(t, n, field, f) = RootOf(t, n, field, g)
<1>1. (\A i \in 1..Len(t[n].children) : f[t[n].children[i]])
        = \A i \in 1..Len(t[n].children) : g[t[n].children[i]]
  <2>1. \A i \in 1..Len(t[n].children) : f[t[n].children[i]] = g[t[n].children[i]]
    BY ChildrenAgree, SMTT(30)
  <2> QED BY <2>1, Zenon
<1> QED BY <1>1 DEF RootOf

LEMMA RootExists ==
  ASSUME NEW t \in Trees, NEW field, NEW m \in 0..Len(t)
  PROVE  \E f : IsRoot(f, t, field, m)
<1> DEFINE S == {k \in Nat : k <= Len(t) => \E f : IsRoot(f, t, field, k)}
<1>0. Len(t) \in Nat
  BY TreeFacts
<1>1. 0 \in S
  <2> DEFINE f == [n \in 1..0 |-> 0]
  <2>1. f = [n \in 1..0 |-> RootOf(t, n, field, f)]
    OBVIOUS
  <2> HIDE DEF f
  <2> QED BY <2>1 DEF IsRoot
<1>2. ASSUME NEW k \in S PROVE k + 1 \in S
  <2> SUFFICES ASSUME k + 1 <= Len(t) PROVE \E f : IsRoot(f, t, field, k + 1)
    OBVIOUS
  <2>1. PICK f : IsRoot(f, t, field, k)
    BY <1>0
  <2> DEFINE g == [n \in 1..(k + 1) |-> IF n = k + 1 THEN RootOf(t, n, field, f) ELSE f[n]]
  <2>2. ASSUME NEW n \in 1..(k + 1)
        PROVE  g[n] = RootOf(t, n, field, g)
    <3>1. n \in 1..Len(t) /\ \A c \in 1..(n - 1) : f[c] = g[c]
      BY <1>0
    <3> HIDE DEF g
    <3>2. RootOf(t, n, field, f) = RootOf(t, n, field, g)
      BY <3>1, RootAgree
    <3>3. g[n] = RootOf(t, n, field, f)
      <4>1. CASE n = k + 1
        BY <4>1 DEF g
      <4>2. CASE n # k + 1
        <5>1. n \in 1..k /\ g[n] = f[n]
          BY <4>2 DEF g
        <5> QED BY <2>1, <5>1 DEF IsRoot
      <4> QED BY <4>1, <4>2
    <3> QED BY <3>2, <3>3
  <2>3. g = [n \in 1..(k + 1) |-> g[n]]
    OBVIOUS
  <2> HIDE DEF g
  <2>4. IsRoot(g, t, field, k + 1)
    BY <2>2, <2>3 DEF IsRoot
  <2> QED BY <2>4
<1> HIDE DEF S
<1>3. S = Nat
  BY <1>1, <1>2, Induct, S \in SUBSET Nat DEF S
<1> QED BY <1>0, <1>3 DEF S

LEMMA RootIs ==
  ASSUME NEW t \in Trees, NEW field
  PROVE  \E g : IsRoot(g, t, field, Len(t)) /\ GoodRoot(t, field) = g[Len(t)]
<1> DEFINE g == CHOOSE f : f = [k \in 1..Len(t) |-> RootOf(t, k, field, f)]
<1>1. GoodRoot(t, field) = g[Len(t)]
  BY DEF GoodRoot, RootOf
<1>2. IsRoot(g, t, field, Len(t))
  <2>1. Len(t) \in 0..Len(t)
    BY TreeFacts
  <2>2. \E f : IsRoot(f, t, field, Len(t))
    BY <2>1, RootExists
  <2>3. \E f : f = [k \in 1..Len(t) |-> RootOf(t, k, field, f)]
    BY <2>2 DEF IsRoot
  <2> QED BY <2>3 DEF IsRoot
<1> HIDE DEF g
<1> QED BY <1>1, <1>2

\* The members of a sequence.
Elems(s) == {s[i] : i \in 1..Len(s)}

LEMMA ElemsJoin ==
  ASSUME NEW T, NEW p \in Seq(T), NEW q \in Seq(T)
  PROVE  Elems(p \o q) = Elems(p) \cup Elems(q)
<1>1. \A x : x \in Elems(p \o q) => x \in Elems(p) \cup Elems(q)
  <2> SUFFICES ASSUME NEW i \in 1..Len(p \o q) PROVE (p \o q)[i] \in Elems(p) \cup Elems(q)
    BY DEF Elems
  <2>1. CASE i <= Len(p)
    <3>1. (p \o q)[i] = p[i] /\ i \in 1..Len(p)
      BY <2>1
    <3> QED BY <3>1 DEF Elems
  <2>2. CASE i > Len(p)
    <3>1. (p \o q)[i] = q[i - Len(p)] /\ i - Len(p) \in 1..Len(q)
      BY <2>2
    <3> QED BY <3>1 DEF Elems
  <2> QED BY <2>1, <2>2
<1>2. ASSUME NEW i \in 1..Len(p) PROVE p[i] \in Elems(p \o q)
  <2>1. (p \o q)[i] = p[i] /\ i \in 1..Len(p \o q)
    OBVIOUS
  <2> QED BY <2>1 DEF Elems
<1>3. ASSUME NEW i \in 1..Len(q) PROVE q[i] \in Elems(p \o q)
  <2>1. (p \o q)[Len(p) + i] = q[i] /\ Len(p) + i \in 1..Len(p \o q)
    OBVIOUS
  <2> QED BY <2>1 DEF Elems
<1>4. Elems(p) \cup Elems(q) \subseteq Elems(p \o q)
  <2>1. Elems(p) \subseteq Elems(p \o q)
    BY <1>2 DEF Elems
  <2>2. Elems(q) \subseteq Elems(p \o q)
    BY <1>3 DEF Elems
  <2> QED BY <2>1, <2>2
<1> QED BY <1>1, <1>4

LEMMA ElemsOf ==
  ASSUME NEW p \in PlanType
  PROVE  /\ Elems(p.pieces) \subseteq PieceType /\ Elems(p.zones) \subseteq ZoneType
         /\ Len(p.pieces) \in Nat
         /\ Elems(p.pieces) = {} <=> Len(p.pieces) = 0
<1>1. p.pieces \in Seq(PieceType) /\ p.zones \in Seq(ZoneType)
  BY DEF PlanType
<1>2. Elems(p.pieces) \subseteq PieceType /\ Elems(p.zones) \subseteq ZoneType
  BY <1>1 DEF Elems
<1>3. Len(p.pieces) \in Nat
  BY <1>1
<1>4. Len(p.pieces) # 0 => p.pieces[1] \in Elems(p.pieces)
  <2>1. Len(p.pieces) # 0 => 1 \in 1..Len(p.pieces)
    BY <1>3
  <2> QED BY <2>1 DEF Elems
<1>5. Len(p.pieces) = 0 => Elems(p.pieces) = {}
  BY DEF Elems
<1> QED BY <1>2, <1>3, <1>4, <1>5

\* The pieces and the zones of a chunked plan are those of its chunks.
JoinedElems(plan, t, n, start, build) ==
  /\ Elems(plan.pieces) =
       UNION {Elems(Part(t, t[n], start, build, k).pieces) : k \in 1..Len(t[n].children)}
  /\ Elems(plan.zones) =
       UNION {Elems(Part(t, t[n], start, build, k).zones) : k \in 1..Len(t[n].children)}

LEMMA JoinedIs ==
  ASSUME NEW t \in Trees, NEW n \in 1..Len(t), NEW start, Room(t, n, start), NEW build,
         Typed(t, t[n], build), ChunkedPlan(t, t[n], start, build).err = "none"
  PROVE  JoinedElems(ChunkedPlan(t, t[n], start, build), t, n, start, build)
<1> DEFINE l == t[n]
           m == Len(l.children)
           plan == ChunkedPlan(t, l, start, build)
           P(k) == Part(t, l, start, build, k)
           Pieces(k) == UNION {Elems(P(j).pieces) : j \in 1..k}
           Zones(k) == UNION {Elems(P(j).zones) : j \in 1..k}
<1> SUFFICES JoinedElems(plan, t, n, start, build)
  OBVIOUS
<1>1. ChunksAddUp(t, l) /\ \E f : Joined(f, t, l, start, build) /\ plan = f[m]
  <2>1. IsChunked(plan, t, n, start, build) /\ plan.err = "none"
    BY ChunkedIs
  <2> HIDE DEF plan
  <2> QED BY <2>1 DEF IsChunked
<1>2. PICK f : Joined(f, t, l, start, build) /\ plan = f[m]
  BY <1>1
<1>3. m \in Nat
  BY TreeFacts
<1>4. ASSUME NEW k \in 1..m PROVE P(k) \in PlanType
  BY <1>1, PartRoom DEF Typed, Part
<1> DEFINE Is(k) == Elems(f[k].pieces) = Pieces(k) /\ Elems(f[k].zones) = Zones(k)
           S == {k \in Nat : k <= m => Is(k)}
<1>5. 0 \in S
  <2>1. f[0].pieces = <<>> /\ f[0].zones = <<>>
    BY <1>2, NoPlanType DEF Joined
  <2>2. Elems(<<>>) = {}
    BY DEF Elems
  <2>3. Pieces(0) = {} /\ Zones(0) = {}
    OBVIOUS
  <2> HIDE DEF Pieces, Zones
  <2> QED BY <2>1, <2>2, <2>3
<1>6. ASSUME NEW k \in S PROVE k + 1 \in S
  <2> SUFFICES ASSUME k + 1 <= m PROVE Is(k + 1)
    OBVIOUS
  <2>1. k + 1 \in 1..m /\ (k + 1) - 1 = k /\ k \in 0..m /\ Is(k)
    BY <1>3
  <2>2. 1..(k + 1) = (1..k) \cup {k + 1}
    OBVIOUS
  <2>3. /\ Pieces(k + 1) = Pieces(k) \cup Elems(P(k + 1).pieces)
        /\ Zones(k + 1) = Zones(k) \cup Elems(P(k + 1).zones)
    <3> HIDE DEF P
    <3> QED BY <2>2
  <2>4. /\ f[k + 1].pieces = f[k].pieces \o P(k + 1).pieces
        /\ f[k + 1].zones = f[k].zones \o P(k + 1).zones /\ f[k] \in PlanType
    BY <1>2, <2>1 DEF Joined
  <2>5. P(k + 1) \in PlanType
    BY <1>4, <2>1
  <2> HIDE DEF P, Pieces, Zones
  <2>6. Elems(f[k].pieces \o P(k + 1).pieces) = Elems(f[k].pieces) \cup Elems(P(k + 1).pieces)
    <3>1. f[k].pieces \in Seq(PieceType) /\ P(k + 1).pieces \in Seq(PieceType)
      BY <2>4, <2>5 DEF PlanType
    <3> QED BY <3>1, ElemsJoin
  <2>7. Elems(f[k].zones \o P(k + 1).zones) = Elems(f[k].zones) \cup Elems(P(k + 1).zones)
    <3>1. f[k].zones \in Seq(ZoneType) /\ P(k + 1).zones \in Seq(ZoneType)
      BY <2>4, <2>5 DEF PlanType
    <3> QED BY <3>1, ElemsJoin
  <2> QED BY <2>1, <2>3, <2>4, <2>6, <2>7
<1> HIDE DEF S
<1>7. S = Nat
  BY <1>5, <1>6, Induct, S \in SUBSET Nat DEF S
<1>8. Is(m)
  <2>1. m \in S /\ m <= m
    BY <1>3, <1>7
  <2> QED BY <2>1 DEF S
<1> HIDE DEF plan
<1> QED BY <1>2, <1>8 DEF JoinedElems

\* No piece has a dictionary.
Plain(plan) == \A p \in Elems(plan.pieces) : p.dict = 0

\* What the tree says of layout n is what the plan shows.
Judged(t, n, plan) ==
  /\ plan.err = "none" <=> GoodColumn(t)[n][FALSE]
  /\ plan.err = "none" => (HasLeaf(t)[n] <=> Len(plan.pieces) # 0)
  /\ GoodColumn(t)[n][TRUE] <=> plan.err = "none" /\ Plain(plan)

LEMMA LeafJudged ==
  ASSUME NEW t \in Trees, NEW n \in 1..Len(t), NEW start, Room(t, n, start), t[n].id = "flat"
  PROVE  Judged(t, n, Leaf(t, n, start, 0))
<1> DEFINE piece == [start |-> start, end |-> start + t[n].rows, node |-> n,
                     field |-> 0, dict |-> 0]
           plan == Leaf(t, n, start, 0)
<1> SUFFICES Judged(t, n, plan)
  OBVIOUS
<1>1. plan = [err |-> "none", pieces |-> <<piece>>, zones |-> <<>>]
  BY LeafIs
<1>2. plan.err = "none" /\ plan.pieces = <<piece>> /\ piece.dict = 0
  BY <1>1
<1> HIDE DEF plan, piece
<1>3. Len(plan.pieces) = 1 /\ Elems(plan.pieces) = {piece}
  BY <1>2 DEF Elems
<1>4. GoodColumn(t)[n][FALSE] /\ GoodColumn(t)[n][TRUE] /\ HasLeaf(t)[n]
  BY GoodIs, HasIs DEF GoodOf, HasOf
<1>5. Plain(plan)
  BY <1>2, <1>3 DEF Plain
<1> QED BY <1>2, <1>3, <1>4, <1>5 DEF Judged

LEMMA ChunkedJudged ==
  ASSUME NEW t \in Trees, NEW n \in 1..Len(t), NEW start, Room(t, n, start), NEW build,
         Typed(t, t[n], build), t[n].id = "chunked",
         \A c \in 1..(n - 1) : \A s \in Nat : Room(t, c, s) => Judged(t, c, build[c][s])
  PROVE  Judged(t, n, ChunkedPlan(t, t[n], start, build))
<1> DEFINE l == t[n]
           m == Len(l.children)
           plan == ChunkedPlan(t, l, start, build)
           P(k) == Part(t, l, start, build, k)
<1> SUFFICES Judged(t, n, plan)
  OBVIOUS
<1>1. /\ plan \in PlanType
      /\ plan.err = "none" <=> ChunksAddUp(t, l) /\ \A i \in 1..m : P(i).err = "none"
  <2>1. IsChunked(plan, t, n, start, build)
    BY ChunkedIs
  <2> HIDE DEF plan
  <2> QED BY <2>1 DEF IsChunked
<1>2. plan.err = "none" => JoinedElems(plan, t, n, start, build)
  BY JoinedIs
<1>3. ASSUME ChunksAddUp(t, l), NEW k \in 1..m
      PROVE  P(k) \in PlanType /\ Judged(t, l.children[k], P(k))
  <2> DEFINE c == l.children[k]
             s == start + RowsBefore(t, l, k)
  <2>1. s \in Nat /\ Room(t, c, s)
    BY <1>3, PartRoom
  <2>2. c \in 1..(n - 1)
    BY TreeFacts
  <2>3. P(k) = build[c][s]
    BY DEF Part
  <2> HIDE DEF s
  <2> QED BY <2>1, <2>2, <2>3 DEF Typed
<1>4. /\ GoodColumn(t)[n][FALSE]
           <=> ChunksAddUp(t, l) /\ \A i \in 1..m : GoodColumn(t)[l.children[i]][FALSE]
      /\ GoodColumn(t)[n][TRUE]
           <=> ChunksAddUp(t, l) /\ \A i \in 1..m : GoodColumn(t)[l.children[i]][TRUE]
      /\ HasLeaf(t)[n] <=> \E i \in 1..m : HasLeaf(t)[l.children[i]]
  BY GoodIs, HasIs DEF GoodOf, HasOf
<1> HIDE DEF plan, P, l, m
<1>5. plan.err = "none" <=> GoodColumn(t)[n][FALSE]
  BY <1>1, <1>3, <1>4 DEF Judged
<1>6. ASSUME plan.err = "none" PROVE HasLeaf(t)[n] <=> Len(plan.pieces) # 0
  <2>1. Elems(plan.pieces) = UNION {Elems(P(k).pieces) : k \in 1..m}
    BY <1>2, <1>6 DEF JoinedElems, P, l, m
  <2>2. ASSUME NEW k \in 1..m PROVE HasLeaf(t)[l.children[k]] <=> Elems(P(k).pieces) # {}
    <3>1. P(k) \in PlanType /\ Judged(t, l.children[k], P(k)) /\ P(k).err = "none"
      BY <1>1, <1>3, <1>6
    <3>2. HasLeaf(t)[l.children[k]] <=> Len(P(k).pieces) # 0
      BY <3>1 DEF Judged
    <3> QED BY <3>1, <3>2, ElemsOf
  <2>3. Elems(plan.pieces) # {} <=> \E k \in 1..m : Elems(P(k).pieces) # {}
    <3>1. \A x : x \in Elems(plan.pieces) <=> \E k \in 1..m : x \in Elems(P(k).pieces)
      BY <2>1
    <3> QED BY <3>1
  <2>4. Elems(plan.pieces) # {} <=> Len(plan.pieces) # 0
    BY <1>1, ElemsOf
  <2> QED BY <1>4, <2>2, <2>3, <2>4
<1>7. GoodColumn(t)[n][TRUE] <=> plan.err = "none" /\ Plain(plan)
  <2>1. ASSUME ChunksAddUp(t, l), NEW k \in 1..m
        PROVE  GoodColumn(t)[l.children[k]][TRUE] <=> P(k).err = "none" /\ Plain(P(k))
    BY <1>3, <2>1 DEF Judged
  <2>2. plan.err = "none" => (Plain(plan) <=> \A k \in 1..m : Plain(P(k)))
    <3> SUFFICES ASSUME plan.err = "none" PROVE Plain(plan) <=> \A k \in 1..m : Plain(P(k))
      OBVIOUS
    <3>1. Elems(plan.pieces) = UNION {Elems(P(k).pieces) : k \in 1..m}
      BY <1>2 DEF JoinedElems, P, l, m
    <3> QED BY <3>1 DEF Plain
  <2> QED BY <1>1, <1>4, <2>1, <2>2
<1> QED BY <1>5, <1>6, <1>7 DEF Judged

LEMMA ScalarJudged ==
  ASSUME NEW t \in Trees, NEW n \in 1..Len(t), NEW start \in Nat, Room(t, n, start)
  PROVE  Judged(t, n, ScalarPlans(t)[n][start])
<1> DEFINE build == ScalarPlans(t)
           S == {k \in 1..Len(t) : \A s \in Nat : Room(t, k, s) => Judged(t, k, build[k][s])}
<1>1. ASSUME NEW k \in 1..Len(t), \A c \in 1..(k - 1) : c \in S PROVE k \in S
  <2> SUFFICES ASSUME NEW s \in Nat, Room(t, k, s) PROVE Judged(t, k, build[k][s])
    OBVIOUS
  <2>1. \A c \in 1..(k - 1) : \A r \in Nat : Room(t, c, r) => Judged(t, c, build[c][r])
    BY <1>1
  <2>2. build[k][s] = ScalarPlan(t, k, s, build)
    BY ScalarIs
  <2>3. Typed(t, t[k], build)
    BY ScalarTypes
  <2> HIDE DEF build, S
  <2> DEFINE l == t[k]
             plan == build[k][s]
  <2>4. CASE l.id = "flat"
    <3>1. plan = Leaf(t, k, s, 0)
      BY <2>2, <2>4 DEF ScalarPlan
    <3> QED BY <2>4, <3>1, LeafJudged
  <2>5. CASE l.id = "chunked"
    <3>1. plan = ChunkedPlan(t, l, s, build)
      BY <2>2, <2>5 DEF ScalarPlan
    <3>2. Judged(t, k, ChunkedPlan(t, l, s, build))
      BY <2>1, <2>3, <2>5, ChunkedJudged
    <3> QED BY <3>1, <3>2
  <2>6. CASE l.id = "zoned"
    <3> DEFINE c == l.children[1]
               data == build[c][s]
    <3>1. IsZoned(plan, t, k, s, data)
      BY <2>2, <2>3, <2>6, ZonedIs
    <3>2. TwoChildren(t, l, 1) => Judged(t, c, data)
      <4> SUFFICES ASSUME TwoChildren(t, l, 1) PROVE Judged(t, c, data)
        OBVIOUS
      <4>1. 1 \in 1..Len(l.children) /\ t[c].rows = l.rows
        BY DEF TwoChildren
      <4>2. c \in 1..(k - 1) /\ Room(t, c, s)
        BY <4>1, TreeFacts DEF Room
      <4> QED BY <2>1, <4>2
    <3>3. /\ GoodColumn(t)[k][FALSE] <=> TwoChildren(t, l, 1) /\ GoodColumn(t)[c][FALSE]
          /\ GoodColumn(t)[k][TRUE] <=> TwoChildren(t, l, 1) /\ GoodColumn(t)[c][TRUE]
          /\ HasLeaf(t)[k] <=> TwoChildren(t, l, 1) /\ HasLeaf(t)[c]
      BY <2>6, GoodIs, HasIs DEF GoodOf, HasOf
    <3> HIDE DEF plan, data, c, l
    <3>4. /\ plan.err = "none" <=> TwoChildren(t, l, 1) /\ data.err = "none"
          /\ plan.err = "none" => plan.pieces = data.pieces
      BY <3>1 DEF IsZoned, l
    <3>5. Judged(t, k, plan)
      BY <3>2, <3>3, <3>4 DEF Judged, Plain
    <3> QED BY <3>5 DEF plan
  <2>7. CASE l.id = "dict"
    <3> DEFINE c == l.children[2]
               d == l.children[1]
               codes == build[c][s]
    <3>1. IsDict(plan, t, k, codes)
      BY <2>2, <2>3, <2>7, DictIs
    <3>2. TwoChildren(t, l, 2) => Judged(t, c, codes) /\ codes \in PlanType /\ d # 0
      <4> SUFFICES ASSUME TwoChildren(t, l, 2)
                   PROVE  Judged(t, c, codes) /\ codes \in PlanType /\ d # 0
        OBVIOUS
      <4>1. 1 \in 1..Len(l.children) /\ 2 \in 1..Len(l.children) /\ t[c].rows = l.rows
        BY DEF TwoChildren
      <4>2. c \in 1..(k - 1) /\ Room(t, c, s) /\ d \in 1..(k - 1)
        BY <4>1, TreeFacts DEF Room
      <4> HIDE DEF d
      <4> QED BY <2>1, <2>3, <4>1, <4>2 DEF Typed
    <3>3. /\ GoodColumn(t)[k][FALSE]
               <=> TwoChildren(t, l, 2) /\ l.codeType /\ GoodColumn(t)[c][TRUE]
          /\ GoodColumn(t)[k][TRUE]
               <=> TwoChildren(t, l, 2) /\ l.codeType /\ GoodColumn(t)[c][TRUE] /\ ~HasLeaf(t)[k]
          /\ HasLeaf(t)[k] <=> TwoChildren(t, l, 2) /\ HasLeaf(t)[c]
      BY <2>7, GoodIs, HasIs DEF GoodOf, HasOf
    <3> HIDE DEF plan, codes, c, d, l
    <3>4. plan.err = "none" <=> /\ TwoChildren(t, l, 2) /\ l.codeType /\ codes.err = "none"
                                /\ Plain(codes)
      <4>1. Plain(codes) <=> \A i \in 1..Len(codes.pieces) : codes.pieces[i].dict = 0
        BY DEF Plain, Elems
      <4> QED BY <3>1, <4>1 DEF IsDict, l
    <3>5. plan.err = "none" <=> GoodColumn(t)[k][FALSE]
      BY <3>2, <3>3, <3>4 DEF Judged
    <3>6. ASSUME plan.err = "none"
          PROVE  /\ HasLeaf(t)[k] <=> Len(plan.pieces) # 0
                 /\ Plain(plan) <=> Len(plan.pieces) = 0
      <4>1. /\ codes \in PlanType /\ Len(plan.pieces) = Len(codes.pieces) /\ plan \in PlanType
            /\ \A i \in 1..Len(codes.pieces) : plan.pieces[i] = [codes.pieces[i] EXCEPT !.dict = d]
        BY <3>1, <3>6 DEF IsDict, d, l
      <4>2. HasLeaf(t)[k] <=> Len(plan.pieces) # 0
        BY <3>2, <3>3, <3>4, <3>6, <4>1 DEF Judged
      <4>3. Len(plan.pieces) = 0 => Plain(plan)
        BY <4>1, ElemsOf DEF Plain
      <4>4. Len(plan.pieces) # 0 => ~Plain(plan)
        <5> SUFFICES ASSUME Len(plan.pieces) # 0 PROVE ~Plain(plan)
          OBVIOUS
        <5>1. Len(plan.pieces) \in Nat /\ 1 \in 1..Len(plan.pieces)
          BY <4>1, ElemsOf
        <5>2. codes.pieces[1] \in PieceType
          BY <4>1, <5>1 DEF PlanType
        <5> DEFINE q == codes.pieces[1]
        <5>3. plan.pieces[1] = [q EXCEPT !.dict = d] /\ q \in PieceType
          BY <4>1, <5>1, <5>2
        <5> HIDE DEF q
        <5>4. plan.pieces[1].dict = d
          BY <5>3 DEF PieceType
        <5>5. plan.pieces[1].dict # 0
          BY <3>2, <3>4, <3>6, <5>4
        <5> QED BY <5>1, <5>5 DEF Plain, Elems
      <4> QED BY <4>2, <4>3, <4>4
    <3>7. GoodColumn(t)[k][TRUE] <=> plan.err = "none" /\ Plain(plan)
      BY <3>3, <3>5, <3>6
    <3>8. Judged(t, k, plan)
      BY <3>5, <3>6, <3>7 DEF Judged
    <3> QED BY <3>8 DEF plan
  <2>8. CASE l.id \notin Ids
    <3>1. plan.err # "none"
      BY <2>2, <2>8, OtherIs, RefusedType
    <3>2. ~GoodColumn(t)[k][FALSE] /\ ~GoodColumn(t)[k][TRUE]
      BY <2>8, GoodIs DEF GoodOf, Ids
    <3> HIDE DEF plan
    <3>3. Judged(t, k, plan)
      BY <3>1, <3>2 DEF Judged
    <3> QED BY <3>3 DEF plan
  <2> QED BY <2>4, <2>5, <2>6, <2>7, <2>8 DEF Ids
<1>2. \A k \in 1..Len(t) : k \in S
  <2> HIDE DEF S
  <2> QED BY <1>1, InTree
<1> QED BY <1>2

LEMMA FieldJudged ==
  ASSUME NEW t \in Trees, NEW f \in Fields, NEW good, IsRoot(good, t, f, Len(t)),
         NEW n \in 1..Len(t), NEW start \in Nat, Room(t, n, start)
  PROVE  FieldPlans(t, f)[n][start].err = "none" <=> good[n]
<1> DEFINE build == FieldPlans(t, f)
           S == {k \in 1..Len(t) :
                  \A s \in Nat : Room(t, k, s) => (build[k][s].err = "none" <=> good[k])}
<1>1. ASSUME NEW k \in 1..Len(t), \A c \in 1..(k - 1) : c \in S PROVE k \in S
  <2> SUFFICES ASSUME NEW s \in Nat, Room(t, k, s) PROVE build[k][s].err = "none" <=> good[k]
    OBVIOUS
  <2>1. \A c \in 1..(k - 1) : \A r \in Nat :
          Room(t, c, r) => (build[c][r].err = "none" <=> good[c])
    BY <1>1
  <2>2. build[k][s] = FieldPlan(t, k, s, f, build)
    BY FieldIs
  <2>3. Typed(t, t[k], build)
    BY FieldTypes
  <2> HIDE DEF build, S
  <2>4. good[k] <=> RootOf(t, k, f, good)
    BY DEF IsRoot
  <2> DEFINE l == t[k]
             plan == build[k][s]
  <2>5. CASE l.id = "flat"
    <3>1. plan = Leaf(t, k, s, f)
      BY <2>2, <2>5 DEF FieldPlan
    <3>2. Leaf(t, k, s, f).err = "none"
      BY FieldNat, LeafIs
    <3> QED BY <2>4, <2>5, <3>1, <3>2 DEF RootOf
  <2>6. CASE l.id = "chunked"
    <3> DEFINE all == ChunkedPlan(t, l, s, build)
    <3>1. plan = all
      BY <2>2, <2>6 DEF FieldPlan
    <3>2. all.err = "none" <=> /\ ChunksAddUp(t, l)
                               /\ \A i \in 1..Len(l.children) : Part(t, l, s, build, i).err = "none"
      <4>1. IsChunked(all, t, k, s, build)
        BY <2>3, ChunkedIs
      <4> HIDE DEF all
      <4> QED BY <4>1 DEF IsChunked
    <3>3. ASSUME ChunksAddUp(t, l), NEW i \in 1..Len(l.children)
          PROVE  Part(t, l, s, build, i).err = "none" <=> good[l.children[i]]
      <4> DEFINE c == l.children[i]
                 r == s + RowsBefore(t, l, i)
      <4>1. r \in Nat /\ Room(t, c, r) /\ c \in 1..(k - 1)
        BY <3>3, PartRoom, TreeFacts
      <4>2. Part(t, l, s, build, i) = build[c][r]
        BY DEF Part
      <4> HIDE DEF r
      <4> QED BY <2>1, <4>1, <4>2
    <3>4. good[k] <=> ChunksAddUp(t, l) /\ \A i \in 1..Len(l.children) : good[l.children[i]]
      BY <2>4, <2>6 DEF RootOf
    <3> HIDE DEF all, l, plan
    <3> QED BY <3>1, <3>2, <3>3, <3>4 DEF plan
  <2>7. CASE l.id = "struct"
    <3> DEFINE c == l.children[f]
               column == ScalarPlans(t)[c][s]
    <3>1. plan.err = "none" <=> Shaped(t, k) /\ column.err = "none"
      <4>1. IsStruct(plan, t, k, column)
        BY <2>2, <2>7, StructIs
      <4> HIDE DEF plan, column
      <4> QED BY <4>1 DEF IsStruct
    <3>2. Shaped(t, k) => (column.err = "none" <=> GoodColumn(t)[c][FALSE])
      <4> SUFFICES ASSUME Shaped(t, k) PROVE column.err = "none" <=> GoodColumn(t)[c][FALSE]
        OBVIOUS
      <4>1. c \in 1..Len(t) /\ Room(t, c, s)
        BY ShapedFacts
      <4>2. Judged(t, c, column)
        BY <4>1, ScalarJudged
      <4> HIDE DEF column
      <4> QED BY <4>2 DEF Judged
    <3>3. good[k] <=> Shaped(t, k) /\ GoodColumn(t)[c][FALSE]
      BY <2>4, <2>7 DEF RootOf, Shaped
    <3> HIDE DEF plan, column, c
    <3> QED BY <3>1, <3>2, <3>3 DEF plan
  <2>8. CASE l.id \notin {"flat", "chunked", "struct"}
    <3>1. plan = Refused("unsupported")
      BY <2>2, <2>8 DEF FieldPlan
    <3>2. plan.err # "none"
      BY <3>1, RefusedType
    <3> QED BY <2>4, <2>8, <3>2 DEF RootOf
  <2> QED BY <2>5, <2>6, <2>7, <2>8
<1>2. \A k \in 1..Len(t) : k \in S
  <2> HIDE DEF S
  <2> QED BY <1>1, InTree
<1> QED BY <1>2

-----------------------------------------------------------------------------
(* Every row has the place the tree gives it.                              *)

\* Chunk k of a layout holds row r.
Holds(t, n, r, k) ==
  k \in 1..Len(t[n].children) /\ RowsBefore(t, t[n], k) <= r /\ r < RowsBefore(t, t[n], k + 1)

LEMMA ChunkOfIs ==
  ASSUME NEW t \in Trees, NEW n \in 1..Len(t), ChunksAddUp(t, t[n]), NEW r \in 0..(t[n].rows - 1)
  PROVE  /\ Holds(t, n, r, ChunkOf(t, t[n], r))
         /\ \A j \in 1..Len(t[n].children) : Holds(t, n, r, j) => j = ChunkOf(t, t[n], r)
<1> DEFINE l == t[n]
           m == Len(l.children)
           B(k) == RowsBefore(t, l, k)
           T == {k \in Nat : k \in 1..m /\ r < B(k + 1)}
<1>1. m \in Nat /\ l.rows \in Nat /\ B(m + 1) = l.rows
  BY TreeFacts DEF ChunksAddUp
<1>2. /\ B(1) = 0
      /\ \A k \in 1..(m + 1) : B(k) \in Nat
      /\ \A k \in 1..(m + 1) : \A j \in 1..k : B(j) <= B(k)
  BY BeforeIs
<1> HIDE DEF B
<1>3. m \in T
  <2>1. m # 0
    BY <1>1, <1>2
  <2> QED BY <1>1, <2>1
<1>4. \E k \in T : \A j \in T : k <= j
  BY <1>3, LeastOf, T \in SUBSET Nat
<1>5. PICK k \in T : \A j \in T : k <= j
  BY <1>4
<1>6. k \in 1..m /\ r < B(k + 1)
  BY <1>5
<1>7. B(k) <= r
  <2>1. CASE k = 1
    BY <1>2, <2>1
  <2>2. CASE k # 1
    <3>1. k - 1 \in 1..m /\ (k - 1) + 1 = k /\ k \in 1..(m + 1) /\ ~(k <= k - 1)
      BY <1>1, <1>6, <2>2
    <3>2. k - 1 \notin T
      BY <1>5, <3>1
    <3>4. ~(r < B((k - 1) + 1))
      BY <3>1, <3>2
    <3>3. B(k) \in Nat
      BY <1>2, <3>1
    <3> QED BY <3>1, <3>3, <3>4
  <2> QED BY <2>1, <2>2
<1>8. Holds(t, n, r, ChunkOf(t, l, r))
  <2>1. \E j \in 1..m : RowsBefore(t, l, j) <= r /\ r < RowsBefore(t, l, j + 1)
    BY <1>6, <1>7 DEF B
  <2> QED BY <2>1 DEF ChunkOf, Holds
<1>9. ASSUME NEW i \in 1..m, NEW j \in 1..m, Holds(t, n, r, i), Holds(t, n, r, j), i < j
      PROVE  FALSE
  <2>1. r < B(i + 1) /\ B(j) <= r
    BY <1>9 DEF Holds, B
  <2>2. i + 1 \in 1..j /\ j \in 1..(m + 1) /\ i + 1 \in 1..(m + 1)
    BY <1>1, <1>9
  <2>3. B(i + 1) <= B(j) /\ B(i + 1) \in Nat /\ B(j) \in Nat
    BY <1>2, <2>2
  <2> QED BY <2>1, <2>3
<1>10. ASSUME NEW j \in 1..m, Holds(t, n, r, j) PROVE j = ChunkOf(t, l, r)
  <2> DEFINE i == ChunkOf(t, l, r)
  <2>1. i \in 1..m /\ Holds(t, n, r, i)
    BY <1>8 DEF Holds
  <2> HIDE DEF i
  <2>2. ~(i < j) /\ ~(j < i)
    BY <1>9, <1>10, <2>1
  <2>3. i = j
    BY <1>1, <2>1, <2>2
  <2> QED BY <2>3 DEF i
<1> QED BY <1>8, <1>10

IsPlace(f, t, field, m) ==
  f = [n \in 1..m |-> [start \in Int |-> [r \in Int |-> Place(t, n, start, r, field, f)]]]

LEMMA PlaceAgree ==
  ASSUME NEW t \in Trees, NEW n \in 1..Len(t), NEW start, NEW r, NEW field, NEW f, NEW g,
         \A c \in 1..(n - 1) : f[c] = g[c]
  PROVE  Place(t, n, start, r, field, f) = Place(t, n, start, r, field, g)
<1> DEFINE l == t[n]
           k == ChunkOf(t, l, r)
<1>1. CASE l.id = "flat"
  BY <1>1 DEF Place
<1>2. CASE l.id = "struct" /\ field \in 1..Len(l.children)
  <2>1. f[l.children[field]] = g[l.children[field]]
    BY <1>2, ChildrenAgree
  <2> QED BY <1>2, <2>1 DEF Place
<1>3. CASE l.id = "chunked" /\ ChunksAddUp(t, l) /\ r \in 0..(l.rows - 1)
  <2>1. k \in 1..Len(l.children)
    BY <1>3, ChunkOfIs DEF Holds
  <2>2. f[l.children[k]] = g[l.children[k]]
    BY <2>1, ChildrenAgree, SMTT(30)
  <2> HIDE DEF k
  <2> QED BY <1>3, <2>2 DEF Place, k
<1>4. CASE l.id = "zoned" /\ TwoChildren(t, l, 1)
  <2>1. Len(l.children) = 2
    BY <1>4 DEF TwoChildren
  <2>2. f[l.children[1]] = g[l.children[1]]
    BY <2>1, ChildrenAgree, SMTT(30)
  <2> QED BY <1>4, <2>2 DEF Place
<1>5. CASE l.id = "dict" /\ TwoChildren(t, l, 2)
  <2>1. Len(l.children) = 2
    BY <1>5 DEF TwoChildren
  <2>2. f[l.children[2]] = g[l.children[2]]
    BY <2>1, ChildrenAgree
  <2> QED BY <1>5, <2>2 DEF Place
<1>6. CASE /\ ~(l.id = "flat") /\ ~(l.id = "struct" /\ field \in 1..Len(l.children))
           /\ ~(l.id = "chunked" /\ ChunksAddUp(t, l) /\ r \in 0..(l.rows - 1))
           /\ ~(l.id = "zoned" /\ TwoChildren(t, l, 1)) /\ ~(l.id = "dict" /\ TwoChildren(t, l, 2))
  BY <1>6 DEF Place
<1> QED BY <1>1, <1>2, <1>3, <1>4, <1>5, <1>6

LEMMA PlaceExists ==
  ASSUME NEW t \in Trees, NEW field, NEW m \in 0..Len(t)
  PROVE  \E f : IsPlace(f, t, field, m)
<1> DEFINE S == {k \in Nat : k <= Len(t) => \E f : IsPlace(f, t, field, k)}
<1>0. Len(t) \in Nat
  BY TreeFacts
<1>1. 0 \in S
  <2> DEFINE f == [n \in 1..0 |-> 0]
  <2>1. f = [n \in 1..0 |-> [start \in Int |-> [r \in Int |-> Place(t, n, start, r, field, f)]]]
    OBVIOUS
  <2> HIDE DEF f
  <2> QED BY <2>1 DEF IsPlace
<1>2. ASSUME NEW k \in S PROVE k + 1 \in S
  <2> SUFFICES ASSUME k + 1 <= Len(t) PROVE \E f : IsPlace(f, t, field, k + 1)
    OBVIOUS
  <2>1. PICK f : IsPlace(f, t, field, k)
    BY <1>0
  <2> DEFINE New(n, p) == [start \in Int |-> [r \in Int |-> Place(t, n, start, r, field, p)]]
             g == [n \in 1..(k + 1) |-> IF n = k + 1 THEN New(n, f) ELSE f[n]]
  <2>2. ASSUME NEW n \in 1..(k + 1) PROVE g[n] = New(n, g)
    <3>1. n \in 1..Len(t) /\ \A c \in 1..(n - 1) : f[c] = g[c]
      BY <1>0
    <3> HIDE DEF g
    <3>2. \A start \in Int : \A r \in Int :
            Place(t, n, start, r, field, f) = Place(t, n, start, r, field, g)
      BY <3>1, PlaceAgree
    <3>3. New(n, f) = New(n, g)
      BY <3>2
    <3>4. g[n] = New(n, f)
      <4>1. CASE n = k + 1
        BY <4>1 DEF g
      <4>2. CASE n # k + 1
        <5>1. n \in 1..k /\ g[n] = f[n]
          BY <4>2 DEF g
        <5> QED BY <2>1, <5>1 DEF IsPlace
      <4> QED BY <4>1, <4>2
    <3> HIDE DEF New
    <3> QED BY <3>3, <3>4
  <2>3. g = [n \in 1..(k + 1) |-> g[n]]
    OBVIOUS
  <2> HIDE DEF g
  <2>4. IsPlace(g, t, field, k + 1)
    BY <2>2, <2>3 DEF IsPlace
  <2> QED BY <2>4
<1> HIDE DEF S
<1>3. S = Nat
  BY <1>1, <1>2, Induct, S \in SUBSET Nat DEF S
<1> QED BY <1>0, <1>3 DEF S

LEMMA PlaceIs ==
  ASSUME NEW t \in Trees, NEW field, NEW n \in 1..Len(t), NEW start \in Int, NEW r \in Int
  PROVE  Places(t, field)[n][start][r] = Place(t, n, start, r, field, Places(t, field))
<1> DEFINE g == CHOOSE f : f = [k \in 1..Len(t) |-> [s \in Int |-> [x \in Int |->
                                  Place(t, k, s, x, field, f)]]]
<1>1. Places(t, field) = g
  BY DEF Places
<1>2. IsPlace(g, t, field, Len(t))
  <2>1. Len(t) \in 0..Len(t)
    BY TreeFacts
  <2>2. \E f : IsPlace(f, t, field, Len(t))
    BY <2>1, PlaceExists
  <2>3. \E f : f = [k \in 1..Len(t) |-> [s \in Int |-> [x \in Int |->
                       Place(t, k, s, x, field, f)]]]
    BY <2>2 DEF IsPlace
  <2> QED BY <2>3 DEF IsPlace
<1> HIDE DEF g
<1>3. g[n][start][r] = Place(t, n, start, r, field, g)
  <2>1. g[n] = [s \in Int |-> [x \in Int |-> Place(t, n, s, x, field, g)]]
    BY <1>2 DEF IsPlace
  <2>2. g[n][start] = [x \in Int |-> Place(t, n, start, x, field, g)]
    BY <2>1
  <2> QED BY <2>2
<1> QED BY <1>1, <1>3

\* Pieces that tile a range lie in it.
LEMMA TilesBound ==
  ASSUME NEW ps \in Seq(PieceType), NEW a \in Int, NEW b \in Int, Tiles(ps, a, b)
  PROVE  \A p \in Elems(ps) : a <= p.start /\ p.end <= b
<1> DEFINE m == Len(ps)
<1>1. m \in Nat /\ \A i \in 1..m : ps[i].start \in Int /\ ps[i].end \in Int
  <2>1. \A p \in PieceType : p.start \in Int /\ p.end \in Int
    BY DEF PieceType
  <2>2. \A i \in 1..m : ps[i] \in PieceType
    OBVIOUS
  <2> QED BY <2>1, <2>2
<1>2. /\ \A i \in 1..m : ps[i].start = From(ps, a, i) /\ ps[i].start <= ps[i].end
      /\ b = From(ps, a, m + 1)
  BY DEF Tiles
<1> HIDE DEF m
<1>3. From(ps, a, 1) = a /\ \A i \in 1..m : From(ps, a, i + 1) = ps[i].end
  <2>1. ASSUME NEW i \in 1..m PROVE i + 1 # 1 /\ (i + 1) - 1 = i
    BY <1>1
  <2> QED BY <2>1 DEF From
<1> DEFINE S == {k \in Nat : k <= m =>
                  /\ From(ps, a, k + 1) \in Int
                  /\ \A j \in 1..(k + 1) : From(ps, a, j) <= From(ps, a, k + 1)}
<1>4. 0 \in S
  BY <1>3
<1>5. ASSUME NEW k \in S PROVE k + 1 \in S
  <2> SUFFICES ASSUME k + 1 <= m
               PROVE  /\ From(ps, a, (k + 1) + 1) \in Int
                      /\ \A j \in 1..((k + 1) + 1) : From(ps, a, j) <= From(ps, a, (k + 1) + 1)
    OBVIOUS
  <2> DEFINE to == From(ps, a, (k + 1) + 1)
             from == From(ps, a, k + 1)
  <2>1. /\ k + 1 \in 1..m /\ k <= m
        /\ from \in Int /\ \A j \in 1..(k + 1) : From(ps, a, j) <= from
    BY <1>1
  <2>2. to = ps[k + 1].end /\ to \in Int /\ from <= to
    BY <1>1, <1>2, <1>3, <2>1
  <2> HIDE DEF to, from
  <2>3. ASSUME NEW j \in 1..((k + 1) + 1) PROVE From(ps, a, j) <= to
    <3>1. CASE j = (k + 1) + 1
      BY <2>2, <3>1 DEF to
    <3>2. CASE j # (k + 1) + 1
      <4>1. j \in 1..m /\ j \in 1..(k + 1)
        BY <1>1, <2>1, <3>2
      <4>2. From(ps, a, j) \in Int /\ From(ps, a, j) <= from
        BY <1>1, <1>2, <2>1, <4>1
      <4> QED BY <2>1, <2>2, <4>2
    <3> QED BY <3>1, <3>2
  <2> QED BY <2>2, <2>3 DEF to
<1> HIDE DEF S
<1>6. S = Nat
  BY <1>4, <1>5, Induct, S \in SUBSET Nat DEF S
<1>7. ASSUME NEW k \in 0..m, NEW j \in 1..(k + 1)
      PROVE  From(ps, a, j) <= From(ps, a, k + 1)
  BY <1>1, <1>6 DEF S
<1>8. ASSUME NEW i \in 1..m PROVE a <= ps[i].start /\ ps[i].end <= b
  <2>1. i - 1 \in 0..m /\ 1 \in 1..((i - 1) + 1) /\ (i - 1) + 1 = i
    BY <1>1
  <2>2. From(ps, a, 1) <= From(ps, a, (i - 1) + 1)
    BY <1>7, <2>1
  <2>3. m \in 0..m /\ i + 1 \in 1..(m + 1)
    BY <1>1
  <2>4. From(ps, a, i + 1) <= From(ps, a, m + 1)
    BY <1>7, <2>3
  <2> QED BY <1>2, <1>3, <2>1, <2>2, <2>4
<1> QED BY <1>8 DEF Elems, m

PlaceType == [node : Nat, row : Int, field : Nat, dict : Nat, zones : SUBSET ZoneType]

\* Where piece p puts row x of its column; below a struct, pieces have field 0.
AtPlace(p, x, at, scalar) ==
  /\ p.node = at.node /\ x - p.start = at.row /\ p.dict = at.dict
  /\ p.field = IF scalar THEN 0 ELSE at.field

Lying(zs, x) == {z \in Elems(zs) : z.start <= x /\ x < z.end}

\* What a plan says of row x of its column is its place.
Shows(plan, x, at, scalar) ==
  /\ at \in PlaceType
  /\ Lying(plan.zones, x) = at.zones
  /\ \A p \in Elems(plan.pieces) : p.start <= x /\ x < p.end => AtPlace(p, x, at, scalar)

\* A plan shows the place of every row of its layout.
ShowsAll(t, n, start, plan, place, scalar) ==
  plan.err = "none" =>
    \A r \in 0..(t[n].rows - 1) : Shows(plan, start + r, place[n][start][r], scalar)

LEMMA LeafShows ==
  ASSUME NEW t \in Trees, NEW n \in 1..Len(t), NEW start, Room(t, n, start),
         NEW f \in Nat, NEW field \in Nat, NEW scalar \in BOOLEAN, field = IF scalar THEN 0 ELSE f,
         t[n].id = "flat"
  PROVE  ShowsAll(t, n, start, Leaf(t, n, start, field), Places(t, f), scalar)
<1> DEFINE piece == [start |-> start, end |-> start + t[n].rows, node |-> n,
                     field |-> field, dict |-> 0]
           plan == Leaf(t, n, start, field)
<1> SUFFICES ASSUME NEW r \in 0..(t[n].rows - 1)
             PROVE  Shows(plan, start + r, Places(t, f)[n][start][r], scalar)
  BY DEF ShowsAll
<1> DEFINE at == Places(t, f)[n][start][r]
<1>1. plan = [err |-> "none", pieces |-> <<piece>>, zones |-> <<>>]
  BY LeafIs
<1>2. plan.pieces = <<piece>> /\ plan.zones = <<>>
  BY <1>1
<1>3. start \in Nat /\ r \in Int /\ n \in Nat /\ (start + r) - start = r
  BY TreeFacts DEF Room
<1>4. at = [node |-> n, row |-> r, field |-> f, dict |-> 0, zones |-> {}]
  <2>1. at = Place(t, n, start, r, f, Places(t, f))
    BY <1>3, PlaceIs
  <2> QED BY <2>1 DEF Place, NoPlace
<1> HIDE DEF plan, at
<1>5. at \in PlaceType
  BY <1>3, <1>4 DEF PlaceType
<1>6. Lying(plan.zones, start + r) = at.zones
  BY <1>2, <1>4 DEF Lying, Elems
<1>7. Elems(plan.pieces) = {piece}
  <2> HIDE DEF piece
  <2> QED BY <1>2 DEF Elems
<1>8. AtPlace(piece, start + r, at, scalar)
  BY <1>3, <1>4 DEF AtPlace
<1> HIDE DEF piece
<1>9. Shows(plan, start + r, at, scalar)
  BY <1>5, <1>6, <1>7, <1>8 DEF Shows
<1> QED BY <1>9 DEF at

LEMMA ChunkedShows ==
  ASSUME NEW t \in Trees, NEW n \in 1..Len(t), NEW start, Room(t, n, start), NEW build,
         Typed(t, t[n], build), t[n].id = "chunked", NEW f, NEW scalar,
         \A c \in 1..(n - 1) : \A s \in Nat : Room(t, c, s) =>
           Covers(t, c, s, build[c][s]) /\ ShowsAll(t, c, s, build[c][s], Places(t, f), scalar)
  PROVE  ShowsAll(t, n, start, ChunkedPlan(t, t[n], start, build), Places(t, f), scalar)
<1> DEFINE l == t[n]
           m == Len(l.children)
           plan == ChunkedPlan(t, l, start, build)
           B(k) == RowsBefore(t, l, k)
           P(k) == Part(t, l, start, build, k)
<1> SUFFICES ASSUME plan.err = "none", NEW r \in 0..(l.rows - 1)
             PROVE  Shows(plan, start + r, Places(t, f)[n][start][r], scalar)
  BY DEF ShowsAll
<1> DEFINE at == Places(t, f)[n][start][r]
           x == start + r
           k == ChunkOf(t, l, r)
<1>1. ChunksAddUp(t, l) /\ \A i \in 1..m : P(i).err = "none"
  <2>1. IsChunked(plan, t, n, start, build)
    BY ChunkedIs
  <2> HIDE DEF plan
  <2> QED BY <2>1 DEF IsChunked
<1>2. JoinedElems(plan, t, n, start, build)
  BY JoinedIs
<1>3. /\ m \in Nat /\ start \in Nat /\ r \in Nat /\ x \in Int
      /\ \A j \in 1..m : B(j) \in Nat /\ B(j + 1) \in Nat
  <2>1. m \in Nat /\ start \in Nat /\ r \in Nat
    BY TreeFacts DEF Room
  <2>2. \A j \in 1..m : j \in 1..(m + 1) /\ j + 1 \in 1..(m + 1)
    BY <2>1
  <2> QED BY <2>1, <2>2, BeforeIs
<1>4. k \in 1..m /\ B(k) <= r /\ r < B(k + 1) /\ \A j \in 1..m : B(j) <= r /\ r < B(j + 1) => j = k
  BY <1>1, ChunkOfIs DEF Holds
<1>5. ASSUME NEW j \in 1..m
      PROVE  /\ P(j) \in PlanType /\ Fits(P(j), start + B(j), start + B(j + 1))
             /\ ShowsAll(t, l.children[j], start + B(j), P(j), Places(t, f), scalar)
             /\ start + B(j) + t[l.children[j]].rows = start + B(j + 1)
  <2> DEFINE c == l.children[j]
             s == start + B(j)
  <2>1. s \in Nat /\ s + t[c].rows = start + B(j + 1) /\ Room(t, c, s)
    BY <1>1, PartRoom
  <2>2. c \in 1..(n - 1)
    BY TreeFacts
  <2>3. Covers(t, c, s, build[c][s]) /\ ShowsAll(t, c, s, build[c][s], Places(t, f), scalar)
    BY <2>1, <2>2
  <2>4. P(j) = build[c][s]
    BY DEF Part
  <2>5. P(j) \in PlanType
    BY <2>1, <2>4 DEF Typed
  <2> HIDE DEF P, B, s, c
  <2> QED BY <1>1, <2>1, <2>3, <2>4, <2>5 DEF Covers, s, c
<1>6. ASSUME NEW j \in 1..m, j # k
      PROVE  /\ \A p \in Elems(P(j).pieces) : ~(p.start <= x /\ x < p.end)
             /\ \A z \in Elems(P(j).zones) : ~(z.start <= x /\ x < z.end)
  <2> DEFINE a == start + B(j)
             b == start + B(j + 1)
  <2>1. a \in Int /\ b \in Int /\ ~(a <= x /\ x < b)
    <3>1. ~(B(j) <= r /\ r < B(j + 1)) /\ B(j) \in Nat /\ B(j + 1) \in Nat
      BY <1>3, <1>4, <1>6
    <3> HIDE DEF B
    <3> QED BY <1>3, <3>1
  <2> HIDE DEF P, B, x
  <2>2. P(j) \in PlanType /\ Tiles(P(j).pieces, a, b) /\ Within(P(j).zones, a, b)
    BY <1>5 DEF Fits
  <2>3. P(j).pieces \in Seq(PieceType) /\ Elems(P(j).pieces) \subseteq PieceType
        /\ Elems(P(j).zones) \subseteq ZoneType
    BY <2>2, ElemsOf DEF PlanType
  <2> HIDE DEF a, b
  <2>4. \A p \in Elems(P(j).pieces) : a <= p.start /\ p.end <= b
    BY <2>1, <2>2, <2>3, TilesBound
  <2>5. \A z \in Elems(P(j).zones) : a <= z.start /\ z.end <= b
    BY <2>2 DEF Within, Elems
  <2>6. ASSUME NEW p \in Elems(P(j).pieces) PROVE ~(p.start <= x /\ x < p.end)
    <3>1. p \in PieceType /\ a <= p.start /\ p.end <= b
      BY <2>3, <2>4
    <3>2. p.start \in Int /\ p.end \in Int
      BY <3>1 DEF PieceType
    <3> QED BY <1>3, <2>1, <3>1, <3>2, SMTT(30)
  <2>7. ASSUME NEW z \in Elems(P(j).zones) PROVE ~(z.start <= x /\ x < z.end)
    <3>1. z \in ZoneType /\ a <= z.start /\ z.end <= b
      BY <2>3, <2>5
    <3>2. z.start \in Int /\ z.end \in Int
      BY <3>1 DEF ZoneType
    <3> QED BY <1>3, <2>1, <3>1, <3>2, SMTT(30)
  <2> QED BY <2>6, <2>7
<1>7. Shows(P(k), x, at, scalar)
  <2> DEFINE c == l.children[k]
             s == start + B(k)
             q == r - B(k)
  <2>1. at = Places(t, f)[c][s][q]
    <3>1. at = Place(t, n, start, r, f, Places(t, f))
      BY <1>3, PlaceIs
    <3>2. Place(t, n, start, r, f, Places(t, f)) = Places(t, f)[c][s][q]
      BY <1>1 DEF Place
    <3> QED BY <3>1, <3>2
  <2>2. /\ ShowsAll(t, c, s, P(k), Places(t, f), scalar)
        /\ s + t[c].rows = start + B(k + 1)
    BY <1>4, <1>5
  <2>3. t[c].rows \in Nat
    BY <1>4, TreeFacts
  <2>4. q \in 0..(t[c].rows - 1) /\ s + q = x
    <3> DEFINE rows == t[c].rows
               b == B(k)
               e == B(k + 1)
    <3>1. b \in Nat /\ e \in Nat /\ b <= r /\ r < e /\ start + b + rows = start + e /\ rows \in Nat
      BY <1>3, <1>4, <2>2, <2>3
    <3> HIDE DEF b, e, rows
    <3>2. (r - b) \in 0..(rows - 1) /\ (start + b) + (r - b) = start + r
      BY <1>3, <3>1
    <3> QED BY <3>2 DEF b, rows
  <2>5. P(k).err = "none"
    BY <1>1, <1>4
  <2> HIDE DEF at, P, q, s, c
  <2> QED BY <2>1, <2>2, <2>4, <2>5 DEF ShowsAll
<1> HIDE DEF at, x, k
<1>8. /\ Elems(plan.pieces) = UNION {Elems(P(j).pieces) : j \in 1..m}
      /\ Elems(plan.zones) = UNION {Elems(P(j).zones) : j \in 1..m}
  BY <1>2 DEF JoinedElems
<1> HIDE DEF plan, P, m
<1>9. Lying(plan.zones, x) = Lying(P(k).zones, x)
  BY <1>4, <1>6, <1>8 DEF Lying
<1>10. ASSUME NEW p \in Elems(plan.pieces), p.start <= x /\ x < p.end
       PROVE  p \in Elems(P(k).pieces)
  <2>1. PICK j \in 1..m : p \in Elems(P(j).pieces)
    BY <1>8
  <2>2. j = k
    BY <1>6, <1>10, <2>1
  <2> QED BY <2>1, <2>2
<1>11. Shows(plan, x, at, scalar)
  BY <1>7, <1>9, <1>10 DEF Shows
<1> QED BY <1>11 DEF x, at

LEMMA ZonedShows ==
  ASSUME NEW t \in Trees, NEW n \in 1..Len(t), NEW start, Room(t, n, start), NEW build,
         Typed(t, t[n], build), t[n].id = "zoned", NEW f,
         \A c \in 1..(n - 1) : \A s \in Nat : Room(t, c, s) =>
           ShowsAll(t, c, s, build[c][s], Places(t, f), TRUE)
  PROVE  ShowsAll(t, n, start, ScalarPlan(t, n, start, build), Places(t, f), TRUE)
<1> DEFINE l == t[n]
           c == l.children[1]
           plan == ScalarPlan(t, n, start, build)
           data == build[c][start]
           zone == Zone(t, l, start)
<1> SUFFICES ASSUME plan.err = "none", NEW r \in 0..(l.rows - 1)
             PROVE  Shows(plan, start + r, Places(t, f)[n][start][r], TRUE)
  BY DEF ShowsAll
<1> DEFINE at == Places(t, f)[n][start][r]
           below == Places(t, f)[c][start][r]
           x == start + r
<1>1. /\ TwoChildren(t, l, 1) /\ data.err = "none" /\ data \in PlanType
      /\ plan.pieces = data.pieces /\ plan.zones = <<zone>> \o data.zones
  <2>1. IsZoned(plan, t, n, start, data)
    BY ZonedIs
  <2> HIDE DEF plan, data, zone
  <2> QED BY <2>1 DEF IsZoned, zone
<1>2. start \in Nat /\ r \in Nat /\ l.rows \in Nat /\ start <= x /\ x < start + l.rows
  BY TreeFacts DEF Room
<1>3. Shows(data, x, below, TRUE)
  <2>1. 1 \in 1..Len(l.children) /\ t[c].rows = l.rows
    <3> HIDE DEF plan, data, zone, at, below, x
    <3> QED BY <1>1, SMTT(30) DEF TwoChildren
  <2>2. c \in 1..(n - 1) /\ Room(t, c, start)
    BY <2>1, TreeFacts DEF Room
  <2>3. ShowsAll(t, c, start, data, Places(t, f), TRUE)
    BY <1>2, <2>2
  <2> HIDE DEF data, c
  <2> QED BY <1>1, <2>1, <2>3 DEF ShowsAll
<1>4. at = [below EXCEPT !.zones = @ \cup {zone}]
  <2>1. at = Place(t, n, start, r, f, Places(t, f))
    BY <1>2, PlaceIs
  <2> QED BY <1>1, <2>1 DEF Place
<1>5. zone \in ZoneType /\ zone.start = start /\ zone.end = start + l.rows
  BY ZoneIs
<1> HIDE DEF at, below, plan, data, zone
<1>6. below \in PlaceType
  BY <1>3 DEF Shows
<1>7. /\ at \in PlaceType /\ at.zones = below.zones \cup {zone}
      /\ at.node = below.node /\ at.row = below.row /\ at.dict = below.dict
  BY <1>4, <1>5, <1>6 DEF PlaceType
<1>8. Elems(plan.zones) = {zone} \cup Elems(data.zones)
  <2>1. <<zone>> \in Seq(ZoneType) /\ data.zones \in Seq(ZoneType)
    BY <1>1, <1>5 DEF PlanType
  <2>2. Elems(<<zone>>) = {zone}
    BY DEF Elems
  <2>3. Elems(<<zone>> \o data.zones) = Elems(<<zone>>) \cup Elems(data.zones)
    <3> DEFINE p == <<zone>>
               q == data.zones
    <3>1. p \in Seq(ZoneType) /\ q \in Seq(ZoneType)
      BY <2>1
    <3> HIDE DEF p, q
    <3>2. Elems(p \o q) = Elems(p) \cup Elems(q)
      BY <3>1, ElemsJoin
    <3> QED BY <3>2 DEF p, q
  <2> QED BY <1>1, <2>2, <2>3
<1>9. zone.start <= x /\ x < zone.end
  BY <1>2, <1>5
<1> HIDE DEF x
<1>10. Lying(plan.zones, x) = at.zones
  <2>1. Lying(data.zones, x) = below.zones
    BY <1>3 DEF Shows
  <2>2. Lying(plan.zones, x) = {zone} \cup Lying(data.zones, x)
    BY <1>8, <1>9 DEF Lying
  <2> QED BY <1>7, <2>1, <2>2
<1>11. \A p \in Elems(plan.pieces) : p.start <= x /\ x < p.end => AtPlace(p, x, at, TRUE)
  BY <1>1, <1>3, <1>7 DEF Shows, AtPlace
<1>12. Shows(plan, x, at, TRUE)
  BY <1>7, <1>10, <1>11 DEF Shows
<1> QED BY <1>12 DEF x, at

LEMMA DictShows ==
  ASSUME NEW t \in Trees, NEW n \in 1..Len(t), NEW start, Room(t, n, start), NEW build,
         Typed(t, t[n], build), t[n].id = "dict", NEW f,
         \A c \in 1..(n - 1) : \A s \in Nat : Room(t, c, s) =>
           ShowsAll(t, c, s, build[c][s], Places(t, f), TRUE)
  PROVE  ShowsAll(t, n, start, ScalarPlan(t, n, start, build), Places(t, f), TRUE)
<1> DEFINE l == t[n]
           c == l.children[2]
           d == l.children[1]
           plan == ScalarPlan(t, n, start, build)
           codes == build[c][start]
<1> SUFFICES ASSUME plan.err = "none", NEW r \in 0..(l.rows - 1)
             PROVE  Shows(plan, start + r, Places(t, f)[n][start][r], TRUE)
  BY DEF ShowsAll
<1> DEFINE at == Places(t, f)[n][start][r]
           below == Places(t, f)[c][start][r]
           x == start + r
<1>1. /\ TwoChildren(t, l, 2) /\ codes.err = "none" /\ codes \in PlanType
      /\ plan.zones = <<>> /\ Len(plan.pieces) = Len(codes.pieces)
      /\ \A i \in 1..Len(codes.pieces) : plan.pieces[i] = [codes.pieces[i] EXCEPT !.dict = d]
  <2>1. IsDict(plan, t, n, codes)
    BY DictIs
  <2> HIDE DEF plan, codes, d
  <2> QED BY <2>1 DEF IsDict, d
<1>2. start \in Nat /\ r \in Nat
  BY TreeFacts DEF Room
<1>3. Shows(codes, x, below, TRUE) /\ d \in Nat
  <2>1. 1 \in 1..Len(l.children) /\ 2 \in 1..Len(l.children) /\ t[c].rows = l.rows
    <3> HIDE DEF plan, codes, d, at, below, x
    <3> QED BY <1>1, SMTT(30) DEF TwoChildren
  <2>2. c \in 1..(n - 1) /\ Room(t, c, start) /\ d \in 1..(n - 1)
    BY <2>1, TreeFacts DEF Room
  <2>3. ShowsAll(t, c, start, codes, Places(t, f), TRUE)
    BY <1>2, <2>2
  <2>4. d \in Nat
    BY <2>2
  <2> HIDE DEF codes, c, d
  <2>5. Shows(codes, x, below, TRUE)
    BY <1>1, <2>1, <2>3 DEF ShowsAll
  <2> QED BY <2>4, <2>5
<1>4. at = [below EXCEPT !.zones = {}, !.dict = d]
  <2>1. at = Place(t, n, start, r, f, Places(t, f))
    BY <1>2, PlaceIs
  <2> QED BY <1>1, <2>1 DEF Place
<1> HIDE DEF at, below, plan, codes, d, x
<1>5. below \in PlaceType
  BY <1>3 DEF Shows
<1>6. /\ at \in PlaceType /\ at.zones = {} /\ at.dict = d
      /\ at.node = below.node /\ at.row = below.row
  BY <1>3, <1>4, <1>5 DEF PlaceType
<1>7. Lying(plan.zones, x) = at.zones
  BY <1>1, <1>6 DEF Lying, Elems
<1>8. ASSUME NEW i \in 1..Len(plan.pieces),
             plan.pieces[i].start <= x /\ x < plan.pieces[i].end
      PROVE  AtPlace(plan.pieces[i], x, at, TRUE)
  <2> DEFINE p == plan.pieces[i]
             q == codes.pieces[i]
  <2>1. i \in 1..Len(codes.pieces) /\ codes.pieces \in Seq(PieceType)
    BY <1>1 DEF PlanType
  <2>2. q \in PieceType /\ p = [q EXCEPT !.dict = d] /\ q \in Elems(codes.pieces)
    BY <1>1, <2>1 DEF Elems
  <2>3. p.start <= x /\ x < p.end
    BY <1>8
  <2> HIDE DEF p, q
  <2>4. /\ p.start = q.start /\ p.end = q.end /\ p.node = q.node /\ p.field = q.field
        /\ p.dict = d
    BY <2>2 DEF PieceType
  <2>5. AtPlace(q, x, below, TRUE)
    BY <1>3, <2>2, <2>3, <2>4 DEF Shows
  <2>6. AtPlace(p, x, at, TRUE)
    BY <1>6, <2>4, <2>5 DEF AtPlace
  <2> QED BY <2>6 DEF p
<1>9. \A p \in Elems(plan.pieces) : p.start <= x /\ x < p.end => AtPlace(p, x, at, TRUE)
  BY <1>8 DEF Elems
<1>10. Shows(plan, x, at, TRUE)
  BY <1>6, <1>7, <1>9 DEF Shows
<1> QED BY <1>10 DEF x, at

LEMMA ScalarShows ==
  ASSUME NEW t \in Trees, NEW f \in Nat, NEW n \in 1..Len(t), NEW start \in Nat, Room(t, n, start)
  PROVE  ShowsAll(t, n, start, ScalarPlans(t)[n][start], Places(t, f), TRUE)
<1> DEFINE build == ScalarPlans(t)
           S == {k \in 1..Len(t) : \A s \in Nat : Room(t, k, s) =>
                   ShowsAll(t, k, s, build[k][s], Places(t, f), TRUE)}
<1>1. ASSUME NEW k \in 1..Len(t), \A c \in 1..(k - 1) : c \in S PROVE k \in S
  <2> SUFFICES ASSUME NEW s \in Nat, Room(t, k, s)
               PROVE  ShowsAll(t, k, s, build[k][s], Places(t, f), TRUE)
    OBVIOUS
  <2>1. \A c \in 1..(k - 1) : \A r \in Nat : Room(t, c, r) =>
          ShowsAll(t, c, r, build[c][r], Places(t, f), TRUE)
    BY <1>1
  <2>2. build[k][s] = ScalarPlan(t, k, s, build)
    BY ScalarIs
  <2>3. Typed(t, t[k], build)
    BY ScalarTypes
  <2>4. ASSUME NEW c \in 1..(k - 1), NEW r \in Nat, Room(t, c, r)
        PROVE  Covers(t, c, r, build[c][r])
    <3>1. c \in 1..Len(t)
      BY TreeFacts
    <3> QED BY <2>4, <3>1, ScalarCovers
  <2> HIDE DEF build, S
  <2>5. CASE t[k].id = "flat"
    <3>1. build[k][s] = Leaf(t, k, s, 0)
      BY <2>2, <2>5 DEF ScalarPlan
    <3>2. ShowsAll(t, k, s, Leaf(t, k, s, 0), Places(t, f), TRUE)
      BY <2>5, LeafShows
    <3> QED BY <3>1, <3>2
  <2>6. CASE t[k].id = "chunked"
    <3>1. build[k][s] = ChunkedPlan(t, t[k], s, build)
      BY <2>2, <2>6 DEF ScalarPlan
    <3>2. ShowsAll(t, k, s, ChunkedPlan(t, t[k], s, build), Places(t, f), TRUE)
      BY <2>1, <2>3, <2>4, <2>6, ChunkedShows
    <3> QED BY <3>1, <3>2
  <2>7. CASE t[k].id = "zoned"
    BY <2>1, <2>2, <2>3, <2>7, ZonedShows
  <2>8. CASE t[k].id = "dict"
    BY <2>1, <2>2, <2>3, <2>8, DictShows
  <2>9. CASE t[k].id \notin Ids
    <3>1. build[k][s].err # "none"
      BY <2>2, <2>9, OtherIs, RefusedType
    <3> QED BY <3>1 DEF ShowsAll
  <2> QED BY <2>5, <2>6, <2>7, <2>8, <2>9 DEF Ids
<1>2. \A k \in 1..Len(t) : k \in S
  <2> HIDE DEF S
  <2> QED BY <1>1, InTree
<1> QED BY <1>2

LEMMA StructShows ==
  ASSUME NEW t \in Trees, NEW f \in Fields, NEW n \in 1..Len(t), NEW start, Room(t, n, start),
         NEW build, t[n].id = "struct"
  PROVE  ShowsAll(t, n, start, FieldPlan(t, n, start, f, build), Places(t, f), FALSE)
<1> DEFINE l == t[n]
           c == l.children[f]
           plan == FieldPlan(t, n, start, f, build)
           column == ScalarPlans(t)[c][start]
<1> SUFFICES ASSUME plan.err = "none", NEW r \in 0..(l.rows - 1)
             PROVE  Shows(plan, start + r, Places(t, f)[n][start][r], FALSE)
  BY DEF ShowsAll
<1> DEFINE at == Places(t, f)[n][start][r]
           below == Places(t, f)[c][start][r]
           x == start + r
<1>1. Shaped(t, n) /\ column.err = "none" /\ plan = column
  <2>1. IsStruct(plan, t, n, column)
    BY StructIs
  <2> HIDE DEF plan, column
  <2> QED BY <2>1 DEF IsStruct
<1>2. start \in Nat /\ r \in Int /\ f \in Nat /\ f \in 1..Len(l.children)
  BY <1>1, TreeFacts, FieldNat, FieldsAssumption DEF Room, Shaped
<1>3. Shows(column, x, below, TRUE)
  <2>1. c \in 1..Len(t) /\ t[c].rows = l.rows /\ Room(t, c, start)
    BY <1>1, ShapedFacts
  <2>2. ShowsAll(t, c, start, column, Places(t, f), TRUE)
    BY <1>2, <2>1, ScalarShows
  <2> HIDE DEF column, c
  <2> QED BY <1>1, <2>1, <2>2 DEF ShowsAll
<1>4. at = [below EXCEPT !.field = 0]
  <2>1. at = Place(t, n, start, r, f, Places(t, f))
    BY <1>2, PlaceIs
  <2> QED BY <1>2, <2>1 DEF Place
<1> HIDE DEF at, below, plan, column, x
<1>5. below \in PlaceType
  BY <1>3 DEF Shows
<1>6. /\ at \in PlaceType /\ at.zones = below.zones /\ at.dict = below.dict
      /\ at.node = below.node /\ at.row = below.row /\ at.field = 0
  BY <1>4, <1>5 DEF PlaceType
<1>7. Shows(plan, x, at, FALSE)
  BY <1>1, <1>3, <1>6 DEF Shows, AtPlace
<1> QED BY <1>7 DEF x, at

LEMMA FieldShows ==
  ASSUME NEW t \in Trees, NEW f \in Fields, NEW n \in 1..Len(t), NEW start \in Nat,
         Room(t, n, start)
  PROVE  ShowsAll(t, n, start, FieldPlans(t, f)[n][start], Places(t, f), FALSE)
<1> DEFINE build == FieldPlans(t, f)
           S == {k \in 1..Len(t) : \A s \in Nat : Room(t, k, s) =>
                   ShowsAll(t, k, s, build[k][s], Places(t, f), FALSE)}
<1>1. ASSUME NEW k \in 1..Len(t), \A c \in 1..(k - 1) : c \in S PROVE k \in S
  <2> SUFFICES ASSUME NEW s \in Nat, Room(t, k, s)
               PROVE  ShowsAll(t, k, s, build[k][s], Places(t, f), FALSE)
    OBVIOUS
  <2>1. \A c \in 1..(k - 1) : \A r \in Nat : Room(t, c, r) =>
          ShowsAll(t, c, r, build[c][r], Places(t, f), FALSE)
    BY <1>1
  <2>2. build[k][s] = FieldPlan(t, k, s, f, build)
    BY FieldIs
  <2>3. Typed(t, t[k], build)
    BY FieldTypes
  <2>4. ASSUME NEW c \in 1..(k - 1), NEW r \in Nat, Room(t, c, r)
        PROVE  Covers(t, c, r, build[c][r])
    <3>1. c \in 1..Len(t)
      BY TreeFacts
    <3> QED BY <2>4, <3>1, FieldCovers
  <2> HIDE DEF build, S
  <2>5. CASE t[k].id = "flat"
    <3>1. build[k][s] = Leaf(t, k, s, f)
      BY <2>2, <2>5 DEF FieldPlan
    <3>2. ShowsAll(t, k, s, Leaf(t, k, s, f), Places(t, f), FALSE)
      BY <2>5, FieldNat, LeafShows
    <3> QED BY <3>1, <3>2
  <2>6. CASE t[k].id = "chunked"
    <3>1. build[k][s] = ChunkedPlan(t, t[k], s, build)
      BY <2>2, <2>6 DEF FieldPlan
    <3>2. ShowsAll(t, k, s, ChunkedPlan(t, t[k], s, build), Places(t, f), FALSE)
      BY <2>1, <2>3, <2>4, <2>6, ChunkedShows
    <3> QED BY <3>1, <3>2
  <2>7. CASE t[k].id = "struct"
    BY <2>2, <2>7, StructShows
  <2>8. CASE t[k].id \notin {"flat", "chunked", "struct"}
    <3>1. build[k][s] = Refused("unsupported")
      BY <2>2, <2>8 DEF FieldPlan
    <3>2. build[k][s].err # "none"
      BY <3>1, RefusedType
    <3> QED BY <3>2 DEF ShowsAll
  <2> QED BY <2>5, <2>6, <2>7, <2>8
<1>2. \A k \in 1..Len(t) : k \in S
  <2> HIDE DEF S
  <2> QED BY <1>1, InTree
<1> QED BY <1>2

-----------------------------------------------------------------------------
(* The reader's plans are those of its columns.                            *)

RootPlan(t, f) == FieldPlans(t, f)[Len(t)][0]

PlanInv ==
  /\ tree \in Trees
  /\ DOMAIN plans \subseteq Fields
  /\ \A f \in DOMAIN plans : plans[f] = RootPlan(tree, f) /\ plans[f].err = "none"
  /\ err # "none" => \E f \in Fields \ DOMAIN plans : RootPlan(tree, f).err # "none"

LEMMA InitPlans == Init => PlanInv
BY DEF Init, PlanInv

LEMMA NextPlans == PlanInv /\ [Next]_vars => PlanInv'
<1> SUFFICES ASSUME PlanInv, [Next]_vars PROVE PlanInv'
  OBVIOUS
<1>1. CASE UNCHANGED vars
  BY <1>1 DEF PlanInv, vars
<1>2. CASE Next
  <2>1. PICK f \in Fields : GetPlan(f)
    BY <1>2 DEF Next
  <2> DEFINE plan == RootPlan(tree, f)
  <2>2. tree' = tree /\ f \notin DOMAIN plans /\ err = "none"
    BY <2>1 DEF GetPlan
  <2>3. CASE plan.err = "none"
    <3>1. /\ plans' = [g \in DOMAIN plans \cup {f} |-> IF g = f THEN plan ELSE plans[g]]
          /\ err' = err
      BY <2>1, <2>3 DEF GetPlan, RootPlan
    <3> HIDE DEF plan
    <3>2. DOMAIN plans' = DOMAIN plans \cup {f}
      BY <3>1
    <3>3. ASSUME NEW g \in DOMAIN plans'
          PROVE  plans'[g] = RootPlan(tree, g) /\ plans'[g].err = "none"
      <4>1. CASE g = f
        BY <2>3, <3>1, <3>2, <4>1 DEF plan
      <4>2. CASE g # f
        BY <3>1, <3>2, <4>2 DEF PlanInv
      <4> QED BY <4>1, <4>2
    <3> QED BY <2>2, <3>1, <3>2, <3>3 DEF PlanInv
  <2>4. CASE plan.err # "none"
    <3>1. plans' = plans /\ f \in Fields \ DOMAIN plans
      BY <2>1, <2>2, <2>4 DEF GetPlan, RootPlan
    <3> QED BY <2>2, <2>4, <3>1 DEF PlanInv
  <2> QED BY <2>3, <2>4
<1> QED BY <1>1, <1>2

LEMMA PlansOfColumns == Spec => []PlanInv
BY InitPlans, NextPlans, PTL DEF Spec

LEMMA RootRoom ==
  ASSUME NEW t \in Trees
  PROVE  Len(t) \in 1..Len(t) /\ Room(t, Len(t), 0)
BY TreeFacts, HalfAssumption DEF Room

LEMMA PlansTile == PlanInv => PlanTilesRows
<1> SUFFICES ASSUME PlanInv, NEW f \in DOMAIN plans
             PROVE  LET ps == plans[f].pieces
                        zs == plans[f].zones
                    IN  /\ \A i \in 1..Len(ps) :
                              /\ ps[i].start = IF i = 1 THEN 0 ELSE ps[i - 1].end
                              /\ ps[i].start <= ps[i].end
                        /\ Rows = IF Len(ps) = 0 THEN 0 ELSE ps[Len(ps)].end
                        /\ \A i \in 1..Len(zs) :
                              0 <= zs[i].start /\ zs[i].start <= zs[i].end /\ zs[i].end <= Rows
  BY DEF PlanTilesRows
<1>1. tree \in Trees /\ f \in Fields /\ plans[f] = RootPlan(tree, f) /\ plans[f].err = "none"
  BY DEF PlanInv
<1>2. Rows \in Nat /\ 0 + Rows = Rows
  BY <1>1, TreeFacts DEF Rows
<1>3. Covers(tree, Len(tree), 0, plans[f])
  BY <1>1, RootRoom, FieldCovers DEF RootPlan
<1>4. plans[f] \in PlanType
  BY <1>1, RootRoom, FieldTyped DEF RootPlan
<1>5. Tiles(plans[f].pieces, 0, Rows) /\ Within(plans[f].zones, 0, Rows)
  BY <1>1, <1>2, <1>3 DEF Covers, Fits, Rows
<1>6. Len(plans[f].pieces) \in Nat
  BY <1>4 DEF PlanType
<1> QED BY <1>5, <1>6 DEF Tiles, From, Within

(* The pieces of every column of every reader tile the rows of its file, and *)
(* its zones lie in them: what RecordReader assumes of its plan.            *)
THEOREM TilesRows == Spec => []PlanTilesRows
BY PlansOfColumns, PlansTile, PTL

LEMMA PlansJudged == PlanInv => RefusesExactly
<1> SUFFICES ASSUME PlanInv PROVE RefusesExactly
  OBVIOUS
<1>1. ASSUME NEW f \in Fields
      PROVE  RootPlan(tree, f).err = "none" <=> GoodRoot(tree, f)
  <2>1. tree \in Trees
    BY DEF PlanInv
  <2>2. PICK good : IsRoot(good, tree, f, Len(tree)) /\ GoodRoot(tree, f) = good[Len(tree)]
    BY <2>1, RootIs
  <2>3. RootPlan(tree, f).err = "none" <=> good[Len(tree)]
    BY <2>1, <2>2, RootRoom, FieldJudged DEF RootPlan
  <2> QED BY <2>2, <2>3
<1> QED BY <1>1 DEF PlanInv, RefusesExactly

(* A column gets a plan exactly when its tree holds one place for each row: *)
(* whatever the row counts are, no sum of them wraps around to the right    *)
(* total, and no plan is refused that could have been made.                 *)
THEOREM RefusesTheRest == Spec => []RefusesExactly
BY PlansOfColumns, PlansJudged, PTL

\* What each plan of a reader says of a row, and that its pieces lie in the rows.
LEMMA PlanShows ==
  ASSUME PlanInv, NEW f \in DOMAIN plans, NEW r \in 0..(Rows - 1)
  PROVE  Shows(plans[f], r, Places(tree, f)[Len(tree)][0][r], FALSE)
<1>1. tree \in Trees /\ f \in Fields /\ plans[f] = RootPlan(tree, f) /\ plans[f].err = "none"
  BY DEF PlanInv
<1>2. ShowsAll(tree, Len(tree), 0, plans[f], Places(tree, f), FALSE)
  BY <1>1, RootRoom, FieldShows DEF RootPlan
<1>3. Shows(plans[f], 0 + r, Places(tree, f)[Len(tree)][0][r], FALSE)
  BY <1>1, <1>2 DEF ShowsAll, Rows
<1>4. 0 + r = r
  <2>1. Rows \in Nat
    BY <1>1, RootRoom, TreeFacts DEF Rows
  <2> QED BY <2>1
<1> QED BY <1>3, <1>4

LEMMA PiecesInRows ==
  ASSUME PlanInv, NEW f \in DOMAIN plans, NEW i \in 1..Len(plans[f].pieces),
         NEW r \in plans[f].pieces[i].start..(plans[f].pieces[i].end - 1)
  PROVE  /\ r \in 0..(Rows - 1) /\ plans[f].pieces[i] \in Elems(plans[f].pieces)
         /\ plans[f].pieces[i].start <= r /\ r < plans[f].pieces[i].end
<1> DEFINE ps == plans[f].pieces
           p == ps[i]
<1>1. tree \in Trees /\ f \in Fields /\ plans[f] = RootPlan(tree, f) /\ plans[f].err = "none"
  BY DEF PlanInv
<1>2. Rows \in Nat /\ 0 + Rows = Rows
  BY <1>1, TreeFacts, RootRoom DEF Rows
<1>3. plans[f] \in PlanType /\ Tiles(ps, 0, Rows)
  <2>1. Covers(tree, Len(tree), 0, plans[f])
    BY <1>1, RootRoom, FieldCovers DEF RootPlan
  <2>2. plans[f] \in PlanType
    BY <1>1, RootRoom, FieldTyped DEF RootPlan
  <2> QED BY <1>1, <1>2, <2>1, <2>2 DEF Covers, Fits, Rows
<1>4. ps \in Seq(PieceType) /\ p \in PieceType /\ p \in Elems(ps)
  BY <1>3 DEF PlanType, Elems
<1>5. 0 <= p.start /\ p.end <= Rows
  BY <1>2, <1>3, <1>4, TilesBound
<1>6. r \in p.start..(p.end - 1)
  OBVIOUS
<1> HIDE DEF p, ps
<1>7. p.start \in Int /\ p.end \in Int
  BY <1>4 DEF PieceType
<1>8. r \in 0..(Rows - 1) /\ p.start <= r /\ r < p.end
  BY <1>2, <1>5, <1>6, <1>7
<1> QED BY <1>4, <1>8 DEF p, ps

LEMMA PlansPlace == PlanInv => EveryRowItsLeaf
<1> SUFFICES ASSUME PlanInv, NEW f \in DOMAIN plans, NEW i \in 1..Len(plans[f].pieces),
                    NEW r \in plans[f].pieces[i].start..(plans[f].pieces[i].end - 1)
             PROVE  LET p == plans[f].pieces[i]
                        at == Places(tree, f)[Len(tree)][0][r]
                    IN  p.node = at.node /\ r - p.start = at.row /\ p.field = at.field
                        /\ p.dict = at.dict
  BY DEF EveryRowItsLeaf
<1> DEFINE p == plans[f].pieces[i]
           at == Places(tree, f)[Len(tree)][0][r]
<1>1. r \in 0..(Rows - 1) /\ p \in Elems(plans[f].pieces) /\ p.start <= r /\ r < p.end
  BY PiecesInRows
<1>2. Shows(plans[f], r, at, FALSE)
  BY <1>1, PlanShows
<1> HIDE DEF p, at
<1>3. AtPlace(p, r, at, FALSE)
  BY <1>1, <1>2 DEF Shows
<1>4. p.node = at.node /\ r - p.start = at.row /\ p.field = at.field /\ p.dict = at.dict
  BY <1>3 DEF AtPlace
<1> QED BY <1>4 DEF p, at

LEMMA PlansDescribe == PlanInv => ZonesDescribeValues
<1> SUFFICES ASSUME PlanInv, NEW f \in DOMAIN plans, NEW r \in 0..(Rows - 1)
             PROVE  LET zs == plans[f].zones
                    IN {zs[i] : i \in {j \in 1..Len(zs) : zs[j].start <= r /\ r < zs[j].end}}
                         = Places(tree, f)[Len(tree)][0][r].zones
  BY DEF ZonesDescribeValues
<1> DEFINE zs == plans[f].zones
           at == Places(tree, f)[Len(tree)][0][r]
<1>1. Shows(plans[f], r, at, FALSE)
  BY PlanShows
<1> HIDE DEF at
<1>2. Lying(zs, r) = at.zones
  BY <1>1 DEF Shows
<1> HIDE DEF zs
<1>3. Lying(zs, r) = {zs[i] : i \in {j \in 1..Len(zs) : zs[j].start <= r /\ r < zs[j].end}}
  BY DEF Lying, Elems
<1> QED BY <1>2, <1>3 DEF zs, at

(* The row of a scan is read from the leaf, the offset, the column and the  *)
(* dictionary the tree puts it in.                                          *)
THEOREM RowsFromTheirLeaves == Spec => []EveryRowItsLeaf
BY PlansOfColumns, PlansPlace, PTL

(* The zones of a plan over a row are those above its leaf and above its    *)
(* dictionary: no row is skipped for statistics of other rows or of codes.  *)
THEOREM ZonesOfValues == Spec => []ZonesDescribeValues
BY PlansOfColumns, PlansDescribe, PTL
=============================================================================
