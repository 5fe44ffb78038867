------------------------ MODULE AuxiliaryDecodeProofs ------------------------
(***************************************************************************)
(* For every layout tree: no array that decoding makes is lost or released *)
(* twice, whatever fails, and the array it gives back has the rows of its  *)
(* layout.                                                                 *)
(***************************************************************************)
EXTENDS AuxiliaryDecode, FiniteSetTheorems, WellFoundedInduction, TLAPS

-----------------------------------------------------------------------------
(* Induction, from the order of numbers: a set without its least element    *)
(* has none.                                                                *)

LEMMA LeastOf ==
  ASSUME NEW T \in SUBSET Nat, T # {}
  PROVE  \E n \in T : \A m \in T : n <= m
<1> DEFINE R == OpToRel(<, Nat)
<1>1. IsWellFoundedOn(R, Nat)
  BY NatLessThanWellFounded
<1>2. \E n \in T : \A m \in T : ~(<<m, n>> \in R)
  <2> HIDE DEF R
  <2> QED BY <1>1, WFMin
<1>3. \A m, n \in Nat : <<m, n>> \in R <=> m < n
  BY DEF OpToRel
<1> HIDE DEF R
<1>4. PICK n \in T : \A m \in T : ~(<<m, n>> \in R)
  BY <1>2
<1>5. \A m \in T : ~(m < n)
  BY <1>3, <1>4
<1> QED BY <1>5

LEMMA Induct ==
  ASSUME NEW S \in SUBSET Nat, 0 \in S, \A n \in S : n + 1 \in S
  PROVE  S = Nat
<1> SUFFICES ASSUME S # Nat PROVE FALSE
  OBVIOUS
<1>1. Nat \ S # {}
  OBVIOUS
<1>2. PICK n \in Nat \ S : \A m \in Nat \ S : n <= m
  BY <1>1, LeastOf
<1>3. n # 0 /\ n - 1 \in S
  BY <1>2
<1> QED BY <1>2, <1>3

-----------------------------------------------------------------------------
(* Sums.                                                                    *)

\* The sums of the first terms of a sequence, which one function gives.
IsUpTo(f, s, n) == f = [i \in 0..n |-> IF i = 0 THEN 0 ELSE f[i - 1] + s[i]]

LEMMA UpToExists ==
  ASSUME NEW s, NEW n \in Nat
  PROVE  \E f : IsUpTo(f, s, n)
<1> DEFINE S == {k \in Nat : \E f : IsUpTo(f, s, k)}
<1>1. 0 \in S
  <2> DEFINE f == [i \in 0..0 |-> 0]
  <2>1. f = [i \in 0..0 |-> IF i = 0 THEN 0 ELSE f[i - 1] + s[i]]
    OBVIOUS
  <2> HIDE DEF f
  <2> QED BY <2>1 DEF IsUpTo
<1>2. ASSUME NEW k \in S PROVE k + 1 \in S
  <2>1. PICK f : IsUpTo(f, s, k)
    OBVIOUS
  <2> DEFINE g == [i \in 0..(k + 1) |-> IF i = k + 1 THEN f[k] + s[k + 1] ELSE f[i]]
  <2>2. ASSUME NEW i \in 0..(k + 1)
        PROVE  g[i] = IF i = 0 THEN 0 ELSE g[i - 1] + s[i]
    <3>1. CASE i = k + 1
      BY <3>1
    <3>2. CASE i # k + 1
      <4>1. f[i] = IF i = 0 THEN 0 ELSE f[i - 1] + s[i]
        BY <2>1, <3>2 DEF IsUpTo
      <4> QED BY <3>2, <4>1
    <3> QED BY <3>1, <3>2
  <2>3. g = [i \in 0..(k + 1) |-> g[i]]
    OBVIOUS
  <2> HIDE DEF g
  <2>4. IsUpTo(g, s, k + 1)
    BY <2>2, <2>3 DEF IsUpTo
  <2> QED BY <2>4
<1> HIDE DEF S
<1>3. S = Nat
  BY <1>1, <1>2, Induct, S \in SUBSET Nat DEF S
<1> QED BY <1>3 DEF S

\* The sum is the last of them.
LEMMA SumIs ==
  ASSUME NEW s, Len(s) \in Nat
  PROVE  \E f : IsUpTo(f, s, Len(s)) /\ Sum(s) = f[Len(s)]
<1> DEFINE g == CHOOSE f : f = [i \in 0..Len(s) |-> IF i = 0 THEN 0 ELSE f[i - 1] + s[i]]
<1>1. Sum(s) = g[Len(s)]
  BY DEF Sum
<1>2. IsUpTo(g, s, Len(s))
  BY UpToExists DEF IsUpTo
<1> QED BY <1>1, <1>2

\* The value of f at each place.
LEMMA UpToStep ==
  ASSUME NEW f, NEW s, NEW n \in Nat, IsUpTo(f, s, n)
  PROVE  f[0] = 0 /\ \A i \in 1..n : f[i] = f[i - 1] + s[i]
BY DEF IsUpTo

\* Sums of sequences that are related term by term.
LEMMA SumNone == ASSUME NEW s, Len(s) = 0 PROVE Sum(s) = 0
BY SumIs, UpToStep

LEMMA SumSame ==
  ASSUME NEW s, NEW t, Len(s) \in Nat, Len(t) = Len(s), \A i \in 1..Len(s) : s[i] = t[i]
  PROVE  Sum(s) = Sum(t)
<1> DEFINE n == Len(s)
<1>1. PICK f : IsUpTo(f, s, n) /\ Sum(s) = f[n]
  BY SumIs
<1>2. PICK g : IsUpTo(g, t, n) /\ Sum(t) = g[n]
  BY SumIs
<1>3. /\ f[0] = 0 /\ \A i \in 1..n : f[i] = f[i - 1] + s[i]
      /\ g[0] = 0 /\ \A i \in 1..n : g[i] = g[i - 1] + t[i]
  BY <1>1, <1>2, UpToStep
<1> DEFINE S == {k \in Nat : k <= n => f[k] = g[k]}
<1>4. 0 \in S
  BY <1>3
<1>5. ASSUME NEW k \in S PROVE k + 1 \in S
  <2> SUFFICES ASSUME k + 1 <= n PROVE f[k + 1] = g[k + 1]
    OBVIOUS
  <2>1. k + 1 \in 1..n /\ (k + 1) - 1 = k
    OBVIOUS
  <2>2. f[k + 1] = f[k] + s[k + 1] /\ g[k + 1] = g[k] + t[k + 1]
    BY <1>3, <2>1
  <2> QED BY <2>1, <2>2
<1>6. S = Nat
  <2>1. S \in SUBSET Nat
    OBVIOUS
  <2> HIDE DEF S
  <2> QED BY <1>4, <1>5, <2>1, Induct
<1> QED BY <1>1, <1>2, <1>6

\* Of a sequence with one term more.
LEMMA SumMore ==
  ASSUME NEW s, NEW t, Len(s) \in Nat, Len(t) = Len(s) + 1, \A i \in 1..Len(s) : t[i] = s[i]
  PROVE  Sum(t) = Sum(s) + t[Len(t)]
<1> DEFINE n == Len(s)
<1>1. PICK f : IsUpTo(f, s, n) /\ Sum(s) = f[n]
  BY SumIs
<1>2. PICK g : IsUpTo(g, t, n + 1) /\ Sum(t) = g[n + 1]
  BY SumIs
<1>3. /\ f[0] = 0 /\ \A i \in 1..n : f[i] = f[i - 1] + s[i]
      /\ g[0] = 0 /\ \A i \in 1..(n + 1) : g[i] = g[i - 1] + t[i]
  BY <1>1, <1>2, UpToStep
<1> DEFINE S == {k \in Nat : k <= n => f[k] = g[k]}
<1>4. 0 \in S
  BY <1>3
<1>5. ASSUME NEW k \in S PROVE k + 1 \in S
  <2> SUFFICES ASSUME k + 1 <= n PROVE f[k + 1] = g[k + 1]
    OBVIOUS
  <2>1. k + 1 \in 1..n /\ k + 1 \in 1..(n + 1) /\ (k + 1) - 1 = k
    OBVIOUS
  <2>2. f[k + 1] = f[k] + s[k + 1] /\ g[k + 1] = g[k] + t[k + 1]
    BY <1>3, <2>1
  <2> QED BY <2>1, <2>2
<1>6. S = Nat
  <2>1. S \in SUBSET Nat
    OBVIOUS
  <2> HIDE DEF S
  <2> QED BY <1>4, <1>5, <2>1, Induct
<1>7. g[n + 1] = g[n] + t[n + 1]
  <2>1. n + 1 \in 1..(n + 1) /\ (n + 1) - 1 = n
    OBVIOUS
  <2> QED BY <1>3, <2>1
<1> QED BY <1>1, <1>2, <1>6, <1>7

\* Of a sequence with zeros after it.
LEMMA SumZeros ==
  ASSUME NEW s, NEW t, Len(s) \in Nat, Len(t) \in Nat, Len(s) <= Len(t), Sum(s) \in Int,
         \A i \in 1..Len(s) : t[i] = s[i],
         \A i \in (Len(s) + 1)..Len(t) : t[i] = 0
  PROVE  Sum(t) = Sum(s)
<1> DEFINE m == Len(s)
           n == Len(t)
<1>1. PICK f : IsUpTo(f, s, m) /\ Sum(s) = f[m]
  BY SumIs
<1>2. PICK g : IsUpTo(g, t, n) /\ Sum(t) = g[n]
  BY SumIs
<1>3. /\ f[0] = 0 /\ \A i \in 1..m : f[i] = f[i - 1] + s[i]
      /\ g[0] = 0 /\ \A i \in 1..n : g[i] = g[i - 1] + t[i]
  BY <1>1, <1>2, UpToStep
<1> DEFINE S == {k \in Nat : k <= n => g[k] = IF k <= m THEN f[k] ELSE f[m]}
<1>4. 0 \in S
  BY <1>3
<1>5. ASSUME NEW k \in S PROVE k + 1 \in S
  <2> SUFFICES ASSUME k + 1 <= n PROVE g[k + 1] = IF k + 1 <= m THEN f[k + 1] ELSE f[m]
    OBVIOUS
  <2>1. k + 1 \in 1..n /\ (k + 1) - 1 = k /\ k <= n
    OBVIOUS
  <2>2. g[k + 1] = g[k] + t[k + 1]
    BY <1>3, <2>1
  <2>3. CASE k + 1 <= m
    <3>1. k + 1 \in 1..m /\ g[k] = f[k]
      BY <2>1, <2>3
    <3>2. f[k + 1] = f[k] + s[k + 1]
      BY <1>3, <2>1, <3>1
    <3> QED BY <2>2, <2>3, <3>1, <3>2
  <2>4. CASE ~(k + 1 <= m)
    <3>1. k + 1 \in (m + 1)..n /\ g[k] = f[m]
      BY <2>1, <2>4
    <3>2. t[k + 1] = 0
      BY <3>1
    <3> QED BY <1>1, <2>2, <2>4, <3>1, <3>2
  <2> QED BY <2>3, <2>4
<1>6. S = Nat
  <2>1. S \in SUBSET Nat
    OBVIOUS
  <2> HIDE DEF S
  <2> QED BY <1>4, <1>5, <2>1, Induct
<1>7. g[n] = IF n <= m THEN f[n] ELSE f[m]
  BY <1>6
<1> QED BY <1>1, <1>2, <1>7

\* Of numbers: the sum is one, at least each term, and 0 only of zeros.
Counts(s) == Len(s) \in Nat /\ \A i \in 1..Len(s) : s[i] \in Nat

LEMMA SumNat ==
  ASSUME NEW s, Counts(s)
  PROVE  Sum(s) \in Nat /\ \A i \in 1..Len(s) : s[i] <= Sum(s)
<1> DEFINE n == Len(s)
<1>1. PICK f : IsUpTo(f, s, n) /\ Sum(s) = f[n]
  BY SumIs DEF Counts
<1>2. f[0] = 0 /\ \A i \in 1..n : f[i] = f[i - 1] + s[i]
  BY <1>1, UpToStep DEF Counts
<1> DEFINE S == {k \in Nat : k <= n => f[k] \in Nat /\ \A i \in 1..k : s[i] <= f[k]}
<1>3. 0 \in S
  BY <1>2
<1>4. ASSUME NEW k \in S PROVE k + 1 \in S
  <2> SUFFICES ASSUME k + 1 <= n
               PROVE  f[k + 1] \in Nat /\ \A i \in 1..(k + 1) : s[i] <= f[k + 1]
    OBVIOUS
  <2>1. k + 1 \in 1..n /\ (k + 1) - 1 = k /\ k <= n
    BY DEF Counts
  <2>2. f[k + 1] = f[k] + s[k + 1] /\ s[k + 1] \in Nat
    BY <1>2, <2>1 DEF Counts
  <2>3. f[k] \in Nat /\ \A i \in 1..k : s[i] <= f[k]
    BY <2>1
  <2>4. ASSUME NEW i \in 1..(k + 1) PROVE s[i] <= f[k + 1]
    <3>1. s[i] \in Nat
      BY <2>1 DEF Counts
    <3>2. CASE i = k + 1
      BY <2>2, <2>3, <3>2
    <3>3. CASE i # k + 1
      BY <2>2, <2>3, <3>1, <3>3
    <3> QED BY <3>2, <3>3
  <2> QED BY <2>2, <2>3, <2>4
<1>5. S = Nat
  <2>1. S \in SUBSET Nat
    OBVIOUS
  <2> HIDE DEF S
  <2> QED BY <1>3, <1>4, <2>1, Induct
<1> QED BY <1>1, <1>5 DEF Counts

\* The sum of a sequence whose terms are those of two.
LEMMA SumBoth ==
  ASSUME NEW s, NEW t, NEW u, Counts(s), Counts(t), Len(t) = Len(s), Len(u) = Len(s),
         \A i \in 1..Len(s) : u[i] = s[i] + t[i]
  PROVE  Sum(u) = Sum(s) + Sum(t)
<1> DEFINE n == Len(s)
<1>0. n \in Nat
  BY DEF Counts
<1>1. PICK f : IsUpTo(f, s, n) /\ Sum(s) = f[n]
  BY <1>0, SumIs
<1>2. PICK g : IsUpTo(g, t, n) /\ Sum(t) = g[n]
  BY <1>0, SumIs
<1>3. PICK h : IsUpTo(h, u, n) /\ Sum(u) = h[n]
  BY <1>0, SumIs
<1>4. /\ f[0] = 0 /\ \A i \in 1..n : f[i] = f[i - 1] + s[i]
      /\ g[0] = 0 /\ \A i \in 1..n : g[i] = g[i - 1] + t[i]
      /\ h[0] = 0 /\ \A i \in 1..n : h[i] = h[i - 1] + u[i]
  BY <1>0, <1>1, <1>2, <1>3, UpToStep
<1> DEFINE S == {k \in Nat : k <= n => f[k] \in Int /\ g[k] \in Int /\ h[k] = f[k] + g[k]}
<1>5. 0 \in S
  BY <1>4
<1>6. ASSUME NEW k \in S PROVE k + 1 \in S
  <2> SUFFICES ASSUME k + 1 <= n
               PROVE  f[k + 1] \in Int /\ g[k + 1] \in Int /\ h[k + 1] = f[k + 1] + g[k + 1]
    OBVIOUS
  <2>1. k + 1 \in 1..n /\ (k + 1) - 1 = k /\ k <= n
    BY <1>0
  <2>2. /\ f[k + 1] = f[k] + s[k + 1] /\ g[k + 1] = g[k] + t[k + 1]
        /\ h[k + 1] = h[k] + u[k + 1]
    BY <1>4, <2>1
  <2>3. s[k + 1] \in Nat /\ t[k + 1] \in Nat /\ u[k + 1] = s[k + 1] + t[k + 1]
    BY <2>1 DEF Counts
  <2>4. f[k] \in Int /\ g[k] \in Int /\ h[k] = f[k] + g[k]
    BY <2>1
  <2> QED BY <2>2, <2>3, <2>4
<1>7. S = Nat
  <2>1. S \in SUBSET Nat
    OBVIOUS
  <2> HIDE DEF S
  <2> QED BY <1>5, <1>6, <2>1, Induct
<1> QED BY <1>0, <1>1, <1>2, <1>3, <1>7

\* A sum above 0 has a term above 0.
LEMMA SumPositive ==
  ASSUME NEW s, Counts(s), Sum(s) # 0
  PROVE  \E i \in 1..Len(s) : s[i] > 0
<1> SUFFICES ASSUME \A i \in 1..Len(s) : s[i] = 0 PROVE Sum(s) = 0
  BY DEF Counts
<1>1. Len(s) \in Nat /\ \A i \in 1..Len(s) : s[i] = s[i] + s[i]
  BY DEF Counts
<1>2. Sum(s) = Sum(s) + Sum(s)
  BY <1>1, SumBoth
<1> QED BY <1>2, SumNat

\* One term.
LEMMA SumPoint ==
  ASSUME NEW n \in Nat, NEW a \in 1..n, NEW v \in Nat
  PROVE  Sum([b \in 1..n |-> IF b = a THEN v ELSE 0]) = v
<1> DEFINE none == [b \in 1..(a - 1) |-> 0]
           one == [b \in 1..a |-> IF b = a THEN v ELSE 0]
           all == [b \in 1..n |-> IF b = a THEN v ELSE 0]
<1>1. Counts(none) /\ Len(none) = a - 1 /\ \A b \in 1..Len(none) : none[b] = 0
  BY DEF Counts
<1>2. Len(one) = a /\ one[a] = v /\ \A b \in 1..Len(none) : one[b] = none[b]
  OBVIOUS
<1>3. /\ Len(all) = n /\ \A b \in 1..Len(one) : all[b] = one[b]
      /\ \A b \in (Len(one) + 1)..Len(all) : all[b] = 0
  OBVIOUS
<1> HIDE DEF none, one, all
<1>4. Sum(none) = 0
  BY <1>1, SumPositive
<1>5. Sum(one) = v
  <2>1. Len(none) \in Nat /\ Len(one) = Len(none) + 1
    BY <1>1, <1>2
  <2>2. Sum(one) = Sum(none) + one[Len(one)]
    BY <1>2, <2>1, SumMore
  <2> QED BY <1>2, <1>4, <2>2
<1>6. Sum(all) = Sum(one)
  <2>1. Len(one) \in Nat /\ Len(all) \in Nat /\ Len(one) <= Len(all) /\ Sum(one) \in Int
    BY <1>2, <1>3, <1>5
  <2> QED BY <1>3, <2>1, SumZeros
<1> QED BY <1>5, <1>6 DEF all

-----------------------------------------------------------------------------
(* How often an array is in a sequence.                                     *)

LEMMA OccursType ==
  ASSUME NEW a, NEW s, Len(s) \in Nat
  PROVE  /\ Occurrences(a, s) \in Nat
         /\ Occurrences(a, s) > 0 <=> \E i \in 1..Len(s) : s[i] = a
<1> DEFINE T == {i \in 1..Len(s) : s[i] = a}
<1>1. IsFiniteSet(1..Len(s))
  BY FS_Interval
<1>2. IsFiniteSet(T)
  BY <1>1, FS_Subset, T \subseteq 1..Len(s)
<1>3. Cardinality(T) \in Nat /\ (Cardinality(T) = 0 <=> T = {})
  BY <1>2, FS_CardinalityType, FS_EmptySet
<1>4. Occurrences(a, s) = Cardinality(T)
  BY DEF Occurrences
<1>5. T # {} <=> \E i \in 1..Len(s) : s[i] = a
  OBVIOUS
<1> HIDE DEF T
<1> QED BY <1>3, <1>4, <1>5

LEMMA OccursNone == ASSUME NEW a, NEW s, Len(s) = 0 PROVE Occurrences(a, s) = 0
<1>1. Len(s) \in Nat /\ ~\E i \in 1..Len(s) : s[i] = a
  OBVIOUS
<1>2. Occurrences(a, s) \in Nat /\ ~(Occurrences(a, s) > 0)
  BY <1>1, OccursType
<1> QED BY <1>2

LEMMA OccursMore ==
  ASSUME NEW a, NEW s, NEW t, Len(s) \in Nat, Len(t) = Len(s) + 1,
         \A i \in 1..Len(s) : t[i] = s[i]
  PROVE  Occurrences(a, t) = Occurrences(a, s) + (IF t[Len(t)] = a THEN 1 ELSE 0)
<1> DEFINE n == Len(s)
           T == {i \in 1..n : s[i] = a}
           U == {i \in 1..(n + 1) : t[i] = a}
<1>1. Occurrences(a, s) = Cardinality(T) /\ Occurrences(a, t) = Cardinality(U)
  BY DEF Occurrences
<1>2. IsFiniteSet(1..n)
  BY FS_Interval
<1>3. IsFiniteSet(T) /\ Cardinality(T) \in Nat
  BY <1>2, FS_Subset, FS_CardinalityType, T \subseteq 1..n
<1>4. CASE t[n + 1] = a
  <2>1. U = T \cup {n + 1} /\ n + 1 \notin T
    BY <1>4
  <2> HIDE DEF T, U
  <2>2. Cardinality(T \cup {n + 1}) = Cardinality(T) + 1
    BY <1>3, <2>1, FS_AddElement
  <2> QED BY <1>1, <1>4, <2>1, <2>2
<1>5. CASE t[n + 1] # a
  <2>1. U = T
    BY <1>5
  <2> HIDE DEF T, U
  <2> QED BY <1>1, <1>3, <1>5, <2>1
<1> QED BY <1>4, <1>5

-----------------------------------------------------------------------------
(* What a release leaves.                                                   *)

\* The references to a that struct arrays had and lost, in f, by dying.
Died(counts, f, a) ==
  [b \in 1..(a - 1) |-> IF counts[b] > 0 /\ f[b] = 0 THEN Occurrences(a, parts[b]) ELSE 0]

IsLeft(f, counts, arrays, n) ==
  f = [a \in 1..n |-> counts[a] - Occurrences(a, arrays) - Sum(Died(counts, f, a))]

LEMMA LeftExists ==
  ASSUME NEW counts, NEW arrays, NEW n \in Nat
  PROVE  \E f : IsLeft(f, counts, arrays, n)
<1> DEFINE S == {k \in Nat : \E f : IsLeft(f, counts, arrays, k)}
<1>1. 0 \in S
  <2> DEFINE f == [a \in 1..0 |-> 0]
  <2>1. f = [a \in 1..0 |-> counts[a] - Occurrences(a, arrays) - Sum(Died(counts, f, a))]
    OBVIOUS
  <2> HIDE DEF f
  <2> QED BY <2>1 DEF IsLeft
<1>2. ASSUME NEW k \in S PROVE k + 1 \in S
  <2>1. PICK f : IsLeft(f, counts, arrays, k)
    OBVIOUS
  <2> DEFINE new == counts[k + 1] - Occurrences(k + 1, arrays) - Sum(Died(counts, f, k + 1))
             g == [a \in 1..(k + 1) |-> IF a = k + 1 THEN new ELSE f[a]]
  <2>2. ASSUME NEW a \in 1..(k + 1)
        PROVE  g[a] = counts[a] - Occurrences(a, arrays) - Sum(Died(counts, g, a))
    <3>1. Died(counts, g, a) = Died(counts, f, a)
      <4>1. \A b \in 1..(a - 1) : g[b] = f[b]
        OBVIOUS
      <4> HIDE DEF g
      <4> QED BY <4>1 DEF Died
    <3>2. CASE a = k + 1
      BY <3>1, <3>2
    <3>3. CASE a # k + 1
      <4>1. f[a] = counts[a] - Occurrences(a, arrays) - Sum(Died(counts, f, a))
        BY <2>1, <3>3 DEF IsLeft
      <4> QED BY <3>1, <3>3, <4>1
    <3> QED BY <3>2, <3>3
  <2>3. g = [a \in 1..(k + 1) |-> g[a]]
    OBVIOUS
  <2> HIDE DEF g
  <2>4. IsLeft(g, counts, arrays, k + 1)
    BY <2>2, <2>3 DEF IsLeft
  <2> QED BY <2>4
<1> HIDE DEF S
<1>3. S = Nat
  BY <1>1, <1>2, Induct, S \in SUBSET Nat DEF S
<1> QED BY <1>3 DEF S

LEMMA ReleasedIs ==
  ASSUME NEW counts, NEW arrays, NEW n \in Nat, DOMAIN counts = 1..n
  PROVE  IsLeft(Released(counts, arrays), counts, arrays, n)
<1>1. \E f : f = [a \in 1..n |->
                    counts[a] - Occurrences(a, arrays)
                      - Sum([b \in 1..(a - 1) |-> IF counts[b] > 0 /\ f[b] = 0
                                                 THEN Occurrences(a, parts[b]) ELSE 0])]
  <2>1. PICK f : IsLeft(f, counts, arrays, n)
    BY LeftExists
  <2> QED BY <2>1 DEF IsLeft, Died
<1> DEFINE g == CHOOSE f : f = [a \in 1..n |->
                    counts[a] - Occurrences(a, arrays)
                      - Sum([b \in 1..(a - 1) |-> IF counts[b] > 0 /\ f[b] = 0
                                                 THEN Occurrences(a, parts[b]) ELSE 0])]
<1>2. Released(counts, arrays) = g
  BY DEF Released
<1>3. IsLeft(g, counts, arrays, n)
  BY <1>1 DEF IsLeft, Died
<1> QED BY <1>2, <1>3

\* The references to a of the struct arrays that are alive.
HeldBy(counts, n, a) == [b \in 1..n |-> IF counts[b] > 0 THEN Occurrences(a, parts[b]) ELSE 0]

PartsAfter(n) ==
  \A b \in 1..n : /\ Len(parts[b]) \in Nat
                  /\ \A i \in 1..Len(parts[b]) : parts[b][i] \in (b + 1)..n

LEMMA PartsOccur ==
  ASSUME NEW n \in Nat, PartsAfter(n), NEW a \in 1..n, NEW b \in 1..n
  PROVE  Occurrences(a, parts[b]) \in Nat /\ (a <= b => Occurrences(a, parts[b]) = 0)
<1>1. Len(parts[b]) \in Nat /\ \A i \in 1..Len(parts[b]) : parts[b][i] \in (b + 1)..n
  BY DEF PartsAfter
<1>2. /\ Occurrences(a, parts[b]) \in Nat
      /\ Occurrences(a, parts[b]) > 0 <=> \E i \in 1..Len(parts[b]) : parts[b][i] = a
  BY <1>1, OccursType
<1>3. a <= b => ~\E i \in 1..Len(parts[b]) : parts[b][i] = a
  BY <1>1
<1> QED BY <1>2, <1>3

\* Counts that `arrays`, struct arrays and others, `rest`, account for.
Balanced(n, counts, rest, arrays) ==
  \A a \in 1..n : counts[a] = rest[a] + Occurrences(a, arrays) + Sum(HeldBy(counts, n, a))

(* What a release leaves: the references that others have, `rest`, and those *)
(* of the struct arrays that live on.                                       *)
Rebalanced(n, counts, rest, left) ==
  /\ left \in [1..n -> Nat]
  /\ \A a \in 1..n : left[a] <= counts[a]
  /\ \A a \in 1..n : left[a] = rest[a] + Sum(HeldBy(left, n, a))

(* Giving up the references `arrays` leaves what others and the living have. *)
LEMMA ReleaseBalances ==
  ASSUME NEW n \in Nat, PartsAfter(n), NEW counts \in [1..n -> Nat], NEW rest \in [1..n -> Nat],
         NEW arrays, Len(arrays) \in Nat, Balanced(n, counts, rest, arrays)
  PROVE  Rebalanced(n, counts, rest, Released(counts, arrays))
<1> DEFINE left == Released(counts, arrays)
           Dead(a) == [b \in 1..n |-> IF counts[b] > 0 /\ left[b] = 0
                                      THEN Occurrences(a, parts[b]) ELSE 0]
           Live(a) == [b \in 1..n |-> IF counts[b] > 0 /\ left[b] # 0
                                      THEN Occurrences(a, parts[b]) ELSE 0]
<1>1. left = [a \in 1..n |-> counts[a] - Occurrences(a, arrays) - Sum(Died(counts, left, a))]
  BY ReleasedIs DEF IsLeft
<1> HIDE DEF left
<1>2. \A a, b \in 1..n : Occurrences(a, parts[b]) \in Nat
  BY PartsOccur
<1>3. \A a, b \in 1..n : a <= b => Occurrences(a, parts[b]) = 0
  BY PartsOccur
<1>4. ASSUME NEW a \in 1..n
      PROVE  Sum(HeldBy(counts, n, a)) = Sum(Died(counts, left, a)) + Sum(Live(a))
             /\ Sum(Died(counts, left, a)) \in Nat /\ Sum(Live(a)) \in Nat
  <2>1. Counts(Dead(a)) /\ Len(Dead(a)) = n
    BY <1>2, SMTT(30) DEF Counts
  <2>2. Counts(Live(a)) /\ Len(Live(a)) = n
    <3>1. Len(Live(a)) = n
      OBVIOUS
    <3>2. ASSUME NEW b \in 1..n PROVE Live(a)[b] \in Nat
      <4>1. Occurrences(a, parts[b]) \in Nat
        BY <1>2
      <4> QED BY <4>1
    <3> HIDE DEF Live
    <3> QED BY <3>1, <3>2 DEF Counts
  <2>3. /\ Len(HeldBy(counts, n, a)) = n
        /\ \A b \in 1..n : HeldBy(counts, n, a)[b] = Dead(a)[b] + Live(a)[b]
    BY <1>2 DEF HeldBy
  <2>4. /\ Counts(Died(counts, left, a)) /\ Len(Died(counts, left, a)) = a - 1
        /\ \A b \in 1..(a - 1) : Dead(a)[b] = Died(counts, left, a)[b]
    BY <1>2, SMTT(30) DEF Died, Counts
  <2>5. \A b \in a..n : Dead(a)[b] = 0
    BY <1>3
  <2> HIDE DEF Dead, Live
  <2>6. Sum(HeldBy(counts, n, a)) = Sum(Dead(a)) + Sum(Live(a))
    BY <2>1, <2>2, <2>3, SumBoth
  <2>7. Sum(Died(counts, left, a)) \in Nat /\ Sum(Live(a)) \in Nat
    BY <2>2, <2>4, SumNat
  <2>8. Sum(Dead(a)) = Sum(Died(counts, left, a))
    <3> DEFINE s == Died(counts, left, a)
               t == Dead(a)
    <3>1. /\ Len(s) = a - 1 /\ Len(t) = n /\ Sum(s) \in Int
          /\ \A b \in 1..(a - 1) : t[b] = s[b]
          /\ \A b \in a..n : t[b] = 0
      BY <2>1, <2>4, <2>5, <2>7
    <3> HIDE DEF s, t
    <3>2. Len(s) \in Nat /\ Len(t) \in Nat /\ Len(s) <= Len(t) /\ Len(s) + 1 = a
      BY <3>1
    <3>3. Sum(t) = Sum(s)
      BY <3>1, <3>2, SumZeros
    <3> QED BY <3>3 DEF s, t
  <2> QED BY <2>6, <2>7, <2>8
<1>5. ASSUME NEW a \in 1..n
      PROVE  left[a] \in Nat /\ left[a] <= counts[a] /\ left[a] = rest[a] + Sum(Live(a))
  <2>1. left[a] = counts[a] - Occurrences(a, arrays) - Sum(Died(counts, left, a))
    BY <1>1
  <2>2. Occurrences(a, arrays) \in Nat /\ rest[a] \in Nat /\ counts[a] \in Nat
    BY OccursType
  <2>3. counts[a] = rest[a] + Occurrences(a, arrays) + Sum(HeldBy(counts, n, a))
    BY DEF Balanced
  <2>4. /\ Sum(HeldBy(counts, n, a)) = Sum(Died(counts, left, a)) + Sum(Live(a))
        /\ Sum(Died(counts, left, a)) \in Nat /\ Sum(Live(a)) \in Nat
    BY <1>4
  <2> DEFINE l == left[a]
             c == counts[a]
             r == rest[a]
             o == Occurrences(a, arrays)
             d == Sum(Died(counts, left, a))
             k == Sum(Live(a))
             h == Sum(HeldBy(counts, n, a))
  <2>5. /\ l = c - o - d /\ c = r + o + h /\ h = d + k
        /\ c \in Nat /\ o \in Nat /\ r \in Nat /\ d \in Nat /\ k \in Nat
    BY <2>1, <2>2, <2>3, <2>4
  <2> HIDE DEF l, c, r, o, d, k, h
  <2>6. l \in Nat /\ l <= c /\ l = r + k
    BY <2>5
  <2> QED BY <2>6 DEF l, c, r, k
<1>6. \A a \in 1..n : Live(a) = HeldBy(left, n, a)
  <2>1. ASSUME NEW b \in 1..n
        PROVE  (counts[b] > 0 /\ left[b] # 0) <=> left[b] > 0
    <3>1. left[b] \in Nat /\ left[b] <= counts[b] /\ counts[b] \in Nat
      BY <1>5
    <3> QED BY <3>1
  <2> QED BY <2>1 DEF HeldBy
<1>7. left \in [1..n -> Nat]
  BY <1>1, <1>5
<1> HIDE DEF Live
<1>8. \A a \in 1..n : left[a] <= counts[a] /\ left[a] = rest[a] + Sum(HeldBy(left, n, a))
  BY <1>5, <1>6
<1>9. Rebalanced(n, counts, rest, left)
  BY <1>7, <1>8 DEF Rebalanced
<1> QED BY <1>9 DEF left

-----------------------------------------------------------------------------
(* The invariant.  A call has begun the children whose arrays it holds, and *)
(* one more while it waits for that.                                        *)

N == Len(tree)
Levels == [node : 1..N, held : Seq(1..N)]
LevelOf(i) == tree[stack[i].node]
Child(i, k) == LevelOf(i).children[k]

Waiting(i) == i < Len(stack) \/ ret # Running
Begun(i) == Len(stack[i].held) + (IF Waiting(i) THEN 1 ELSE 0)

TypeInv ==
  /\ tree \in Trees
  /\ stack \in Seq(Levels)
  /\ ret \in (1..N) \cup {Begin, Running, Failed}
  /\ ret \in {Begin, Running} => (ret = Begin <=> stack = <<>>)
  /\ refs \in [1..N -> Nat]
  /\ parts \in [1..N -> Seq(1..N)]
  /\ PartsAfter(N)
  /\ lens \in [1..N -> Nat]

\* Calls are nested as layouts are, and what a call holds comes after it.
OrderInv ==
  /\ \A i \in 1..Len(stack) : 
       stack[i].node = IF i = 1 THEN 1 ELSE Child(i - 1, Len(stack[i - 1].held) + 1)
  /\ \A i \in 1..Len(stack) : \A j \in 1..Len(stack[i].held) : stack[i].held[j] > stack[i].node
  /\ ret > 0 /\ stack # <<>> => ret > Top.node

\* Every array has the references of its holders.
OnStack(calls, a) == Sum([i \in 1..Len(calls) |-> Occurrences(a, calls[i].held)])
ReturnedTo(a) == IF ret = a THEN 1 ELSE 0
BalanceInv ==
  \A a \in 1..N : refs[a] = OnStack(stack, a) + Sum(HeldBy(refs, N, a)) + ReturnedTo(a)

\* An array is made once: layouts still to be decoded, the set U, and those
\* being decoded have none.
Fresh(U) ==
  /\ \A n \in U : \A k \in 1..Len(tree[n].children) : tree[n].children[k] \in U
  /\ ret = Begin => 1 \in U
  /\ \A i \in 1..Len(stack) :
       /\ stack[i].node \notin U
       /\ \A k \in 1..Len(LevelOf(i).children) : k > Begun(i) => Child(i, k) \in U
       /\ refs[stack[i].node] = 0 /\ parts[stack[i].node] = <<>>
  /\ \A n \in U : refs[n] = 0 /\ parts[n] = <<>>

FreshInv == \E U \in SUBSET (1..N) : Fresh(U)

\* What a call has checked of the children it began.
LevelInv(i) ==
  LET l == LevelOf(i)
  IN  /\ l.rows <= MaxRows /\ l.id # "flat" /\ Shaped(l)
      /\ Begun(i) <= Decodes(l)
      /\ l.id = "struct" => \A k \in 1..Begun(i) : tree[Child(i, k)].rows = l.rows
      /\ l.id = "chunked" => Sum([k \in 1..Begun(i) |-> tree[Child(i, k)].rows]) <= l.rows
      /\ \A k \in 1..Len(stack[i].held) : lens[stack[i].held[k]] = tree[Child(i, k)].rows

RowsInv ==
  /\ \A i \in 1..Len(stack) : LevelInv(i)
  /\ ret > 0 => lens[ret] = tree[IF stack = <<>> THEN 1
                                 ELSE Child(Len(stack), Len(Top.held) + 1)].rows

IInv == TypeInv /\ OrderInv /\ BalanceInv /\ FreshInv /\ RowsInv

-----------------------------------------------------------------------------
(* What the types say.                                                      *)

LEMMA SeqElement == ASSUME NEW S, NEW s \in Seq(S) PROVE Len(s) \in Nat /\ \A i \in 1..Len(s) : s[i] \in S
OBVIOUS

LEMMA TreeFacts ==
  ASSUME tree \in Trees
  PROVE  /\ N \in Nat \ {0}
         /\ \A n \in 1..N :
               /\ tree[n].rows \in Nat /\ Len(tree[n].children) \in Nat
               /\ \A k \in 1..Len(tree[n].children) : tree[n].children[k] \in (n + 1)..N
<1>1. N \in Nat \ {0}
  BY TreesAssumption DEF N
<1>2. \A n \in 1..N : tree[n].rows \in Nat /\ tree[n].children \in Seq((n + 1)..N)
  BY TreesAssumption DEF N
<1>3. ASSUME NEW n \in 1..N
      PROVE  /\ Len(tree[n].children) \in Nat
             /\ \A k \in 1..Len(tree[n].children) : tree[n].children[k] \in (n + 1)..N
  BY <1>2, SeqElement
<1> QED BY <1>1, <1>2, <1>3

LEMMA OnePlace ==
  ASSUME tree \in Trees, NEW m \in 1..N, NEW n \in 1..N,
         NEW i \in 1..Len(tree[m].children), NEW j \in 1..Len(tree[n].children),
         tree[m].children[i] = tree[n].children[j]
  PROVE  m = n /\ i = j
BY TreesAssumption DEF N

LEMMA StackFacts ==
  ASSUME TypeInv
  PROVE  /\ Len(stack) \in Nat /\ (stack = <<>> <=> Len(stack) = 0)
         /\ \A i \in 1..Len(stack) :
               /\ stack[i].node \in 1..N
               /\ Len(stack[i].held) \in Nat
               /\ \A j \in 1..Len(stack[i].held) : stack[i].held[j] \in 1..N
<1>1. stack \in Seq(Levels)
  BY DEF TypeInv
<1>2. Len(stack) \in Nat /\ \A i \in 1..Len(stack) : stack[i] \in Levels
  BY <1>1, SeqElement
<1>3. stack = <<>> <=> Len(stack) = 0
  <2> HIDE DEF Levels
  <2> QED BY <1>1
<1>4. ASSUME NEW i \in 1..Len(stack)
      PROVE  /\ stack[i].node \in 1..N /\ Len(stack[i].held) \in Nat
             /\ \A j \in 1..Len(stack[i].held) : stack[i].held[j] \in 1..N
  <2>1. stack[i].node \in 1..N /\ stack[i].held \in Seq(1..N)
    BY <1>2 DEF Levels
  <2> QED BY <2>1, SeqElement
<1> QED BY <1>2, <1>3, <1>4

LEMMA AllButLast ==
  ASSUME NEW S, NEW s \in Seq(S), NEW n \in Nat, n = Len(s), n > 0
  PROVE  /\ SubSeq(s, 1, n - 1) \in Seq(S) /\ Len(SubSeq(s, 1, n - 1)) = n - 1
         /\ \A i \in 1..(n - 1) : SubSeq(s, 1, n - 1)[i] = s[i]
<1>1. SubSeq(s, 1, n - 1) \in Seq(S)
  OBVIOUS
<1>2. Len(SubSeq(s, 1, n - 1)) = n - 1
  OBVIOUS
<1>3. ASSUME NEW i \in 1..(n - 1) PROVE SubSeq(s, 1, n - 1)[i] = s[i]
  OBVIOUS
<1> QED BY <1>1, <1>2, <1>3

\* The top of the stack, and the rest of it.
LEMMA TopFacts ==
  ASSUME TypeInv, stack # <<>>
  PROVE  /\ Len(stack) \in Nat \ {0} /\ Top = stack[Len(stack)] /\ Layout = LevelOf(Len(stack))
         /\ Top.node \in 1..N /\ Top.held \in Seq(1..N) /\ Len(Top.held) \in Nat
         /\ Pop \in Seq(Levels) /\ Len(Pop) = Len(stack) - 1
         /\ \A i \in 1..Len(Pop) : i \in 1..Len(stack) /\ Pop[i] = stack[i]
<1>1. stack \in Seq(Levels)
  BY DEF TypeInv
<1>2. Len(stack) \in Nat \ {0}
  BY StackFacts
<1>3. stack[Len(stack)] \in Levels
  BY <1>1, <1>2, SeqElement
<1>4. Top = stack[Len(stack)] /\ Layout = LevelOf(Len(stack))
  BY DEF Top, Layout, LevelOf
<1>5. Top.node \in 1..N /\ Top.held \in Seq(1..N) /\ Len(Top.held) \in Nat
  BY <1>3, <1>4, SeqElement DEF Levels
<1>6. /\ Pop \in Seq(Levels) /\ Len(Pop) = Len(stack) - 1
      /\ \A i \in 1..Len(Pop) : i \in 1..Len(stack) /\ Pop[i] = stack[i]
  <2> DEFINE n == Len(stack)
  <2>1. n \in Nat /\ n > 0 /\ Pop = SubSeq(stack, 1, n - 1)
    BY <1>2 DEF Pop
  <2>2. Pop \in Seq(Levels) /\ Len(Pop) = n - 1 /\ \A i \in 1..(n - 1) : Pop[i] = stack[i]
    BY <1>1, <2>1, AllButLast
  <2>3. \A i \in 1..(n - 1) : i \in 1..n
    BY <2>1
  <2> QED BY <2>2, <2>3
<1> QED BY <1>2, <1>4, <1>5, <1>6

-----------------------------------------------------------------------------
(* Who holds an array.                                                      *)

LEMMA HeldNat ==
  ASSUME NEW n \in Nat, PartsAfter(n), NEW counts, NEW a \in 1..n
  PROVE  Counts(HeldBy(counts, n, a)) /\ Sum(HeldBy(counts, n, a)) \in Nat
<1>1. Len(HeldBy(counts, n, a)) = n
  BY DEF HeldBy
<1>2. ASSUME NEW b \in 1..n PROVE HeldBy(counts, n, a)[b] \in Nat
  <2>1. Occurrences(a, parts[b]) \in Nat
    BY PartsOccur
  <2> QED BY <2>1 DEF HeldBy
<1>3. Counts(HeldBy(counts, n, a))
  BY <1>1, <1>2 DEF Counts
<1> QED BY <1>3, SumNat

\* What calls hold, each call at least its own.
LEMMA OnStackNat ==
  ASSUME NEW calls, Len(calls) \in Nat, \A i \in 1..Len(calls) : Len(calls[i].held) \in Nat,
         NEW a
  PROVE  /\ OnStack(calls, a) \in Nat
         /\ \A i \in 1..Len(calls) : Occurrences(a, calls[i].held) <= OnStack(calls, a)
<1> DEFINE s == [i \in 1..Len(calls) |-> Occurrences(a, calls[i].held)]
<1>1. Len(s) = Len(calls) /\ \A i \in 1..Len(calls) : s[i] = Occurrences(a, calls[i].held)
  OBVIOUS
<1>2. \A i \in 1..Len(calls) : Occurrences(a, calls[i].held) \in Nat
  BY OccursType
<1>3. OnStack(calls, a) = Sum(s)
  BY DEF OnStack
<1> HIDE DEF s
<1>4. Counts(s)
  BY <1>1, <1>2 DEF Counts
<1> QED BY <1>1, <1>3, <1>4, SumNat

LEMMA OnStackMore ==
  ASSUME NEW calls, NEW more, Len(calls) \in Nat, Len(more) = Len(calls) + 1,
         \A i \in 1..Len(calls) : more[i] = calls[i], NEW a
  PROVE  OnStack(more, a) = OnStack(calls, a) + Occurrences(a, more[Len(more)].held)
<1> DEFINE s == [i \in 1..Len(calls) |-> Occurrences(a, calls[i].held)]
           t == [i \in 1..Len(more) |-> Occurrences(a, more[i].held)]
<1>1. /\ Len(s) = Len(calls) /\ Len(t) = Len(s) + 1
      /\ \A i \in 1..Len(s) : t[i] = s[i]
      /\ t[Len(t)] = Occurrences(a, more[Len(more)].held)
  OBVIOUS
<1>2. OnStack(calls, a) = Sum(s) /\ OnStack(more, a) = Sum(t)
  BY DEF OnStack
<1> HIDE DEF s, t
<1> QED BY <1>1, <1>2, SumMore

LEMMA OnStackNone == ASSUME NEW calls, Len(calls) = 0, NEW a PROVE OnStack(calls, a) = 0
<1> DEFINE s == [i \in 1..Len(calls) |-> Occurrences(a, calls[i].held)]
<1>1. Len(s) = 0
  OBVIOUS
<1> HIDE DEF s
<1>2. Sum(s) = 0
  BY <1>1, SumNone
<1> QED BY <1>2 DEF s, OnStack

\* What a call holds, and what is returned to one, is alive.
LEMMA HeldAlive ==
  ASSUME TypeInv, BalanceInv
  PROVE  /\ \A i \in 1..Len(stack) : \A j \in 1..Len(stack[i].held) : refs[stack[i].held[j]] > 0
         /\ ret > 0 => refs[ret] > 0
<1>1. N \in Nat /\ PartsAfter(N)
  BY TreeFacts DEF TypeInv
<1>2. ASSUME NEW a \in 1..N
      PROVE  refs[a] >= OnStack(stack, a) + ReturnedTo(a) /\ OnStack(stack, a) \in Nat
  <2>1. refs[a] = OnStack(stack, a) + Sum(HeldBy(refs, N, a)) + ReturnedTo(a)
    BY DEF BalanceInv
  <2>2. OnStack(stack, a) \in Nat
    BY StackFacts, OnStackNat
  <2>3. Sum(HeldBy(refs, N, a)) \in Nat /\ ReturnedTo(a) \in Nat
    BY <1>1, HeldNat DEF ReturnedTo
  <2> QED BY <2>1, <2>2, <2>3
<1>3. ASSUME NEW i \in 1..Len(stack), NEW j \in 1..Len(stack[i].held)
      PROVE  refs[stack[i].held[j]] > 0
  <2> DEFINE a == stack[i].held[j]
  <2>1. a \in 1..N /\ Len(stack[i].held) \in Nat
    BY StackFacts
  <2>2. Occurrences(a, stack[i].held) \in Nat /\ Occurrences(a, stack[i].held) > 0
    BY <2>1, OccursType
  <2>3. Occurrences(a, stack[i].held) <= OnStack(stack, a)
    BY StackFacts, OnStackNat
  <2>4. refs[a] >= OnStack(stack, a) + ReturnedTo(a) /\ OnStack(stack, a) \in Nat
    BY <1>2, <2>1
  <2>5. ReturnedTo(a) \in Nat /\ refs[a] \in Nat
    BY <2>1 DEF ReturnedTo, TypeInv
  <2> HIDE DEF a
  <2>6. refs[a] > 0
    BY <2>2, <2>3, <2>4, <2>5
  <2> QED BY <2>6 DEF a
<1>4. ASSUME ret > 0 PROVE refs[ret] > 0
  <2>1. ret \in 1..N
    BY <1>4 DEF TypeInv, Begin, Running, Failed
  <2>2. refs[ret] >= OnStack(stack, ret) + ReturnedTo(ret) /\ OnStack(stack, ret) \in Nat
    BY <1>2, <2>1
  <2>3. ReturnedTo(ret) = 1 /\ refs[ret] \in Nat
    BY <2>1 DEF ReturnedTo, TypeInv
  <2> QED BY <2>2, <2>3
<1> QED BY <1>3, <1>4

-----------------------------------------------------------------------------
(* The children a call has begun are some of those its layout has.          *)

LEMMA DecodesSome ==
  ASSUME tree \in Trees, NEW n \in 1..N, Shaped(tree[n])
  PROVE  Decodes(tree[n]) \in 0..Len(tree[n].children)
<1>1. Len(tree[n].children) \in Nat
  BY TreeFacts
<1>2. tree[n].id = "zoned" => Len(tree[n].children) = 2
  BY DEF Shaped
<1> QED BY <1>1, <1>2 DEF Decodes

LEMMA BegunFacts ==
  ASSUME TypeInv, RowsInv, NEW i \in 1..Len(stack)
  PROVE  /\ Begun(i) \in 0..Len(LevelOf(i).children) /\ Len(LevelOf(i).children) \in Nat
         /\ \A k \in 1..Begun(i) : Child(i, k) \in (stack[i].node + 1)..N
<1>1. stack[i].node \in 1..N /\ Len(stack[i].held) \in Nat /\ tree \in Trees
  BY StackFacts DEF TypeInv
<1>2. /\ Len(LevelOf(i).children) \in Nat
      /\ \A k \in 1..Len(LevelOf(i).children) : Child(i, k) \in (stack[i].node + 1)..N
  BY <1>1, TreeFacts DEF LevelOf, Child
<1>3. Shaped(LevelOf(i)) /\ Begun(i) <= Decodes(LevelOf(i))
  BY DEF RowsInv, LevelInv
<1>4. Decodes(LevelOf(i)) \in 0..Len(LevelOf(i).children)
  BY <1>1, <1>3, DecodesSome DEF LevelOf
<1>5. Begun(i) \in Nat
  <2>1. Begun(i) = Len(stack[i].held) \/ Begun(i) = Len(stack[i].held) + 1
    <3>1. CASE Waiting(i)
      BY <3>1 DEF Begun
    <3>2. CASE ~Waiting(i)
      BY <1>1, <3>2 DEF Begun
    <3> QED BY <3>1, <3>2
  <2> QED BY <1>1, <2>1
<1> QED BY <1>2, <1>3, <1>4, <1>5

LEMMA OrderStrict ==
  ASSUME TypeInv, OrderInv, RowsInv, NEW i \in 2..Len(stack)
  PROVE  /\ i - 1 \in 1..Len(stack) /\ stack[i - 1].node \in 1..N /\ stack[i].node \in 1..N
         /\ stack[i].node > stack[i - 1].node
<1>1. i \in 1..Len(stack) /\ i - 1 \in 1..Len(stack) /\ i - 1 < Len(stack) /\ i # 1
  BY StackFacts
<1>2. Begun(i - 1) = Len(stack[i - 1].held) + 1 /\ Len(stack[i - 1].held) \in Nat
  BY <1>1, StackFacts DEF Begun, Waiting
<1>3. stack[i].node = Child(i - 1, Len(stack[i - 1].held) + 1)
  BY <1>1 DEF OrderInv
<1>4. Child(i - 1, Begun(i - 1)) \in (stack[i - 1].node + 1)..N
  BY <1>1, <1>2, BegunFacts
<1>5. stack[i - 1].node \in 1..N
  BY <1>1, StackFacts
<1>6. N \in Nat
  BY TreeFacts DEF TypeInv
<1> QED BY <1>1, <1>2, <1>3, <1>4, <1>5, <1>6

\* So a layout being decoded comes before those in it.
LEMMA Increasing ==
  ASSUME TypeInv, OrderInv, RowsInv, NEW i \in 1..Len(stack), i < Len(stack)
  PROVE  stack[i].node < stack[Len(stack)].node
<1> DEFINE n == Len(stack)
           S == {d \in Nat : d >= 1 /\ i + d <= n => stack[i].node < stack[i + d].node}
<1>1. n \in Nat /\ i \in Nat
  BY StackFacts
<1>2. 0 \in S
  OBVIOUS
<1>3. ASSUME NEW d \in S PROVE d + 1 \in S
  <2> SUFFICES ASSUME i + (d + 1) <= n PROVE stack[i].node < stack[i + (d + 1)].node
    OBVIOUS
  <2>1. i + (d + 1) \in 2..n /\ (i + (d + 1)) - 1 = i + d
    BY <1>1
  <2>2. /\ stack[i + (d + 1)].node > stack[i + d].node
        /\ stack[i + d].node \in 1..N /\ stack[i + (d + 1)].node \in 1..N
    BY <2>1, OrderStrict
  <2>3. stack[i].node \in 1..N
    BY StackFacts
  <2>4. d = 0 \/ stack[i].node < stack[i + d].node
    BY <1>1, <2>1
  <2>5. N \in Nat
    BY TreeFacts DEF TypeInv
  <2>6. CASE d = 0
    BY <1>1, <2>2, <2>6
  <2>7. CASE stack[i].node < stack[i + d].node
    BY <2>2, <2>3, <2>5, <2>7
  <2> QED BY <2>4, <2>6, <2>7
<1>4. S = Nat
  <2>1. S \in SUBSET Nat
    OBVIOUS
  <2> HIDE DEF S
  <2> QED BY <1>2, <1>3, <2>1, Induct
<1>5. n - i \in Nat /\ n - i >= 1 /\ i + (n - i) = n
  BY <1>1
<1>6. n - i \in S
  BY <1>4, <1>5
<1> QED BY <1>5, <1>6

-----------------------------------------------------------------------------
(* A call that returns: to a caller that awaits the child it was.           *)

Popped == tree' = tree /\ stack # <<>> /\ stack' = Pop /\ ret' # Running /\ ret' # Begin

LEMMA PopFacts ==
  ASSUME TypeInv, Popped
  PROVE  /\ Len(stack) \in Nat \ {0} /\ Len(stack') = Len(stack) - 1
         /\ N' = N
         /\ \A i \in 1..Len(stack') :
               /\ i \in 1..Len(stack) /\ i < Len(stack)
               /\ stack'[i] = stack[i] /\ LevelOf(i)' = LevelOf(i)
               /\ Begun(i)' = Begun(i) /\ Begun(i) = Len(stack[i].held) + 1
         /\ stack' = <<>> <=> Len(stack) = 1
<1>1. /\ Len(stack) \in Nat \ {0} /\ Len(stack') = Len(stack) - 1
      /\ \A i \in 1..Len(stack') : i \in 1..Len(stack) /\ stack'[i] = stack[i]
      /\ stack' \in Seq(Levels)
  BY TopFacts DEF Popped
<1>2. stack' = <<>> <=> Len(stack) = 1
  <2>1. stack' = <<>> <=> Len(stack') = 0
    <3> HIDE DEF Levels
    <3> QED BY <1>1
  <2> QED BY <1>1, <2>1
<1>3. ASSUME NEW i \in 1..Len(stack')
      PROVE  /\ i < Len(stack) /\ LevelOf(i)' = LevelOf(i)
             /\ Begun(i)' = Begun(i) /\ Begun(i) = Len(stack[i].held) + 1
  <2>1. i < Len(stack) /\ stack'[i] = stack[i] /\ tree' = tree /\ ret' # Running
    BY <1>1 DEF Popped
  <2> QED BY <2>1 DEF LevelOf, Begun, Waiting
<1>4. N' = N
  BY DEF Popped, N
<1> QED BY <1>1, <1>2, <1>3, <1>4

LEMMA PopOrder ==
  ASSUME TypeInv, OrderInv, RowsInv, Popped, ret' > 0 => ret' \in 1..N /\ ret' >= Top.node
  PROVE  OrderInv'
<1>1. /\ Len(stack) \in Nat \ {0} /\ Len(stack') = Len(stack) - 1
      /\ \A i \in 1..Len(stack') :
            i \in 1..Len(stack) /\ stack'[i] = stack[i] /\ LevelOf(i)' = LevelOf(i)
      /\ stack' = <<>> <=> Len(stack) = 1
  BY PopFacts
<1>2. ASSUME NEW i \in 1..Len(stack')
      PROVE  stack'[i].node = IF i = 1 THEN 1 ELSE Child(i - 1, Len(stack[i - 1].held) + 1)'
  <2>1. stack[i].node = IF i = 1 THEN 1 ELSE Child(i - 1, Len(stack[i - 1].held) + 1)
    BY <1>1 DEF OrderInv
  <2>2. i # 1 => i - 1 \in 1..Len(stack')
    BY <1>1
  <2> QED BY <1>1, <2>1, <2>2 DEF Child
<1>3. \A i \in 1..Len(stack') : \A j \in 1..Len(stack'[i].held) : stack'[i].held[j] > stack'[i].node
  BY <1>1 DEF OrderInv
<1>4. ASSUME ret' > 0, stack' # <<>>
      PROVE  ret' > Top'.node
  <2> DEFINE n == Len(stack)
             c == stack[n - 1].node
             k == Len(stack[n - 1].held) + 1
  <2>1. n \in 1..Len(stack) /\ n # 1 /\ n - 1 \in 1..Len(stack) /\ n - 1 \in 1..Len(stack')
    BY <1>1, <1>4
  <2>2. Top.node = tree[c].children[k] /\ Top'.node = c
    BY <1>1, <2>1 DEF OrderInv, Child, LevelOf, Top
  <2>3. c \in 1..N /\ Top.node \in 1..N /\ Len(stack[n - 1].held) \in Nat
    BY <2>1, StackFacts DEF Top
  <2>4. Top.node > c
    BY <2>1, OrderStrict DEF Top
  <2> QED BY <1>4, <2>2, <2>3, <2>4
<1> QED BY <1>2, <1>3, <1>4 DEF OrderInv

LEMMA PopRows ==
  ASSUME TypeInv, OrderInv, BalanceInv, RowsInv, Popped,
         \A a \in 1..N : refs[a] > 0 => lens'[a] = lens[a],
         ret' > 0 => lens'[ret'] = Layout.rows
  PROVE  RowsInv'
<1>1. /\ Len(stack) \in Nat \ {0} /\ Len(stack') = Len(stack) - 1 /\ tree' = tree
      /\ \A i \in 1..Len(stack') :
            /\ i \in 1..Len(stack) /\ stack'[i] = stack[i] /\ LevelOf(i)' = LevelOf(i)
            /\ Begun(i)' = Begun(i)
      /\ stack' = <<>> <=> Len(stack) = 1
  BY PopFacts DEF Popped
<1>2. ASSUME NEW i \in 1..Len(stack')
      PROVE  LevelInv(i)'
  <2>1. LevelInv(i) /\ i \in 1..Len(stack)
    BY <1>1 DEF RowsInv
  <2>2. /\ stack'[i] = stack[i] /\ LevelOf(i)' = LevelOf(i) /\ Begun(i)' = Begun(i)
        /\ \A k : Child(i, k)' = Child(i, k)
    BY <1>1 DEF Child
  <2>3. \A k \in 1..Len(stack[i].held) : lens'[stack[i].held[k]] = lens[stack[i].held[k]]
    BY <2>1, HeldAlive, StackFacts
  <2>4. Shaped(LevelOf(i))' <=> Shaped(LevelOf(i))
    BY <1>1, <2>2 DEF Shaped
  <2>5. Decodes(LevelOf(i))' = Decodes(LevelOf(i))
    BY <2>2 DEF Decodes
  <2>6. [k \in 1..Begun(i) |-> tree[Child(i, k)].rows]'
          = [k \in 1..Begun(i) |-> tree[Child(i, k)].rows]
    BY <1>1, <2>2
  <2> DEFINE l == LevelOf(i)
             b == Begun(i)
  <2>7. /\ l.rows <= MaxRows /\ l.id # "flat" /\ Shaped(l)
        /\ b <= Decodes(l)
        /\ l.id = "struct" => \A k \in 1..b : tree[Child(i, k)].rows = l.rows
        /\ l.id = "chunked" => Sum([k \in 1..b |-> tree[Child(i, k)].rows]) <= l.rows
        /\ \A k \in 1..Len(stack[i].held) : lens[stack[i].held[k]] = tree[Child(i, k)].rows
    BY <2>1 DEF LevelInv
  <2> HIDE DEF l, b
  <2>8. /\ LevelOf(i)' = l /\ Begun(i)' = b /\ stack'[i] = stack[i] /\ tree' = tree
        /\ Shaped(LevelOf(i))' <=> Shaped(l)
        /\ Decodes(LevelOf(i))' = Decodes(l)
        /\ [k \in 1..Begun(i) |-> tree[Child(i, k)].rows]' = [k \in 1..b |-> tree[Child(i, k)].rows]
    BY <1>1, <2>2, <2>4, <2>5, <2>6 DEF l, b
  <2>9. /\ l.id = "struct" => \A k \in 1..b : tree'[Child(i, k)'].rows = l.rows
        /\ \A k \in 1..Len(stack[i].held) : lens'[stack[i].held[k]] = tree'[Child(i, k)'].rows
    BY <1>1, <2>2, <2>3, <2>7
  <2> QED BY <2>7, <2>8, <2>9 DEF LevelInv
<1>3. ASSUME ret' > 0
      PROVE  lens'[ret'] = tree'[IF stack' = <<>> THEN 1
                                 ELSE Child(Len(stack), Len(Top.held) + 1)'].rows
  <2>1. Layout = tree[stack[Len(stack)].node] /\ lens'[ret'] = Layout.rows
    BY <1>3, TopFacts DEF Popped, LevelOf
  <2>2. CASE stack' = <<>>
    <3>1. Len(stack) = 1 /\ 1 \in 1..Len(stack)
      BY <1>1, <2>2
    <3>2. stack[1].node = 1
      BY <3>1 DEF OrderInv
    <3> QED BY <1>1, <2>1, <2>2, <3>1, <3>2
  <2>3. CASE stack' # <<>>
    <3> DEFINE n == Len(stack)
    <3>1. n \in 1..Len(stack) /\ n # 1 /\ n - 1 \in 1..Len(stack')
      BY <1>1, <2>3
    <3>2. stack[n].node = Child(n - 1, Len(stack[n - 1].held) + 1)
      BY <3>1 DEF OrderInv
    <3>3. Child(Len(stack), Len(Top.held) + 1)' = Child(n - 1, Len(stack[n - 1].held) + 1)
      BY <1>1, <3>1 DEF Child, Top
    <3> QED BY <1>1, <2>1, <2>3, <3>2, <3>3
  <2> QED BY <2>2, <2>3
<1> QED BY <1>2, <1>3 DEF RowsInv

\* What a call made, if anything, is of its own layout.
LEMMA PopFresh ==
  ASSUME TypeInv, OrderInv, RowsInv, FreshInv, Popped,
         \A a \in 1..N : refs[a] = 0 /\ parts[a] = <<>> /\ a # Top.node
                           => refs'[a] = 0 /\ parts'[a] = <<>>
  PROVE  FreshInv'
<1>1. /\ Len(stack) \in Nat \ {0} /\ Len(stack') = Len(stack) - 1 /\ tree' = tree /\ N' = N
      /\ \A i \in 1..Len(stack') :
            /\ i \in 1..Len(stack) /\ i < Len(stack)
            /\ stack'[i] = stack[i] /\ LevelOf(i)' = LevelOf(i)
            /\ Begun(i)' = Begun(i)
  BY PopFacts DEF Popped
<1>2. PICK U \in SUBSET (1..N) : Fresh(U)
  BY DEF FreshInv
<1>3. Top.node \notin U /\ Top = stack[Len(stack)] /\ Len(stack) \in 1..Len(stack)
  <2>1. Top = stack[Len(stack)] /\ Len(stack) \in 1..Len(stack)
    BY <1>1 DEF Top
  <2> QED BY <1>2, <2>1 DEF Fresh
<1>4. \A i \in 1..Len(stack') : stack[i].node \in 1..N /\ stack[i].node # Top.node
  <2>1. ASSUME NEW i \in 1..Len(stack') PROVE stack[i].node < Top.node
    BY <1>1, <1>3, Increasing
  <2> QED BY <1>1, <1>3, <2>1, StackFacts
<1>5. Fresh(U)'
  <2>1. \A n \in U : \A k \in 1..Len(tree'[n].children) : tree'[n].children[k] \in U
    BY <1>1, <1>2 DEF Fresh
  <2>2. ret' # Begin
    BY DEF Popped
  <2>3. \A n \in U : refs'[n] = 0 /\ parts'[n] = <<>>
    BY <1>2, <1>3 DEF Fresh
  <2>4. ASSUME NEW i \in 1..Len(stack')
        PROVE  /\ stack'[i].node \notin U
               /\ \A k \in 1..Len(LevelOf(i)'.children) : k > Begun(i)' => Child(i, k)' \in U
               /\ refs'[stack'[i].node] = 0 /\ parts'[stack'[i].node] = <<>>
    <3>1. /\ i \in 1..Len(stack) /\ stack'[i] = stack[i]
          /\ LevelOf(i)' = LevelOf(i) /\ Begun(i)' = Begun(i)
          /\ \A k : Child(i, k)' = Child(i, k)
      BY <1>1 DEF Child
    <3>2. /\ stack[i].node \notin U
          /\ \A k \in 1..Len(LevelOf(i).children) : k > Begun(i) => Child(i, k) \in U
          /\ refs[stack[i].node] = 0 /\ parts[stack[i].node] = <<>>
      BY <1>2, <3>1 DEF Fresh
    <3>3. refs'[stack[i].node] = 0 /\ parts'[stack[i].node] = <<>>
      BY <1>4, <3>2
    <3> QED BY <3>1, <3>2, <3>3
  <2> QED BY <2>1, <2>2, <2>3, <2>4 DEF Fresh
<1> QED BY <1>1, <1>5 DEF FreshInv

-----------------------------------------------------------------------------
(* A call whose error the deferred releases follow.                         *)

\* What the calls below the top hold is left.
LEMMA PopHolds ==
  ASSUME TypeInv, stack # <<>>, NEW a
  PROVE  OnStack(stack, a) = OnStack(Pop, a) + Occurrences(a, Top.held)
         /\ OnStack(Pop, a) \in Nat /\ Occurrences(a, Top.held) \in Nat
<1>1. /\ Len(stack) \in Nat \ {0} /\ Top = stack[Len(stack)] /\ Len(Top.held) \in Nat
      /\ Len(Pop) = Len(stack) - 1
      /\ \A i \in 1..Len(Pop) : i \in 1..Len(stack) /\ Pop[i] = stack[i]
  BY TopFacts
<1>2. OnStack(stack, a) = OnStack(Pop, a) + Occurrences(a, stack[Len(stack)].held)
  <2>1. Len(Pop) \in Nat /\ Len(stack) = Len(Pop) + 1 /\ \A i \in 1..Len(Pop) : stack[i] = Pop[i]
    BY <1>1
  <2> HIDE DEF OnStack
  <2> QED BY <2>1, OnStackMore
<1>3. \A i \in 1..Len(Pop) : Len(Pop[i].held) \in Nat
  BY <1>1, StackFacts
<1>4. OnStack(Pop, a) \in Nat
  BY <1>1, <1>3, OnStackNat
<1> QED BY <1>1, <1>2, <1>4, OccursType

LEMMA TopHolds ==
  ASSUME TypeInv, BalanceInv, stack # <<>>, ret \in {Running, Failed}
  PROVE  \A a \in 1..N : /\ refs[a] = OnStack(Pop, a) + Occurrences(a, Top.held)
                                        + Sum(HeldBy(refs, N, a))
                         /\ OnStack(Pop, a) \in Nat /\ Occurrences(a, Top.held) \in Nat
                         /\ Sum(HeldBy(refs, N, a)) \in Nat
<1>1. N \in Nat /\ PartsAfter(N) /\ ret \notin 1..N
  BY TreeFacts DEF TypeInv, Running, Failed
<1>2. ASSUME NEW a \in 1..N
      PROVE  /\ refs[a] = OnStack(Pop, a) + Occurrences(a, Top.held) + Sum(HeldBy(refs, N, a))
             /\ OnStack(Pop, a) \in Nat /\ Occurrences(a, Top.held) \in Nat
             /\ Sum(HeldBy(refs, N, a)) \in Nat
  <2>1. refs[a] = OnStack(stack, a) + Sum(HeldBy(refs, N, a)) + ReturnedTo(a)
    BY DEF BalanceInv
  <2>2. ReturnedTo(a) = 0
    BY <1>1 DEF ReturnedTo
  <2>3. /\ OnStack(stack, a) = OnStack(Pop, a) + Occurrences(a, Top.held)
        /\ OnStack(Pop, a) \in Nat /\ Occurrences(a, Top.held) \in Nat
    BY PopHolds
  <2>4. Sum(HeldBy(refs, N, a)) \in Nat
    BY <1>1, HeldNat
  <2> QED BY <2>1, <2>2, <2>3, <2>4
<1> QED BY <1>2

\* The types, after a call returned.
LEMMA PopType ==
  ASSUME TypeInv, Popped, ret' \in (1..N) \cup {Failed}, refs' \in [1..N -> Nat],
         parts' \in [1..N -> Seq(1..N)], PartsAfter(N)', lens' \in [1..N -> Nat]
  PROVE  TypeInv'
<1>1. tree' = tree /\ N' = N /\ stack' = Pop /\ stack # <<>> /\ ret' \notin {Begin, Running}
  BY DEF Popped, N
<1>2. Levels' = Levels
  BY <1>1 DEF Levels
<1>3. stack' \in Seq(Levels')
  BY <1>1, <1>2, TopFacts
<1> QED BY <1>1, <1>3 DEF TypeInv, Begin, Running

LEMMA HeldNext ==
  ASSUME N' = N, parts' = parts, NEW a
  PROVE  HeldBy(refs, N, a)' = HeldBy(refs', N, a)
BY DEF HeldBy

LEMMA FailReleasingInv ==
  ASSUME IInv, ret \in {Running, Failed}, stack # <<>>, FailReleasing,
         UNCHANGED <<tree, parts, lens>>
  PROVE  IInv'
<1>1. /\ TypeInv /\ OrderInv /\ BalanceInv /\ FreshInv /\ RowsInv /\ Popped /\ ~(ret' > 0)
  BY DEF IInv, FailReleasing, Popped, Running, Failed, Begin
<1>2. N \in Nat /\ PartsAfter(N) /\ refs \in [1..N -> Nat] /\ ~(ret > 0) /\ ret \notin 1..N
  BY <1>1, TreeFacts DEF TypeInv, Running, Failed
<1> DEFINE rest == [a \in 1..N |-> OnStack(Pop, a)]
<1>3. rest \in [1..N -> Nat] /\ \A a \in 1..N : rest[a] = OnStack(Pop, a)
  BY <1>1, PopHolds
<1> HIDE DEF rest
<1>4. Balanced(N, refs, rest, Top.held)
  BY <1>1, <1>3, TopHolds DEF Balanced
<1>5. /\ refs' \in [1..N -> Nat]
      /\ \A a \in 1..N : refs'[a] <= refs[a] /\ refs'[a] = rest[a] + Sum(HeldBy(refs', N, a))
  <2> DEFINE arrays == Top.held
  <2>1. refs' = Released(refs, arrays) /\ Len(arrays) \in Nat /\ Balanced(N, refs, rest, arrays)
    BY <1>1, <1>4, TopFacts DEF FailReleasing
  <2> HIDE DEF arrays
  <2>2. Rebalanced(N, refs, rest, Released(refs, arrays))
    BY <1>2, <1>3, <2>1, ReleaseBalances
  <2>3. Rebalanced(N, refs, rest, refs')
    BY <2>1, <2>2
  <2> QED BY <2>3 DEF Rebalanced
<1>6. N' = N /\ tree' = tree /\ parts' = parts /\ lens' = lens /\ stack' = Pop /\ ret' = Failed
  BY DEF N, FailReleasing
<1>7. TypeInv'
  <2>1. PartsAfter(N)' /\ parts' \in [1..N -> Seq(1..N)] /\ lens' \in [1..N -> Nat]
    BY <1>1, <1>6 DEF TypeInv, PartsAfter
  <2> QED BY <1>1, <1>5, <1>6, <2>1, PopType
<1>8. BalanceInv'
  <2>1. ASSUME NEW a \in 1..N
        PROVE  refs'[a] = OnStack(stack, a)' + Sum(HeldBy(refs, N, a))' + ReturnedTo(a)'
    <3>1. OnStack(stack, a)' = rest[a]
      BY <1>3, <1>6 DEF OnStack
    <3>2. Sum(HeldBy(refs, N, a))' = Sum(HeldBy(refs', N, a)) /\ Sum(HeldBy(refs', N, a)) \in Nat
      <4>1. HeldBy(refs, N, a)' = HeldBy(refs', N, a)
        BY <1>6, HeldNext
      <4> QED BY <1>2, <4>1, HeldNat
    <3>3. ReturnedTo(a)' = 0 /\ rest[a] \in Nat
      BY <1>3, <1>6, <1>2 DEF ReturnedTo, Failed
    <3> QED BY <1>5, <3>1, <3>2, <3>3
  <2> QED BY <1>6, <2>1 DEF BalanceInv
<1>9. OrderInv'
  BY <1>1, PopOrder
<1>10. FreshInv'
  <2>1. \A a \in 1..N : refs[a] = 0 => refs'[a] = 0
    BY <1>2, <1>5
  <2> QED BY <1>1, <1>6, <2>1, PopFresh
<1>11. RowsInv'
  BY <1>1, <1>6, PopRows
<1> QED BY <1>7, <1>8, <1>9, <1>10, <1>11 DEF IInv

-----------------------------------------------------------------------------
(* A call that makes an array, and releases what it holds.                  *)

\* The layout being decoded has no array yet.
LEMMA TopFresh ==
  ASSUME TypeInv, FreshInv, stack # <<>>
  PROVE  refs[Top.node] = 0 /\ parts[Top.node] = <<>>
<1>1. Len(stack) \in 1..Len(stack) /\ Top = stack[Len(stack)]
  BY TopFacts
<1> QED BY <1>1 DEF FreshInv, Fresh

\* A new array holds no others, so there are no new holders.
LEMMA SameHolders ==
  ASSUME NEW n \in Nat, NEW a \in 1..n, parts[a] = <<>>, NEW counts, NEW more,
         \A b \in 1..n : b # a => (counts[b] > 0 <=> more[b] > 0), NEW x
  PROVE  HeldBy(counts, n, x) = HeldBy(more, n, x)
<1>1. Occurrences(x, parts[a]) = 0
  BY OccursNone
<1>2. \A b \in 1..n : (IF counts[b] > 0 THEN Occurrences(x, parts[b]) ELSE 0)
                        = IF more[b] > 0 THEN Occurrences(x, parts[b]) ELSE 0
  BY <1>1
<1> QED BY <1>2 DEF HeldBy

LEMMA YieldInv ==
  ASSUME IInv, ret = Running, stack # <<>>, Yield(Top.node, Layout.rows),
         UNCHANGED <<tree, parts>>
  PROVE  IInv'
<1> DEFINE a == Top.node
           counts == Made(a, refs)
           One(x) == IF x = a THEN 1 ELSE 0
           rest == [x \in 1..N |-> OnStack(Pop, x) + One(x)]
<1>1. /\ TypeInv /\ OrderInv /\ BalanceInv /\ FreshInv /\ RowsInv
      /\ a \in 1..N /\ N \in Nat /\ PartsAfter(N) /\ refs \in [1..N -> Nat]
      /\ parts \in [1..N -> Seq(1..N)] /\ lens \in [1..N -> Nat] /\ Len(Top.held) \in Nat
  BY TreeFacts, TopFacts DEF IInv, TypeInv
<1>2. /\ stack' = Pop /\ ret' = a /\ refs' = Released(counts, Top.held)
      /\ lens' = [lens EXCEPT ![a] = Layout.rows]
      /\ N' = N /\ tree' = tree /\ parts' = parts
  BY DEF Yield, N
<1>3. refs[a] = 0 /\ parts[a] = <<>>
  BY <1>1, TopFresh
<1>4. Popped
  <2> HIDE DEF a, rest, counts, One
  <2>1. a \in 1..N /\ N \in Nat /\ ret' = a
    BY <1>1, <1>2
  <2>2. ret' # Running /\ ret' # Begin
    BY <2>1 DEF Running, Begin
  <2> QED BY <1>2, <2>2 DEF Popped
<1> HIDE DEF a
<1>5. counts \in [1..N -> Nat]
  BY <1>1 DEF Made
<1>6. \A x \in 1..N : One(x) \in {0, 1} /\ (One(x) = 1 <=> x = a) /\ counts[x] = refs[x] + One(x)
  <2>1. ASSUME NEW x \in 1..N, x = a PROVE One(x) = 1 /\ counts[x] = 1 /\ refs[x] = 0
    BY <1>1, <1>3, <2>1 DEF Made
  <2>2. ASSUME NEW x \in 1..N, x # a
        PROVE  One(x) = 0 /\ counts[x] = refs[x] /\ refs[x] \in Nat
    BY <1>1, <2>2 DEF Made
  <2> HIDE DEF One, counts
  <2> QED BY <2>1, <2>2
<1> HIDE DEF counts
<1>7. rest \in [1..N -> Nat] /\ \A x \in 1..N : rest[x] = OnStack(Pop, x) + One(x)
  <2> HIDE DEF One
  <2>1. ASSUME NEW x \in 1..N PROVE OnStack(Pop, x) + One(x) \in Nat
    <3>1. OnStack(Pop, x) \in Nat
      BY <1>1, TopHolds
    <3>2. One(x) \in Nat
      BY <1>6
    <3> QED BY <3>1, <3>2
  <2> QED BY <2>1
<1> HIDE DEF One, rest
<1>8. ASSUME NEW x \in 1..N PROVE HeldBy(counts, N, x) = HeldBy(refs, N, x)
  <2>1. ASSUME NEW b \in 1..N, b # a PROVE counts[b] > 0 <=> refs[b] > 0
    <3>1. counts[b] = refs[b] + One(b) /\ One(b) = 0 /\ refs[b] \in Nat
      BY <1>1, <1>6, <2>1
    <3> QED BY <3>1
  <2>2. N \in Nat /\ a \in 1..N /\ parts[a] = <<>>
    BY <1>1, <1>3
  <2> QED BY <2>1, <2>2, SameHolders
<1>9. Balanced(N, counts, rest, Top.held)
  <2>1. ASSUME NEW x \in 1..N
        PROVE  counts[x] = rest[x] + Occurrences(x, Top.held) + Sum(HeldBy(counts, N, x))
    <3>1. /\ refs[x] = OnStack(Pop, x) + Occurrences(x, Top.held) + Sum(HeldBy(refs, N, x))
          /\ OnStack(Pop, x) \in Nat /\ Occurrences(x, Top.held) \in Nat
          /\ Sum(HeldBy(refs, N, x)) \in Nat
      BY <1>1, TopHolds
    <3>2. /\ counts[x] = refs[x] + One(x) /\ One(x) \in {0, 1}
          /\ rest[x] = OnStack(Pop, x) + One(x)
          /\ HeldBy(counts, N, x) = HeldBy(refs, N, x)
      BY <1>5, <1>6, <1>7, <1>8
    <3> QED BY <3>1, <3>2
  <2> QED BY <2>1 DEF Balanced
<1>10. /\ refs' \in [1..N -> Nat]
       /\ \A x \in 1..N : refs'[x] <= counts[x] /\ refs'[x] = rest[x] + Sum(HeldBy(refs', N, x))
  <2> DEFINE arrays == Top.held
  <2>1. refs' = Released(counts, arrays) /\ Len(arrays) \in Nat
        /\ Balanced(N, counts, rest, arrays)
    BY <1>1, <1>2, <1>9
  <2> HIDE DEF arrays
  <2>2. Rebalanced(N, counts, rest, Released(counts, arrays))
    <3>1. N \in Nat /\ PartsAfter(N) /\ rest \in [1..N -> Nat]
      BY <1>1, <1>7
    <3> QED BY <1>5, <2>1, <3>1, ReleaseBalances
  <2>3. Rebalanced(N, counts, rest, refs')
    BY <2>1, <2>2
  <2> QED BY <2>3 DEF Rebalanced
<1>11. lens' \in [1..N -> Nat] /\ lens'[a] = Layout.rows /\ \A x \in 1..N : x # a => lens'[x] = lens[x]
  <2>1. Layout.rows \in Nat
    BY <1>1, TreeFacts DEF TypeInv, Layout, a
  <2> QED BY <1>1, <1>2, <2>1
<1>12. TypeInv'
  <2>1. PartsAfter(N)' /\ parts' \in [1..N -> Seq(1..N)] /\ ret' \in (1..N) \cup {Failed}
    BY <1>1, <1>2 DEF PartsAfter
  <2> QED BY <1>1, <1>4, <1>10, <1>11, <2>1, PopType
<1>13. BalanceInv'
  <2>1. ASSUME NEW x \in 1..N
        PROVE  refs'[x] = OnStack(stack, x)' + Sum(HeldBy(refs, N, x))' + ReturnedTo(x)'
    <3>1. OnStack(stack, x)' = OnStack(Pop, x) /\ ReturnedTo(x)' = One(x)
      BY <1>2 DEF OnStack, ReturnedTo, One
    <3>2. Sum(HeldBy(refs, N, x))' = Sum(HeldBy(refs', N, x)) /\ Sum(HeldBy(refs', N, x)) \in Nat
      <4>1. HeldBy(refs, N, x)' = HeldBy(refs', N, x)
        BY <1>2, HeldNext
      <4> QED BY <1>1, <4>1, HeldNat
    <3>3. OnStack(Pop, x) \in Nat /\ One(x) \in {0, 1}
      BY <1>1, <1>6, TopHolds
    <3>4. rest[x] = OnStack(Pop, x) + One(x) /\ refs'[x] = rest[x] + Sum(HeldBy(refs', N, x))
      BY <1>7, <1>10
    <3> QED BY <3>1, <3>2, <3>3, <3>4
  <2> QED BY <1>2, <2>1 DEF BalanceInv
<1>14. OrderInv'
  BY <1>1, <1>2, <1>4, PopOrder DEF a
<1>15. FreshInv'
  <2>1. ASSUME NEW x \in 1..N, refs[x] = 0, x # a PROVE refs'[x] = 0
    <3>1. counts[x] = 0 /\ refs'[x] <= counts[x] /\ refs'[x] \in Nat
      BY <1>5, <1>6, <1>10, <2>1
    <3> QED BY <3>1
  <2> QED BY <1>1, <1>2, <1>4, <2>1, PopFresh DEF a
<1>16. RowsInv'
  <2>1. \A x \in 1..N : refs[x] > 0 => lens'[x] = lens[x]
    BY <1>3, <1>11
  <2> QED BY <1>1, <1>2, <1>4, <1>11, <2>1, PopRows
<1> QED BY <1>12, <1>13, <1>14, <1>15, <1>16 DEF IInv

(* A struct array has references of its own to its columns, which the call  *)
(* then gives back.                                                         *)
LEMMA StructInv ==
  ASSUME IInv, Completing("struct"), stack # <<>>, BuildStruct, Top.held # <<>>,
         stack' = Pop, ret' = Top.node, parts' = [parts EXCEPT ![Top.node] = Top.held],
         refs' = Released(Retained(Made(Top.node, refs), Top.held), Top.held),
         lens' = [lens EXCEPT ![Top.node] = lens[Top.held[1]]], tree' = tree
  PROVE  IInv'
<1> DEFINE a == Top.node
           held == Top.held
           counts == Retained(Made(a, refs), held)
           One(x) == IF x = a THEN 1 ELSE 0
           rest == [x \in 1..N |-> OnStack(Pop, x) + One(x) + Occurrences(x, held)]
<1>1. /\ TypeInv /\ OrderInv /\ BalanceInv /\ FreshInv /\ RowsInv
      /\ a \in 1..N /\ N \in Nat /\ PartsAfter(N) /\ refs \in [1..N -> Nat]
      /\ parts \in [1..N -> Seq(1..N)] /\ lens \in [1..N -> Nat]
      /\ held \in Seq(1..N) /\ Len(held) \in Nat \ {0} /\ ret = Running
  <2>1. held \in Seq(1..N) /\ Len(held) \in Nat /\ held # <<>> /\ TypeInv
    BY TopFacts DEF IInv
  <2>2. Len(held) # 0
    <3> HIDE DEF held
    <3> QED BY <2>1
  <2> QED BY <2>1, <2>2, TreeFacts, TopFacts DEF IInv, TypeInv, Completing
<1>2. /\ stack' = Pop /\ ret' = a /\ refs' = Released(counts, held)
      /\ parts' = [parts EXCEPT ![a] = held]
      /\ lens' = [lens EXCEPT ![a] = lens[held[1]]] /\ N' = N /\ tree' = tree
  BY DEF N
<1>3. refs[a] = 0 /\ parts[a] = <<>>
  BY <1>1, TopFresh
<1>4. Popped
  <2> HIDE DEF a, rest, counts, One, held
  <2>1. a \in 1..N /\ N \in Nat /\ ret' = a
    BY <1>1, <1>2
  <2>2. ret' # Running /\ ret' # Begin
    BY <2>1 DEF Running, Begin
  <2> QED BY <1>2, <2>2 DEF Popped
<1>5. /\ \A j \in 1..Len(held) : held[j] \in (a + 1)..N
      /\ Len(stack) \in 1..Len(stack) /\ Top = stack[Len(stack)]
  <2>1. Len(stack) \in 1..Len(stack) /\ Top = stack[Len(stack)]
    BY <1>1, TopFacts
  <2>2. \A j \in 1..Len(held) : held[j] > a
    BY <1>1, <2>1 DEF OrderInv
  <2>3. \A j \in 1..Len(held) : held[j] \in 1..N
    BY <1>1, SeqElement
  <2>4. N \in Nat /\ a \in 1..N
    BY <1>1
  <2> HIDE DEF a, held
  <2>5. ASSUME NEW j \in 1..Len(held) PROVE held[j] \in (a + 1)..N
    <3>1. held[j] > a /\ held[j] \in 1..N
      BY <2>2, <2>3
    <3> QED BY <2>4, <3>1
  <2> QED BY <2>1, <2>5
<1>6. \A x \in 1..N : /\ OnStack(Pop, x) \in Nat /\ Occurrences(x, held) \in Nat
                      /\ refs[x] = OnStack(Pop, x) + Occurrences(x, held) + Sum(HeldBy(refs, N, x))
                      /\ Sum(HeldBy(refs, N, x)) \in Nat
  BY <1>1, TopHolds
<1> HIDE DEF a, held
<1>7. counts \in [1..N -> Nat]
      /\ \A x \in 1..N : /\ One(x) \in {0, 1} /\ (One(x) = 1 <=> x = a)
                         /\ counts[x] = refs[x] + One(x) + Occurrences(x, held)
  <2> DEFINE made == Made(a, refs)
  <2>1. made \in [1..N -> Nat]
    BY <1>1 DEF Made
  <2>2. \A x \in 1..N : /\ One(x) \in {0, 1} /\ (One(x) = 1 <=> x = a)
                        /\ made[x] = refs[x] + One(x)
    <3>1. ASSUME NEW x \in 1..N, x = a PROVE One(x) = 1 /\ made[x] = 1 /\ refs[x] = 0
      BY <1>1, <1>3, <3>1 DEF Made
    <3>2. ASSUME NEW x \in 1..N, x # a
          PROVE  One(x) = 0 /\ made[x] = refs[x] /\ refs[x] \in Nat
      BY <1>1, <3>2 DEF Made
    <3> HIDE DEF One, made
    <3> QED BY <3>1, <3>2
  <2>3. counts = [x \in 1..N |-> made[x] + Occurrences(x, held)]
    BY <2>1 DEF Retained
  <2> HIDE DEF made, counts
  <2> QED BY <1>6, <2>1, <2>2, <2>3
<1> HIDE DEF counts, One
<1>8. /\ rest \in [1..N -> Nat]
      /\ \A x \in 1..N : rest[x] = OnStack(Pop, x) + One(x) + Occurrences(x, held)
  <2>1. ASSUME NEW x \in 1..N PROVE OnStack(Pop, x) + One(x) + Occurrences(x, held) \in Nat
    <3>1. OnStack(Pop, x) \in Nat /\ One(x) \in {0, 1} /\ Occurrences(x, held) \in Nat
      BY <1>6, <1>7
    <3> QED BY <3>1
  <2> QED BY <2>1
<1> HIDE DEF rest
<1>9. ASSUME NEW x \in 1..N PROVE HeldBy(counts, N, x) = HeldBy(refs, N, x)
  <2>1. ASSUME NEW b \in 1..N, b # a PROVE counts[b] > 0 <=> refs[b] > 0
    <3>1. /\ counts[b] = refs[b] + One(b) + Occurrences(b, held) /\ One(b) \in {0, 1} /\ One(b) # 1
          /\ refs[b] = OnStack(Pop, b) + Occurrences(b, held) + Sum(HeldBy(refs, N, b))
          /\ OnStack(Pop, b) \in Nat /\ Occurrences(b, held) \in Nat /\ Sum(HeldBy(refs, N, b)) \in Nat
      BY <1>6, <1>7, <2>1
    <3> QED BY <3>1
  <2>2. N \in Nat /\ a \in 1..N /\ parts[a] = <<>>
    BY <1>1, <1>3
  <2> QED BY <2>1, <2>2, SameHolders
<1>10. Balanced(N, counts, rest, held)
  <2>1. ASSUME NEW x \in 1..N
        PROVE  counts[x] = rest[x] + Occurrences(x, held) + Sum(HeldBy(counts, N, x))
    <3>1. /\ refs[x] = OnStack(Pop, x) + Occurrences(x, held) + Sum(HeldBy(refs, N, x))
          /\ OnStack(Pop, x) \in Nat /\ Occurrences(x, held) \in Nat
          /\ Sum(HeldBy(refs, N, x)) \in Nat
      BY <1>6
    <3>2. /\ counts[x] = refs[x] + One(x) + Occurrences(x, held) /\ One(x) \in {0, 1}
          /\ rest[x] = OnStack(Pop, x) + One(x) + Occurrences(x, held)
          /\ HeldBy(counts, N, x) = HeldBy(refs, N, x)
      BY <1>7, <1>8, <1>9
    <3> QED BY <3>1, <3>2
  <2> QED BY <2>1 DEF Balanced
<1>11. /\ refs' \in [1..N -> Nat]
       /\ \A x \in 1..N : refs'[x] <= counts[x] /\ refs'[x] = rest[x] + Sum(HeldBy(refs', N, x))
  <2>1. Rebalanced(N, counts, rest, Released(counts, held))
    <3>1. N \in Nat /\ PartsAfter(N) /\ Len(held) \in Nat
      BY <1>1
    <3> QED BY <1>7, <1>8, <1>10, <3>1, ReleaseBalances
  <2>2. Rebalanced(N, counts, rest, refs')
    BY <1>2, <2>1
  <2> QED BY <2>2 DEF Rebalanced
<1>12. \A x \in 1..N : Counts(HeldBy(refs', N, x)) /\ Sum(HeldBy(refs', N, x)) \in Nat
  BY <1>1, HeldNat
<1>13. refs'[a] > 0
  <2>1. /\ refs'[a] = rest[a] + Sum(HeldBy(refs', N, a)) /\ Sum(HeldBy(refs', N, a)) \in Nat
        /\ rest[a] = OnStack(Pop, a) + One(a) + Occurrences(a, held)
        /\ OnStack(Pop, a) \in Nat /\ One(a) = 1 /\ Occurrences(a, held) \in Nat
    BY <1>1, <1>6, <1>7, <1>8, <1>11, <1>12
  <2> QED BY <2>1
<1>14. ASSUME NEW x \in 1..N
       PROVE  Sum(HeldBy(refs, N, x))' = Sum(HeldBy(refs', N, x)) + Occurrences(x, held)
  <2> DEFINE v == Occurrences(x, held)
             s == HeldBy(refs', N, x)
             t == [b \in 1..N |-> IF b = a THEN v ELSE 0]
             u == HeldBy(refs, N, x)'
  <2>1. v \in Nat /\ Counts(s)
    BY <1>6, <1>12
  <2>2. Counts(t) /\ Len(t) = N /\ Sum(t) = v
    <3> HIDE DEF v
    <3>1. Counts(t) /\ Len(t) = N
      BY <1>1, <2>1 DEF Counts
    <3> QED BY <1>1, <2>1, <3>1, SumPoint
  <2>3. Len(s) = N /\ Len(u) = N
    BY <1>1, <1>2 DEF HeldBy
  <2>4. ASSUME NEW b \in 1..N PROVE u[b] = s[b] + t[b]
    <3>1. CASE b = a
      <4>1. u[b] = Occurrences(x, held)
        BY <1>1, <1>2, <1>13, <3>1 DEF HeldBy
      <4>2. s[b] = 0
        BY <1>3, <1>13, <3>1, OccursNone DEF HeldBy
      <4> QED BY <2>1, <3>1, <4>1, <4>2
    <3>2. CASE b # a
      <4>1. u[b] = s[b]
        BY <1>1, <1>2, <3>2 DEF HeldBy
      <4>2. s[b] \in Nat /\ t[b] = 0
        BY <2>1, <2>3, <3>2 DEF Counts
      <4> QED BY <4>1, <4>2
    <3> QED BY <3>1, <3>2
  <2> HIDE DEF v, s, t, u
  <2>5. Sum(u) = Sum(s) + Sum(t)
    BY <2>1, <2>2, <2>3, <2>4, SumBoth
  <2> QED BY <2>2, <2>5 DEF v, s, u
<1>15. /\ lens' \in [1..N -> Nat] /\ lens'[a] = Layout.rows
       /\ \A x \in 1..N : x # a => lens'[x] = lens[x]
  <2>1. lens[held[1]] = Layout.rows
    <3> DEFINE i == Len(stack)
    <3>1. LevelInv(i) /\ LevelOf(i) = Layout /\ stack[i].held = held /\ Layout.id = "struct"
      BY <1>1, <1>5, TopFacts DEF RowsInv, Completing, held
    <3>2. Begun(i) = Len(held) /\ 1 \in 1..Len(held)
      BY <1>1, <3>1 DEF Begun, Waiting
    <3> HIDE DEF i
    <3>3. /\ LevelOf(i).id = "struct" => \A k \in 1..Begun(i) : tree[Child(i, k)].rows = LevelOf(i).rows
          /\ \A k \in 1..Len(stack[i].held) : lens[stack[i].held[k]] = tree[Child(i, k)].rows
      BY <3>1 DEF LevelInv
    <3> QED BY <3>1, <3>2, <3>3
  <2>2. lens[held[1]] \in Nat
    <3>1. held[1] \in 1..N
      BY <1>1, <1>5, SMTT(30)
    <3> QED BY <1>1, <3>1
  <2> QED BY <1>1, <1>2, <2>1, <2>2
<1>16. TypeInv'
  <2>1. parts' \in [1..N -> Seq(1..N)] /\ ret' \in (1..N) \cup {Failed}
    BY <1>1, <1>2
  <2>2. PartsAfter(N)'
    <3>1. ASSUME NEW b \in 1..N
          PROVE  Len(parts'[b]) \in Nat /\ \A i \in 1..Len(parts'[b]) : parts'[b][i] \in (b + 1)..N
      <4>1. CASE b = a
        <5>1. parts'[b] = held
          BY <1>1, <1>2, <4>1
        <5> QED BY <1>1, <1>5, <4>1, <5>1
      <4>2. CASE b # a
        <5>1. parts'[b] = parts[b]
          BY <1>1, <1>2, <4>2
        <5> QED BY <1>1, <5>1 DEF PartsAfter
      <4> QED BY <4>1, <4>2
    <3> QED BY <1>2, <3>1 DEF PartsAfter
  <2> QED BY <1>1, <1>4, <1>11, <1>15, <2>1, <2>2, PopType
<1>17. BalanceInv'
  <2>1. ASSUME NEW x \in 1..N
        PROVE  refs'[x] = OnStack(stack, x)' + Sum(HeldBy(refs, N, x))' + ReturnedTo(x)'
    <3>1. OnStack(stack, x)' = OnStack(Pop, x) /\ ReturnedTo(x)' = One(x)
      BY <1>2 DEF OnStack, ReturnedTo, One
    <3>2. Sum(HeldBy(refs, N, x))' = Sum(HeldBy(refs', N, x)) + Occurrences(x, held)
      BY <1>14
    <3>3. /\ OnStack(Pop, x) \in Nat /\ One(x) \in {0, 1} /\ Occurrences(x, held) \in Nat
          /\ Sum(HeldBy(refs', N, x)) \in Nat
      BY <1>6, <1>7, <1>12
    <3>4. /\ rest[x] = OnStack(Pop, x) + One(x) + Occurrences(x, held)
          /\ refs'[x] = rest[x] + Sum(HeldBy(refs', N, x))
      BY <1>8, <1>11
    <3> QED BY <3>1, <3>2, <3>3, <3>4
  <2> QED BY <1>2, <2>1 DEF BalanceInv
<1>18. OrderInv'
  BY <1>1, <1>2, <1>4, PopOrder, SMTT(30) DEF a
<1>19. FreshInv'
  <2>1. ASSUME NEW x \in 1..N, refs[x] = 0, x # a PROVE refs'[x] = 0 /\ parts'[x] = parts[x]
    <3>1. /\ counts[x] = refs[x] + One(x) + Occurrences(x, held) /\ One(x) = 0
          /\ refs[x] = OnStack(Pop, x) + Occurrences(x, held) + Sum(HeldBy(refs, N, x))
          /\ OnStack(Pop, x) \in Nat /\ Occurrences(x, held) \in Nat /\ Sum(HeldBy(refs, N, x)) \in Nat
      BY <1>6, <1>7, <2>1
    <3>2. refs'[x] <= counts[x] /\ refs'[x] \in Nat
      BY <1>11
    <3>3. parts'[x] = parts[x]
      BY <1>1, <1>2, <2>1
    <3> QED BY <2>1, <3>1, <3>2, <3>3
  <2> QED BY <1>1, <1>4, <2>1, PopFresh DEF a
<1>20. RowsInv'
  <2>1. \A x \in 1..N : refs[x] > 0 => lens'[x] = lens[x]
    BY <1>3, <1>15
  <2> QED BY <1>1, <1>2, <1>4, <1>15, <2>1, PopRows
<1> QED BY <1>16, <1>17, <1>18, <1>19, <1>20 DEF IInv

-----------------------------------------------------------------------------
(* Steps that make and release nothing.                                     *)

\* A call in progress is on the stack.
LEMMA InProgress ==
  ASSUME TypeInv, ret = Running
  PROVE  stack # <<>>
BY DEF TypeInv, Running, Begin

LEMMA OccursOnce ==
  ASSUME NEW a, NEW s, Len(s) = 1
  PROVE  Occurrences(a, s) = IF s[1] = a THEN 1 ELSE 0
<1> DEFINE T == {i \in 1..Len(s) : s[i] = a}
<1>1. Occurrences(a, s) = Cardinality(T)
  BY DEF Occurrences
<1>2. T = IF s[1] = a THEN {1} ELSE {}
  OBVIOUS
<1> HIDE DEF T
<1>3. Cardinality({1}) = 1 /\ Cardinality({}) = 0
  BY FS_Singleton, FS_EmptySet
<1> QED BY <1>1, <1>2, <1>3

\* The top call is between two children.
LEMMA TopLevel ==
  ASSUME TypeInv, RowsInv, stack # <<>>
  PROVE  LET i == Len(stack)
         IN  /\ i \in 1..Len(stack) /\ LevelInv(i) /\ LevelOf(i) = Layout /\ stack[i] = Top
             /\ Begun(i) = IF ret = Running THEN Len(Top.held) ELSE Len(Top.held) + 1
<1> DEFINE i == Len(stack)
<1>1. i \in 1..Len(stack) /\ Top = stack[i] /\ LevelOf(i) = Layout /\ Len(Top.held) \in Nat
  BY TopFacts
<1>2. LevelInv(i)
  BY <1>1 DEF RowsInv
<1>3. Begun(i) = IF ret = Running THEN Len(Top.held) ELSE Len(Top.held) + 1
  <2>1. Waiting(i) <=> ret # Running
    BY <1>1 DEF Waiting
  <2>2. stack[i].held = Top.held
    BY <1>1
  <2> HIDE DEF i
  <2>3. CASE ret = Running
    BY <1>1, <2>1, <2>2, <2>3 DEF Begun
  <2>4. CASE ret # Running
    BY <1>1, <2>1, <2>2, <2>4 DEF Begun
  <2> QED BY <2>3, <2>4
<1> QED BY <1>1, <1>2, <1>3

LEMMA ReturnDataInv == ASSUME IInv, ReturnData PROVE IInv'
<1> DEFINE held == Top.held
<1>1. /\ TypeInv /\ OrderInv /\ BalanceInv /\ FreshInv /\ RowsInv /\ stack # <<>>
      /\ ret = Running /\ Layout.id = "zoned" /\ Len(held) = 1
      /\ stack' = Pop /\ ret' = held[1] /\ tree' = tree /\ refs' = refs /\ parts' = parts
      /\ lens' = lens /\ N' = N
  BY InProgress DEF IInv, ReturnData, Completing, Decodes, N
<1>2. /\ N \in Nat /\ PartsAfter(N) /\ refs \in [1..N -> Nat]
      /\ parts \in [1..N -> Seq(1..N)] /\ lens \in [1..N -> Nat]
  BY <1>1, TreeFacts DEF TypeInv
<1>3. Top.node \in 1..N /\ held[1] \in 1..N /\ held[1] > Top.node
  <2>1. Len(stack) \in 1..Len(stack) /\ Top = stack[Len(stack)] /\ 1 \in 1..Len(held)
    BY <1>1, TopFacts
  <2> QED BY <1>1, <2>1, StackFacts DEF OrderInv
<1>4. Popped
  <2>1. ret' # Running /\ ret' # Begin
    <3> HIDE DEF held
    <3> QED BY <1>1, <1>2, <1>3, SMTT(30) DEF Running, Begin
  <2> QED BY <1>1, <2>1 DEF Popped
<1>5. lens[held[1]] = Layout.rows
  <2> DEFINE i == Len(stack)
  <2>1. LevelInv(i) /\ LevelOf(i) = Layout /\ stack[i].held = held
    BY <1>1, TopLevel
  <2> HIDE DEF i
  <2>2. lens[held[1]] = tree[Child(i, 1)].rows /\ Shaped(Layout)
    BY <1>1, <2>1 DEF LevelInv
  <2> QED BY <1>1, <2>1, <2>2 DEF Shaped, Child
<1> HIDE DEF held
<1>6. TypeInv'
  <2>1. PartsAfter(N)' /\ ret' \in (1..N) \cup {Failed}
    BY <1>1, <1>2, <1>3 DEF PartsAfter
  <2> QED BY <1>1, <1>2, <1>4, <2>1, PopType
<1>7. BalanceInv'
  <2>1. ASSUME NEW x \in 1..N
        PROVE  refs'[x] = OnStack(stack, x)' + Sum(HeldBy(refs, N, x))' + ReturnedTo(x)'
    <3>1. OnStack(stack, x)' = OnStack(Pop, x) /\ ReturnedTo(x)' = IF held[1] = x THEN 1 ELSE 0
      BY <1>1 DEF OnStack, ReturnedTo
    <3>2. Sum(HeldBy(refs, N, x))' = Sum(HeldBy(refs, N, x))
      <4>1. HeldBy(refs, N, x)' = HeldBy(refs, N, x)
        BY <1>1, HeldNext
      <4> QED BY <4>1
    <3>3. /\ refs[x] = OnStack(Pop, x) + Occurrences(x, held) + Sum(HeldBy(refs, N, x))
          /\ OnStack(Pop, x) \in Nat /\ Occurrences(x, held) \in Nat
          /\ Sum(HeldBy(refs, N, x)) \in Nat
      BY <1>1, TopHolds DEF held
    <3>4. Occurrences(x, held) = IF held[1] = x THEN 1 ELSE 0
      BY <1>1, OccursOnce
    <3> QED BY <1>1, <3>1, <3>2, <3>3, <3>4
  <2> QED BY <1>1, <2>1 DEF BalanceInv
<1>8. OrderInv'
  BY <1>1, <1>2, <1>3, <1>4, PopOrder
<1>9. FreshInv'
  BY <1>1, <1>4, PopFresh
<1>10. RowsInv'
  BY <1>1, <1>4, <1>5, PopRows
<1> QED BY <1>6, <1>7, <1>8, <1>9, <1>10 DEF IInv

\* The caller that was waiting for an array has it.
LEMMA KeepInv == ASSUME IInv, Keep PROVE IInv'
<1> PICK n : n = Len(stack)
  OBVIOUS
<1> DEFINE held == Top.held
           kept == Append(held, ret)
<1>1. /\ TypeInv /\ OrderInv /\ BalanceInv /\ FreshInv /\ RowsInv /\ stack # <<>>
      /\ tree' = tree /\ refs' = refs /\ parts' = parts /\ lens' = lens /\ N' = N
      /\ ret > 0 /\ ret' = Running
      /\ stack' = [stack EXCEPT ![n].held = Append(@, ret)]
  BY DEF IInv, Keep, N
<1>2. /\ N \in Nat /\ PartsAfter(N) /\ refs \in [1..N -> Nat] /\ ret \in 1..N
      /\ stack \in Seq(Levels) /\ n \in 1..n /\ n \in Nat /\ Top = stack[n]
      /\ held \in Seq(1..N) /\ Len(held) \in Nat /\ Top.node \in 1..N
  BY <1>1, TreeFacts, TopFacts DEF TypeInv, Begin, Running, Failed
<1>3. /\ kept \in Seq(1..N) /\ Len(kept) = Len(held) + 1 /\ kept[Len(held) + 1] = ret
      /\ \A j \in 1..Len(held) : kept[j] = held[j]
  BY <1>2
<1>4. /\ stack' \in Seq(Levels) /\ Len(stack') = n
      /\ \A i \in 1..n : i # n => stack'[i] = stack[i]
      /\ stack'[n].node = Top.node /\ stack'[n].held = kept
  <2> DEFINE new == [node |-> Top.node, held |-> kept]
  <2>1. stack[n] \in Levels
    BY <1>2, SeqElement
  <2>2. new \in Levels
    BY <1>2, <1>3 DEF Levels
  <2>3. [stack[n] EXCEPT !.held = Append(@, ret)] = new
    <3>1. stack[n] = [node |-> Top.node, held |-> held]
      BY <1>2, <2>1 DEF Levels
    <3> HIDE DEF held
    <3> QED BY <3>1 DEF kept
  <2>4. stack' = [stack EXCEPT ![n] = new]
    BY <1>1, <1>2, <2>3
  <2> HIDE DEF new, Levels
  <2>5. /\ stack' \in Seq(Levels) /\ Len(stack') = n /\ stack'[n] = new
        /\ \A i \in 1..n : i # n => stack'[i] = stack[i]
    BY <1>2, <2>2, <2>4
  <2>6. new.node = Top.node /\ new.held = kept
    BY DEF new
  <2>7. stack'[n].node = Top.node /\ stack'[n].held = kept
    BY <2>5, <2>6
  <2> QED BY <2>5, <2>7
<1> HIDE DEF held, kept
<1>5. \A i \in 1..n : stack'[i].node = stack[i].node /\ LevelOf(i)' = LevelOf(i)
                      /\ Begun(i)' = Begun(i)
  <2>1. ASSUME NEW i \in 1..n, i # n PROVE Begun(i)' = Begun(i)
    <3>1. i < Len(stack) /\ i < Len(stack)' /\ stack'[i] = stack[i]
      BY <1>2, <1>4, <2>1
    <3> QED BY <3>1 DEF Begun, Waiting
  <2>2. Begun(n)' = Begun(n)
    <3>1. Begun(n) = Len(held) + 1
      BY <1>1, <1>2, TopLevel DEF held, Running
    <3>2. ~(n < Len(stack')) /\ ret' = Running /\ Len(stack'[n].held) = Len(held) + 1
      BY <1>1, <1>2, <1>3, <1>4
    <3>3. Begun(n)' = Len(held) + 1
      BY <1>2, <3>2 DEF Begun, Waiting
    <3> QED BY <3>1, <3>3
  <2>3. \A i \in 1..n : stack'[i].node = stack[i].node
    BY <1>2, <1>4
  <2> QED BY <1>1, <2>1, <2>2, <2>3 DEF LevelOf
<1>6. TypeInv'
  <2>1. Levels' = Levels /\ PartsAfter(N)'
    BY <1>1, <1>2 DEF Levels, PartsAfter
  <2>2. stack' # <<>>
    <3> HIDE DEF Levels
    <3> QED BY <1>2, <1>4
  <2>3. ret' = Running /\ ret' # Begin
    BY <1>1 DEF Running, Begin
  <2> QED BY <1>1, <1>4, <2>1, <2>2, <2>3 DEF TypeInv
<1>7. OrderInv'
  <2>1. ASSUME NEW i \in 1..n
        PROVE  stack'[i].node = IF i = 1 THEN 1 ELSE Child(i - 1, Len(stack[i - 1].held) + 1)'
    <3>1. stack[i].node = IF i = 1 THEN 1 ELSE Child(i - 1, Len(stack[i - 1].held) + 1)
      BY <1>1 DEF OrderInv
    <3>2. CASE i = 1
      BY <1>5, <3>1, <3>2
    <3>3. CASE i # 1
      <4>1. i - 1 \in 1..n /\ i - 1 # n
        BY <1>2, <3>3
      <4>2. stack'[i - 1] = stack[i - 1]
        BY <1>4, <4>1
      <4> QED BY <1>1, <1>5, <3>1, <3>3, <4>1, <4>2 DEF Child, LevelOf
    <3> QED BY <3>2, <3>3
  <2>2. ASSUME NEW i \in 1..n
        PROVE  \A j \in 1..Len(stack'[i].held) : stack'[i].held[j] > stack'[i].node
    <3>1. CASE i # n
      BY <1>1, <1>4, <1>5, <3>1 DEF OrderInv
    <3>2. CASE i = n
      <4>1. \A j \in 1..Len(held) : held[j] > Top.node
        BY <1>1, <1>2 DEF OrderInv, held
      <4>2. ret > Top.node
        BY <1>1 DEF OrderInv
      <4>3. \A j \in 1..Len(kept) : j \in 1..Len(held) \/ j = Len(held) + 1
        BY <1>2, <1>3
      <4>4. \A j \in 1..Len(kept) : kept[j] > Top.node
        BY <1>3, <4>1, <4>2, <4>3
      <4> QED BY <1>4, <3>2, <4>4
    <3> QED BY <3>1, <3>2
  <2>3. ~(ret' > 0)
    BY <1>1 DEF Running
  <2> QED BY <1>4, <2>1, <2>2, <2>3 DEF OrderInv
<1>8. BalanceInv'
  <2>1. ASSUME NEW x \in 1..N
        PROVE  refs'[x] = OnStack(stack, x)' + Sum(HeldBy(refs, N, x))' + ReturnedTo(x)'
    <3>1. Sum(HeldBy(refs, N, x))' = Sum(HeldBy(refs, N, x))
      <4>1. HeldBy(refs, N, x)' = HeldBy(refs, N, x)
        BY <1>1, HeldNext
      <4> QED BY <4>1
    <3>2. ReturnedTo(x)' = 0 /\ ReturnedTo(x) = IF ret = x THEN 1 ELSE 0
      BY <1>1, <1>2 DEF ReturnedTo, Running
    <3>3. Occurrences(x, kept) = Occurrences(x, held) + (IF ret = x THEN 1 ELSE 0)
      <4>1. Len(kept) = Len(held) + 1 /\ kept[Len(kept)] = ret
        BY <1>3
      <4> QED BY <1>2, <1>3, <4>1, OccursMore
    <3>4. OnStack(stack, x)' = OnStack(Pop, x) + Occurrences(x, kept)
      <4> DEFINE calls == Pop
                 more == stack'
      <4>1. /\ Len(calls) \in Nat /\ Len(more) = Len(calls) + 1
            /\ \A i \in 1..Len(calls) : more[i] = calls[i]
            /\ more[Len(more)].held = kept
        <5>1. /\ Len(Pop) = n - 1 /\ \A i \in 1..Len(Pop) : i \in 1..n /\ Pop[i] = stack[i]
          BY <1>1, TopFacts
        <5>2. \A i \in 1..Len(Pop) : i # n
          BY <1>2, <5>1
        <5> QED BY <1>2, <1>4, <5>1, <5>2
      <4> HIDE DEF calls, more
      <4>2. OnStack(more, x) = OnStack(calls, x) + Occurrences(x, more[Len(more)].held)
        BY <4>1, OnStackMore
      <4>3. OnStack(stack, x)' = OnStack(more, x)
        BY DEF OnStack, more
      <4> QED BY <4>1, <4>2, <4>3 DEF calls
    <3>5. /\ OnStack(stack, x) = OnStack(Pop, x) + Occurrences(x, held)
          /\ OnStack(Pop, x) \in Nat /\ Occurrences(x, held) \in Nat
      BY <1>1, PopHolds DEF held
    <3>6. /\ refs[x] = OnStack(stack, x) + Sum(HeldBy(refs, N, x)) + ReturnedTo(x)
          /\ Sum(HeldBy(refs, N, x)) \in Nat
      BY <1>1, <1>2, HeldNat DEF BalanceInv
    <3> QED BY <1>1, <3>1, <3>2, <3>3, <3>4, <3>5, <3>6
  <2> QED BY <1>1, <2>1 DEF BalanceInv
<1>9. FreshInv'
  <2>1. PICK U \in SUBSET (1..N) : Fresh(U)
    BY <1>1 DEF FreshInv
  <2>2. ASSUME NEW i \in 1..n
        PROVE  /\ stack'[i].node \notin U
               /\ \A k \in 1..Len(LevelOf(i)'.children) : k > Begun(i)' => Child(i, k)' \in U
               /\ refs'[stack'[i].node] = 0 /\ parts'[stack'[i].node] = <<>>
    <3>1. \A k : Child(i, k)' = Child(i, k)
      BY <1>5 DEF Child
    <3> QED BY <1>1, <1>5, <2>1, <3>1 DEF Fresh
  <2>3. ret' # Begin
    BY <1>1 DEF Begin, Running
  <2>4. Fresh(U)'
    BY <1>1, <1>4, <2>1, <2>2, <2>3 DEF Fresh
  <2> QED BY <1>1, <2>4 DEF FreshInv
<1>10. RowsInv'
  <2>1. ASSUME NEW i \in 1..n
        PROVE  LevelInv(i)'
    <3> DEFINE l == LevelOf(i)
               b == Begun(i)
    <3>1. LevelInv(i)
      BY <1>1 DEF RowsInv
    <3>2. LevelOf(i)' = l /\ Begun(i)' = b /\ \A k : Child(i, k)' = Child(i, k)
      BY <1>5 DEF Child
    <3>3. \A k \in 1..Len(stack'[i].held) : lens[stack'[i].held[k]] = tree[Child(i, k)].rows
      <4>1. \A k \in 1..Len(stack[i].held) : lens[stack[i].held[k]] = tree[Child(i, k)].rows
        BY <3>1 DEF LevelInv
      <4>2. CASE i # n
        BY <1>4, <4>1, <4>2
      <4>3. CASE i = n
        <5>1. lens[ret] = tree[Child(n, Len(held) + 1)].rows
          BY <1>1 DEF RowsInv, held
        <5>2. \A k \in 1..Len(held) : lens[held[k]] = tree[Child(n, k)].rows
          BY <1>2, <4>1, <4>3 DEF held
        <5>3. \A k \in 1..Len(kept) : k \in 1..Len(held) \/ k = Len(held) + 1
          BY <1>2, <1>3
        <5>4. \A k \in 1..Len(kept) : lens[kept[k]] = tree[Child(n, k)].rows
          BY <1>3, <5>1, <5>2, <5>3
        <5> QED BY <1>4, <4>3, <5>4
      <4> QED BY <4>2, <4>3
    <3>4. Shaped(LevelOf(i))' <=> Shaped(l)
      BY <1>1, <3>2 DEF Shaped
    <3>5. Decodes(LevelOf(i))' = Decodes(l)
      BY <3>2 DEF Decodes
    <3>6. [k \in 1..Begun(i) |-> tree[Child(i, k)].rows]' = [k \in 1..b |-> tree[Child(i, k)].rows]
      BY <1>1, <3>2
    <3>7. /\ l.rows <= MaxRows /\ l.id # "flat" /\ Shaped(l)
          /\ b <= Decodes(l)
          /\ l.id = "struct" => \A k \in 1..b : tree[Child(i, k)].rows = l.rows
          /\ l.id = "chunked" => Sum([k \in 1..b |-> tree[Child(i, k)].rows]) <= l.rows
      BY <3>1 DEF LevelInv
    <3> HIDE DEF l, b
    <3>8. /\ l.id = "struct" => \A k \in 1..b : tree'[Child(i, k)'].rows = l.rows
          /\ \A k \in 1..Len(stack'[i].held) : lens'[stack'[i].held[k]] = tree'[Child(i, k)'].rows
      BY <1>1, <3>2, <3>3, <3>7
    <3> QED BY <3>2, <3>4, <3>5, <3>6, <3>7, <3>8 DEF LevelInv
  <2>2. ~(ret' > 0)
    BY <1>1 DEF Running
  <2> QED BY <1>4, <2>1, <2>2 DEF RowsInv
<1> QED BY <1>6, <1>7, <1>8, <1>9, <1>10 DEF IInv

-----------------------------------------------------------------------------
(* Calls.  The root is to be called first, then the next child of the top,  *)
(* whose rows agree with what the top has begun.                            *)

Awaits(n) ==
  \/ ret = Begin /\ stack = <<>> /\ n = 1
  \/ /\ ret = Running
     /\ stack # <<>>
     /\ Len(Top.held) < Decodes(Layout)
     /\ n = Child(Len(stack), Len(Top.held) + 1)
     /\ RowsAgree(Len(Top.held) + 1)

\* The top level began a child; the others wait as before.
Began == /\ tree' = tree
         /\ Len(stack') \in Nat
         /\ Len(stack) <= Len(stack')
         /\ \A i \in 1..Len(stack) : stack'[i] = stack[i]
         /\ Len(stack) = Len(stack') => ret' # Running

LEMMA BeganFacts ==
  ASSUME IInv, Began, NEW n, Awaits(n)
  PROVE  /\ n \in 1..N /\ N \in Nat
         /\ \A i \in 1..Len(stack) :
               /\ i \in 1..Len(stack') /\ LevelOf(i)' = LevelOf(i)
               /\ \A k : Child(i, k)' = Child(i, k)
               /\ Begun(i) \in Nat
               /\ Begun(i)' = IF i = Len(stack) THEN Begun(i) + 1 ELSE Begun(i)
         /\ stack # <<>> => /\ ret = Running /\ Begun(Len(stack)) = Len(Top.held)
                            /\ Len(stack) \in 1..Len(stack) /\ Top = stack[Len(stack)]
                            /\ n = Child(Len(stack), Begun(Len(stack)) + 1) /\ n > Top.node
                            /\ Begun(Len(stack)) + 1 \in 1..Len(Layout.children)
                            /\ LevelOf(Len(stack)) = Layout /\ Top.node \in 1..N
         /\ stack = <<>> => n = 1 /\ ret = Begin
<1>1. TypeInv /\ RowsInv /\ N \in Nat \ {0} /\ Len(stack) \in Nat
  BY TreeFacts, StackFacts DEF IInv, TypeInv
<1>2. ASSUME NEW i \in 1..Len(stack)
      PROVE  /\ i \in 1..Len(stack') /\ LevelOf(i)' = LevelOf(i)
             /\ \A k : Child(i, k)' = Child(i, k)
             /\ Begun(i) \in Nat
             /\ Begun(i)' = IF i = Len(stack) THEN Begun(i) + 1 ELSE Begun(i)
  <2>1. i \in 1..Len(stack') /\ LevelOf(i)' = LevelOf(i) /\ stack'[i] = stack[i]
    BY <1>1 DEF Began, LevelOf
  <2>2. Begun(i) \in Nat /\ Len(stack[i].held) \in Nat
    BY <1>1, BegunFacts, StackFacts
  <2>3. Begun(i)' = Len(stack[i].held) + 1
    <3>1. i < Len(stack') \/ ret' # Running
      BY <1>1 DEF Began
    <3> QED BY <2>1, <3>1 DEF Begun, Waiting
  <2>4. CASE i = Len(stack)
    <3>1. stack # <<>> /\ ret = Running
      BY <1>1, <2>4, StackFacts DEF Awaits
    <3>2. Begun(i) = Len(stack[i].held)
      BY <1>1, <2>4, <3>1, TopLevel
    <3> QED BY <2>1, <2>2, <2>3, <2>4, <3>2 DEF Child
  <2>5. CASE i # Len(stack)
    <3>1. i < Len(stack)
      BY <1>1, <2>5
    <3>2. Begun(i) = Len(stack[i].held) + 1
      BY <3>1 DEF Begun, Waiting
    <3> QED BY <2>1, <2>2, <2>3, <2>5, <3>2 DEF Child
  <2> QED BY <2>4, <2>5
<1>3. ASSUME stack # <<>>
      PROVE  /\ ret = Running /\ Begun(Len(stack)) = Len(Top.held)
             /\ Len(stack) \in 1..Len(stack) /\ Top = stack[Len(stack)]
             /\ n = Child(Len(stack), Begun(Len(stack)) + 1) /\ n > Top.node
             /\ Begun(Len(stack)) + 1 \in 1..Len(Layout.children)
             /\ LevelOf(Len(stack)) = Layout /\ Top.node \in 1..N /\ n \in 1..N
  <2>1. /\ ret = Running /\ Len(Top.held) < Decodes(Layout)
        /\ n = Child(Len(stack), Len(Top.held) + 1)
    BY <1>3 DEF Awaits
  <2>2. /\ Len(stack) \in 1..Len(stack) /\ LevelInv(Len(stack)) /\ LevelOf(Len(stack)) = Layout
        /\ Top = stack[Len(stack)] /\ Begun(Len(stack)) = Len(Top.held)
    BY <1>1, <1>3, <2>1, TopLevel
  <2>3. Top.node \in 1..N /\ Len(Top.held) \in Nat /\ tree \in Trees
    BY <1>1, <1>3, TopFacts DEF TypeInv
  <2>4. Shaped(Layout)
    BY <2>2 DEF LevelInv
  <2>5. Decodes(Layout) \in 0..Len(Layout.children)
    BY <2>3, <2>4, DecodesSome DEF Layout
  <2>6. /\ Len(Layout.children) \in Nat
        /\ \A k \in 1..Len(Layout.children) : Layout.children[k] \in (Top.node + 1)..N
    BY <2>3, TreeFacts DEF Layout
  <2>7. Len(Top.held) + 1 \in 1..Len(Layout.children)
    BY <2>1, <2>3, <2>5, <2>6
  <2>8. n = Layout.children[Len(Top.held) + 1]
    BY <2>1, <2>2 DEF Child
  <2>9. n \in (Top.node + 1)..N
    BY <2>6, <2>7, <2>8
  <2>10. n \in 1..N /\ n > Top.node
    BY <1>1, <2>3, <2>9
  <2> QED BY <2>1, <2>2, <2>3, <2>7, <2>10
<1>4. stack = <<>> => n = 1 /\ ret = Begin /\ n \in 1..N
  BY <1>1 DEF Awaits
<1> QED BY <1>1, <1>2, <1>3, <1>4

LEMMA Int64Of == ASSUME NEW x \in Nat, x < Half PROVE Int64(x) = x
<1> DEFINE d == 2 * Half
<1>1. Half \in Nat /\ d \in Nat /\ x + Half \in Nat /\ x + Half < d /\ d > 0
  BY RowsAssumption
<1> HIDE DEF d
<1>2. (x + Half) % d = x + Half
  BY <1>1
<1> QED BY <1>1, <1>2 DEF Int64, d

\* Chunk rows that fit do not wrap around.
LEMMA ChunkBegun ==
  ASSUME IInv, NEW n, Awaits(n), stack # <<>>, Layout.id = "chunked", NEW b \in Nat,
         b = Len(Top.held), b + 1 \in 1..Len(Layout.children), n = Layout.children[b + 1],
         Sum([k \in 1..b |-> tree[Layout.children[k]].rows]) <= Layout.rows,
         Layout.rows <= MaxRows
  PROVE  Sum([k \in 1..(b + 1) |-> tree[Layout.children[k]].rows]) <= Layout.rows
<1> DEFINE s == [k \in 1..b |-> tree[Layout.children[k]].rows]
           t == [k \in 1..(b + 1) |-> tree[Layout.children[k]].rows]
           rows == tree[n].rows
<1>1. tree \in Trees /\ Top.node \in 1..N /\ N \in Nat
  BY TopFacts, TreeFacts DEF IInv, TypeInv
<1>2. Len(Layout.children) \in Nat
      /\ \A k \in 1..Len(Layout.children) : Layout.children[k] \in (Top.node + 1)..N
  BY <1>1, TreeFacts DEF Layout
<1>3. \A k \in 1..Len(Layout.children) : tree[Layout.children[k]].rows \in Nat
  <2>1. \A k \in 1..Len(Layout.children) : Layout.children[k] \in 1..N
    BY <1>1, <1>2
  <2> QED BY <1>1, <2>1, TreeFacts
<1>4. Layout.rows \in Nat /\ rows \in Nat
  BY <1>1, <1>3, TreeFacts DEF Layout
<1>5. /\ Len(s) = b /\ Len(t) = b + 1 /\ t[b + 1] = rows
      /\ \A k \in 1..b : s[k] \in Nat /\ t[k] = s[k]
  BY <1>2, <1>3
<1>6. RowsUsed = Int64(Sum(s))
  BY DEF RowsUsed
<1>7. rows <= Int64(Layout.rows - RowsUsed)
  <2>1. RowsAgree(b + 1) /\ tree[Layout.children[b + 1]].rows = rows
    BY DEF Awaits
  <2> HIDE DEF rows
  <2> QED BY <2>1 DEF RowsAgree, ChunkFits
<1> HIDE DEF s, t, rows
<1>8. Sum(s) \in Nat
  <2>1. Counts(s)
    BY <1>5 DEF Counts
  <2> QED BY <2>1, SumNat
<1>9. Sum(s) <= Layout.rows
  BY DEF s
<1>10. Int64(Sum(s)) = Sum(s)
  <2>1. Sum(s) < Half
    BY <1>4, <1>8, <1>9, RowsAssumption
  <2> QED BY <1>8, <2>1, Int64Of
<1>11. Int64(Layout.rows - Sum(s)) = Layout.rows - Sum(s)
  <2>1. Layout.rows - Sum(s) \in Nat /\ Layout.rows - Sum(s) < Half
    BY <1>4, <1>8, <1>9, RowsAssumption
  <2> QED BY <2>1, Int64Of
<1>12. rows <= Layout.rows - Sum(s)
  BY <1>6, <1>7, <1>10, <1>11
<1>13. Sum(t) = Sum(s) + rows
  <2>1. Len(s) \in Nat /\ Len(t) = Len(s) + 1 /\ t[Len(t)] = rows
    BY <1>5
  <2> QED BY <1>5, <2>1, SumMore
<1>14. Sum(t) <= Layout.rows
  BY <1>4, <1>8, <1>12, <1>13
<1> QED BY <1>14 DEF t

LEMMA BeganRows ==
  ASSUME IInv, Began, NEW n, Awaits(n), \A a \in 1..N : refs[a] > 0 => lens'[a] = lens[a]
  PROVE  \A i \in 1..Len(stack) : LevelInv(i)'
<1> SUFFICES ASSUME NEW i \in 1..Len(stack) PROVE LevelInv(i)'
  OBVIOUS
<1> DEFINE l == LevelOf(i)
           b == Begun(i)
           new == Begun(i)'
<1>1. TypeInv /\ BalanceInv /\ RowsInv /\ tree' = tree
  BY DEF IInv, Began
<1>2. /\ LevelOf(i)' = l /\ stack'[i] = stack[i] /\ b \in Nat
      /\ \A k : Child(i, k)' = Child(i, k)
      /\ new = IF i = Len(stack) THEN b + 1 ELSE b
  BY BeganFacts DEF Began
<1>3. /\ l.rows <= MaxRows /\ l.id # "flat" /\ Shaped(l) /\ b <= Decodes(l)
      /\ l.id = "struct" => \A k \in 1..b : tree[Child(i, k)].rows = l.rows
      /\ l.id = "chunked" => Sum([k \in 1..b |-> tree[Child(i, k)].rows]) <= l.rows
      /\ \A k \in 1..Len(stack[i].held) : lens[stack[i].held[k]] = tree[Child(i, k)].rows
  BY <1>1 DEF RowsInv, LevelInv
<1>4. \A k \in 1..Len(stack[i].held) : lens'[stack[i].held[k]] = tree[Child(i, k)].rows
  <2>1. \A k \in 1..Len(stack[i].held) : lens'[stack[i].held[k]] = lens[stack[i].held[k]]
    BY <1>1, HeldAlive, StackFacts
  <2> QED BY <1>3, <2>1
<1>5. /\ new <= Decodes(l)
      /\ l.id = "struct" => \A k \in 1..new : tree[Child(i, k)].rows = l.rows
      /\ l.id = "chunked" => Sum([k \in 1..new |-> tree[Child(i, k)].rows]) <= l.rows
  <2>1. CASE i # Len(stack)
    <3> HIDE DEF l, b, new
    <3>1. new = b
      BY <1>2, <2>1
    <3> QED BY <1>3, <3>1
  <2>2. CASE i = Len(stack)
    <3>1. stack # <<>> /\ tree \in Trees
      BY <1>1, StackFacts DEF TypeInv
    <3>2. /\ b = Len(Top.held) /\ n = Child(i, b + 1) /\ l = Layout /\ ret # Begin
          /\ b + 1 \in 1..Len(Layout.children)
      BY <2>2, <3>1, BeganFacts DEF Begin, Running
    <3>3. Len(Top.held) < Decodes(Layout) /\ RowsAgree(b + 1)
      BY <3>1, <3>2 DEF Awaits
    <3>4. \A k : Child(i, k) = Layout.children[k]
      BY <3>2 DEF Child
    <3>5. Decodes(l) \in Nat
      BY <1>1, <3>1, <1>3, <3>2, TopFacts, DecodesSome DEF Layout
    <3> HIDE DEF l, b, new
    <3>6. new = b + 1
      BY <1>2, <2>2
    <3>7. new <= Decodes(l)
      BY <1>2, <3>2, <3>3, <3>5, <3>6
    <3>8. ASSUME l.id = "struct", NEW k \in 1..new PROVE tree[Child(i, k)].rows = l.rows
      <4>1. CASE k = b + 1
        BY <3>2, <3>3, <3>4, <3>8, <4>1 DEF RowsAgree
      <4>2. CASE k # b + 1
        <5>1. k \in 1..b
          BY <1>2, <3>6, <4>2
        <5> QED BY <1>3, <3>8, <5>1
      <4> QED BY <4>1, <4>2
    <3>9. ASSUME l.id = "chunked"
          PROVE  Sum([k \in 1..new |-> tree[Child(i, k)].rows]) <= l.rows
      <4>1. Sum([k \in 1..b |-> tree[Layout.children[k]].rows]) <= Layout.rows
        BY <1>3, <3>2, <3>4, <3>9
      <4>2. Sum([k \in 1..(b + 1) |-> tree[Layout.children[k]].rows]) <= Layout.rows
        BY <1>2, <1>3, <3>1, <3>2, <3>4, <3>9, <4>1, ChunkBegun
      <4> QED BY <3>2, <3>4, <3>6, <4>2
    <3> QED BY <3>7, <3>8, <3>9
  <2> QED BY <2>1, <2>2
<1>6. Shaped(LevelOf(i))' <=> Shaped(l)
  BY <1>1, <1>2 DEF Shaped
<1>7. Decodes(LevelOf(i))' = Decodes(l)
  BY <1>2 DEF Decodes
<1>8. [k \in 1..Begun(i) |-> tree[Child(i, k)].rows]' = [k \in 1..new |-> tree[Child(i, k)].rows]
  BY <1>1, <1>2
<1> HIDE DEF l, b
<1>9. /\ l.id = "struct" => \A k \in 1..new : tree'[Child(i, k)'].rows = l.rows
      /\ \A k \in 1..Len(stack'[i].held) : lens'[stack'[i].held[k]] = tree'[Child(i, k)'].rows
  BY <1>1, <1>2, <1>4, <1>5
<1> QED BY <1>2, <1>3, <1>5, <1>6, <1>7, <1>8, <1>9 DEF LevelInv

\* The layout that is called has no array; nor has any in it, or any other
\* still to be called.
FreshBut(U, n) ==
  /\ n \notin U /\ refs[n] = 0 /\ parts[n] = <<>>
  /\ \A k \in 1..Len(tree[n].children) : tree[n].children[k] \in U
  /\ \A m \in U : /\ refs[m] = 0 /\ parts[m] = <<>>
                  /\ \A k \in 1..Len(tree[m].children) : tree[m].children[k] \in U
  /\ \A i \in 1..Len(stack) :
       /\ stack[i].node \notin U /\ stack[i].node # n
       /\ refs[stack[i].node] = 0 /\ parts[stack[i].node] = <<>>
       /\ \A k \in 1..Len(LevelOf(i).children) : k > Begun(i)' => Child(i, k) \in U

LEMMA BeganFresh ==
  ASSUME IInv, Began, NEW n, Awaits(n)
  PROVE  \E U \in SUBSET (1..N) : FreshBut(U, n)
<1>1. TypeInv /\ OrderInv /\ RowsInv /\ tree \in Trees /\ n \in 1..N /\ N \in Nat
  BY BeganFacts DEF IInv, TypeInv
<1>2. PICK U \in SUBSET (1..N) : Fresh(U)
  BY DEF IInv, FreshInv
<1>3. n \in U
  <2>1. CASE stack = <<>>
    BY <1>2, <2>1, BeganFacts DEF Fresh
  <2>2. CASE stack # <<>>
    <3> DEFINE t == Len(stack)
    <3>1. /\ t \in 1..Len(stack) /\ n = Child(t, Begun(t) + 1)
          /\ Begun(t) + 1 \in 1..Len(LevelOf(t).children) /\ Begun(t) \in Nat
      BY <2>2, BeganFacts
    <3> HIDE DEF t
    <3>2. Begun(t) + 1 > Begun(t)
      BY <3>1
    <3> QED BY <1>2, <3>1, <3>2 DEF Fresh
  <2> QED BY <2>1, <2>2
<1>4. \A m \in 1..N : /\ Len(tree[m].children) \in Nat
                      /\ \A k \in 1..Len(tree[m].children) : tree[m].children[k] \in (m + 1)..N
  BY <1>1, TreeFacts
\* No other call or layout has it as a child.
<1>5. ASSUME NEW m \in 1..N, NEW k \in 1..Len(tree[m].children), tree[m].children[k] = n
      PROVE  stack # <<>> /\ m = Top.node /\ k = Begun(Len(stack)) + 1
  <2>1. n > 1
    BY <1>1, <1>4, <1>5
  <2>2. stack # <<>>
    BY <2>1, BeganFacts
  <2>3. /\ Top.node \in 1..N /\ Begun(Len(stack)) + 1 \in 1..Len(tree[Top.node].children)
        /\ n = tree[Top.node].children[Begun(Len(stack)) + 1]
    BY <2>2, BeganFacts DEF Child, Layout
  <2> DEFINE t == Top.node
             j == Begun(Len(stack)) + 1
  <2> HIDE DEF t, j
  <2>4. t \in 1..N /\ j \in 1..Len(tree[t].children) /\ n = tree[t].children[j]
    BY <2>3 DEF t, j
  <2>5. m = t /\ k = j
    BY <1>1, <1>5, <2>4, OnePlace
  <2> QED BY <2>2, <2>5 DEF t, j
<1>6. Top.node \notin U \/ stack = <<>>
  BY <1>2, BeganFacts DEF Fresh
<1>7. ASSUME NEW m \in U, NEW k \in 1..Len(tree[m].children)
      PROVE  tree[m].children[k] \in U \ {n}
  <2>1. tree[m].children[k] \in U
    BY <1>2 DEF Fresh
  <2>2. tree[m].children[k] # n
    BY <1>5, <1>6
  <2> QED BY <2>1, <2>2
<1>8. ASSUME NEW i \in 1..Len(stack)
      PROVE  /\ stack[i].node \notin U
             /\ refs[stack[i].node] = 0 /\ parts[stack[i].node] = <<>>
             /\ \A k \in 1..Len(LevelOf(i).children) : k > Begun(i)' => Child(i, k) \in U \ {n}
  <2>1. /\ stack[i].node \notin U
        /\ refs[stack[i].node] = 0 /\ parts[stack[i].node] = <<>>
        /\ \A k \in 1..Len(LevelOf(i).children) : k > Begun(i) => Child(i, k) \in U
    BY <1>2 DEF Fresh
  <2>2. ASSUME NEW k \in 1..Len(LevelOf(i).children), k > Begun(i)'
        PROVE  Child(i, k) \in U \ {n}
    <3>1. /\ stack[i].node \in 1..N /\ Len(stack) \in Nat
          /\ Begun(i) \in Nat /\ Begun(i)' = IF i = Len(stack) THEN Begun(i) + 1 ELSE Begun(i)
      BY <1>1, StackFacts, BeganFacts
    <3>2. k \in Nat /\ k > Begun(i)
      <4>1. Len(LevelOf(i).children) \in Nat
        BY <1>4, <3>1 DEF LevelOf
      <4> QED BY <2>2, <3>1, <4>1
    <3>3. Child(i, k) # n
      <4> SUFFICES ASSUME Child(i, k) = n PROVE FALSE
        OBVIOUS
      <4>1. stack # <<>> /\ stack[i].node = Top.node /\ k = Begun(Len(stack)) + 1
        BY <1>5, <3>1 DEF Child, LevelOf
      <4>2. i # Len(stack)
        BY <2>2, <3>1, <4>1
      <4>3. i < Len(stack)
        BY <3>1, <4>2
      <4>4. stack[i].node < stack[Len(stack)].node /\ Top = stack[Len(stack)]
        BY <1>1, <4>1, <4>3, Increasing, BeganFacts
      <4> QED BY <1>1, <3>1, <4>1, <4>4
    <3> QED BY <2>1, <3>2, <3>3
  <2> QED BY <2>1, <2>2
<1> DEFINE W == U \ {n}
<1>9. FreshBut(W, n)
  <2>1. n \notin W /\ W \in SUBSET U
    OBVIOUS
  <2>2. \A m \in U : refs[m] = 0 /\ parts[m] = <<>>
    BY <1>2 DEF Fresh
  <2>3. \A m \in U : \A k \in 1..Len(tree[m].children) : tree[m].children[k] \in W
    BY <1>7
  <2>4. \A i \in 1..Len(stack) :
          /\ stack[i].node \notin U
          /\ refs[stack[i].node] = 0 /\ parts[stack[i].node] = <<>>
          /\ \A k \in 1..Len(LevelOf(i).children) : k > Begun(i)' => Child(i, k) \in W
    BY <1>8
  <2> HIDE DEF W
  <2> QED BY <1>3, <2>1, <2>2, <2>3, <2>4 DEF FreshBut
<1> QED BY <1>9

\* No array is being returned while a call is awaited.
LEMMA AwaitsHolds ==
  ASSUME IInv, NEW n, Awaits(n)
  PROVE  \A x \in 1..N : /\ refs[x] = OnStack(stack, x) + Sum(HeldBy(refs, N, x))
                         /\ OnStack(stack, x) \in Nat /\ Sum(HeldBy(refs, N, x)) \in Nat
                         /\ ReturnedTo(x) = 0
<1>1. TypeInv /\ BalanceInv /\ N \in Nat /\ PartsAfter(N) /\ ret \notin 1..N
  BY TreeFacts DEF IInv, TypeInv, Awaits, Running, Begin
<1>2. ASSUME NEW x \in 1..N
      PROVE  /\ refs[x] = OnStack(stack, x) + Sum(HeldBy(refs, N, x))
             /\ OnStack(stack, x) \in Nat /\ Sum(HeldBy(refs, N, x)) \in Nat
             /\ ReturnedTo(x) = 0
  <2>1. refs[x] = OnStack(stack, x) + Sum(HeldBy(refs, N, x)) + ReturnedTo(x)
    BY <1>1 DEF BalanceInv
  <2>2. ReturnedTo(x) = 0
    BY <1>1 DEF ReturnedTo
  <2>3. OnStack(stack, x) \in Nat
    BY <1>1, StackFacts, OnStackNat
  <2>4. Sum(HeldBy(refs, N, x)) \in Nat
    BY <1>1, HeldNat
  <2> QED BY <2>1, <2>2, <2>3, <2>4
<1> QED BY <1>2

\* A call that returns at once, with an error or an array.
LEMMA ReturnsOrder ==
  ASSUME IInv, NEW n, Awaits(n), stack' = stack, tree' = tree, ret' \in {n, Failed}
  PROVE  Began /\ OrderInv' /\ ret' \in (1..N) \cup {Failed}
<1>1. TypeInv /\ OrderInv /\ Len(stack) \in Nat
  BY StackFacts DEF IInv
<1>2. Awaits(n) => stack = <<>> \/ stack # <<>>
  OBVIOUS
<1>3. n \in 1..N /\ N \in Nat /\ (stack # <<>> => n > Top.node)
  <2>1. CASE stack = <<>>
    BY <1>1, <2>1, TreeFacts DEF Awaits, TypeInv
  <2>2. CASE stack # <<>>
    <3> DEFINE t == Len(stack)
    <3>1. ret = Running /\ Len(Top.held) < Decodes(Layout) /\ n = Child(t, Len(Top.held) + 1)
      BY <2>2 DEF Awaits
    <3>2. LevelInv(t) /\ LevelOf(t) = Layout
      BY <1>1, <2>2, TopLevel DEF IInv
    <3>3. /\ Top.node \in 1..N /\ Len(Top.held) \in Nat /\ tree \in Trees /\ N \in Nat
      BY <1>1, <2>2, TopFacts, TreeFacts DEF TypeInv
    <3>4. Decodes(Layout) \in 0..Len(Layout.children)
      BY <3>2, <3>3, DecodesSome DEF Layout, LevelInv
    <3>5. /\ Len(Layout.children) \in Nat
          /\ \A k \in 1..Len(Layout.children) : Layout.children[k] \in (Top.node + 1)..N
      BY <3>3, TreeFacts DEF Layout
    <3>6. n = Layout.children[Len(Top.held) + 1] /\ Len(Top.held) + 1 \in 1..Len(Layout.children)
      BY <3>1, <3>2, <3>3, <3>4, <3>5 DEF Child
    <3>7. n \in (Top.node + 1)..N
      BY <3>5, <3>6
    <3> QED BY <3>3, <3>7
  <2> QED BY <2>1, <2>2
<1>4. Began
  BY <1>1, <1>3 DEF Began, Running, Failed
<1>5. OrderInv'
  <2>1. ret' > 0 => ret' = n
    BY DEF Failed
  <2>2. \A i, k : Child(i, k)' = Child(i, k)
    BY DEF Child, LevelOf
  <2>3. Top' = Top
    BY DEF Top
  <2> QED BY <1>1, <1>3, <2>1, <2>2, <2>3 DEF OrderInv
<1> QED BY <1>3, <1>4, <1>5

LEMMA ReturnsType ==
  ASSUME TypeInv, stack' = stack, tree' = tree, parts' = parts, ret' \in (1..N) \cup {Failed},
         refs' \in [1..N -> Nat], lens' \in [1..N -> Nat]
  PROVE  TypeInv'
<1>1. N' = N /\ ret' # Running /\ ret' # Begin
  <2>1. N \in Nat
    BY TreeFacts DEF TypeInv
  <2> QED BY <2>1 DEF N, Running, Begin, Failed
<1>2. Levels' = Levels /\ PartsAfter(N)'
  BY <1>1 DEF TypeInv, Levels, PartsAfter
<1> QED BY <1>1, <1>2 DEF TypeInv

LEMMA CallFailsInv ==
  ASSUME IInv, NEW n, Awaits(n), ret' = Failed, UNCHANGED <<tree, stack, refs, parts, lens>>
  PROVE  IInv'
<1>1. /\ TypeInv /\ RowsInv /\ N' = N /\ stack' = stack /\ tree' = tree /\ refs' = refs
      /\ parts' = parts /\ lens' = lens /\ N \in Nat
  BY TreeFacts DEF IInv, N, TypeInv
<1>2. Began /\ OrderInv' /\ ret' \in (1..N) \cup {Failed}
  BY <1>1, ReturnsOrder
<1>3. TypeInv'
  BY <1>1, <1>2, ReturnsType DEF TypeInv
<1>4. BalanceInv'
  <2>1. ASSUME NEW x \in 1..N
        PROVE  refs'[x] = OnStack(stack, x)' + Sum(HeldBy(refs, N, x))' + ReturnedTo(x)'
    <3>1. OnStack(stack, x)' = OnStack(stack, x) /\ HeldBy(refs, N, x)' = HeldBy(refs, N, x)
      BY <1>1 DEF OnStack, HeldBy
    <3>2. ReturnedTo(x)' = 0
      BY <1>1 DEF ReturnedTo, Failed
    <3> QED BY <1>1, <3>1, <3>2, AwaitsHolds
  <2> QED BY <1>1, <2>1 DEF BalanceInv
<1>5. FreshInv'
  <2>1. PICK U \in SUBSET (1..N) : FreshBut(U, n)
    BY <1>2, BeganFresh
  <2>2. \A i \in 1..Len(stack) : LevelOf(i)' = LevelOf(i) /\ \A k : Child(i, k)' = Child(i, k)
    BY <1>1 DEF LevelOf, Child
  <2>3. ret' # Begin
    BY DEF Failed, Begin
  <2>4. Fresh(U)'
    BY <1>1, <2>1, <2>2, <2>3 DEF Fresh, FreshBut
  <2> QED BY <1>1, <2>4 DEF FreshInv
<1>6. RowsInv'
  <2>1. \A i \in 1..Len(stack) : LevelInv(i)'
    BY <1>1, <1>2, BeganRows
  <2> QED BY <1>1, <2>1 DEF RowsInv, Failed
<1> QED BY <1>2, <1>3, <1>4, <1>5, <1>6 DEF IInv

LEMMA CallFlatInv ==
  ASSUME IInv, NEW n, Awaits(n), ret' = n, refs' = Made(n, refs),
         lens' = [lens EXCEPT ![n] = tree[n].rows], UNCHANGED <<tree, stack, parts>>
  PROVE  IInv'
<1> DEFINE One(x) == IF x = n THEN 1 ELSE 0
<1>1. /\ TypeInv /\ RowsInv /\ N' = N /\ stack' = stack /\ tree' = tree
      /\ parts' = parts /\ N \in Nat /\ PartsAfter(N)
      /\ refs \in [1..N -> Nat] /\ lens \in [1..N -> Nat]
  BY TreeFacts DEF IInv, N, TypeInv
<1>2. Began /\ OrderInv' /\ ret' \in (1..N) \cup {Failed}
  BY <1>1, ReturnsOrder
<1>3. PICK U \in SUBSET (1..N) : FreshBut(U, n)
  BY <1>2, BeganFresh
<1>4. n \in 1..N /\ refs[n] = 0 /\ parts[n] = <<>>
  BY <1>2, <1>3, BeganFacts DEF FreshBut
<1>5. /\ refs' \in [1..N -> Nat] /\ refs'[n] = 1
      /\ \A x \in 1..N : x # n => refs'[x] = refs[x]
  BY <1>1, <1>4 DEF Made
<1>6. /\ lens' \in [1..N -> Nat] /\ lens'[n] = tree[n].rows
      /\ \A x \in 1..N : x # n => lens'[x] = lens[x]
  <2>1. tree[n].rows \in Nat
    BY <1>1, <1>4, TreeFacts DEF TypeInv
  <2> QED BY <1>1, <1>4, <2>1
<1>7. TypeInv'
  BY <1>1, <1>2, <1>5, <1>6, ReturnsType
<1>8. BalanceInv'
  <2>1. ASSUME NEW x \in 1..N
        PROVE  refs'[x] = OnStack(stack, x)' + Sum(HeldBy(refs, N, x))' + ReturnedTo(x)'
    <3>1. OnStack(stack, x)' = OnStack(stack, x)
      BY <1>1 DEF OnStack
    <3>2. Sum(HeldBy(refs, N, x))' = Sum(HeldBy(refs, N, x))
      <4>1. HeldBy(refs, N, x)' = HeldBy(refs', N, x)
        BY <1>1, HeldNext
      <4>2. HeldBy(refs', N, x) = HeldBy(refs, N, x)
        <5> DEFINE new == refs'
        <5>1. ASSUME NEW b \in 1..N, b # n PROVE new[b] > 0 <=> refs[b] > 0
          BY <1>5, <5>1
        <5>2. N \in Nat /\ n \in 1..N /\ parts[n] = <<>>
          BY <1>1, <1>4
        <5> HIDE DEF new
        <5>3. HeldBy(new, N, x) = HeldBy(refs, N, x)
          BY <5>1, <5>2, SameHolders, SMTT(30)
        <5> QED BY <5>3 DEF new
      <4> QED BY <4>1, <4>2
    <3>3. ReturnedTo(x)' = One(x)
      BY DEF ReturnedTo
    <3>4. /\ refs[x] = OnStack(stack, x) + Sum(HeldBy(refs, N, x))
          /\ OnStack(stack, x) \in Nat /\ Sum(HeldBy(refs, N, x)) \in Nat
      BY AwaitsHolds
    <3>5. refs'[x] = refs[x] + One(x) /\ One(x) \in {0, 1}
      <4>1. CASE x = n
        BY <1>4, <1>5, <4>1
      <4>2. CASE x # n
        BY <1>1, <1>5, <4>2
      <4> QED BY <4>1, <4>2
    <3> HIDE DEF One
    <3> QED BY <3>1, <3>2, <3>3, <3>4, <3>5
  <2> QED BY <1>1, <2>1 DEF BalanceInv
<1>9. FreshInv'
  <2>1. \A i \in 1..Len(stack) : LevelOf(i)' = LevelOf(i) /\ \A k : Child(i, k)' = Child(i, k)
    BY <1>1 DEF LevelOf, Child
  <2>2. ret' # Begin
    BY <1>1, <1>4 DEF Begin
  <2>3. \A m \in U : /\ refs'[m] = 0 /\ parts'[m] = <<>>
                     /\ \A k \in 1..Len(tree'[m].children) : tree'[m].children[k] \in U
    <3>1. \A m \in U : m \in 1..N /\ m # n
      BY <1>3 DEF FreshBut
    <3> QED BY <1>1, <1>3, <1>5, <3>1 DEF FreshBut
  <2>4. ASSUME NEW i \in 1..Len(stack')
        PROVE  /\ stack'[i].node \notin U
               /\ \A k \in 1..Len(LevelOf(i)'.children) : k > Begun(i)' => Child(i, k)' \in U
               /\ refs'[stack'[i].node] = 0 /\ parts'[stack'[i].node] = <<>>
    <3>1. i \in 1..Len(stack) /\ stack[i].node \in 1..N /\ stack[i].node # n
      BY <1>1, <1>3, StackFacts DEF FreshBut
    <3> QED BY <1>1, <1>3, <1>5, <2>1, <3>1 DEF FreshBut
  <2>5. Fresh(U)'
    BY <2>2, <2>3, <2>4 DEF Fresh
  <2> QED BY <1>1, <2>5 DEF FreshInv
<1>10. RowsInv'
  <2>1. \A x \in 1..N : refs[x] > 0 => lens'[x] = lens[x]
    BY <1>4, <1>6
  <2>2. \A i \in 1..Len(stack) : LevelInv(i)'
    BY <1>2, <2>1, BeganRows
  <2>3. n = IF stack = <<>> THEN 1 ELSE Child(Len(stack), Len(Top.held) + 1)
    BY <1>2, BeganFacts
  <2>4. Child(Len(stack), Len(Top.held) + 1)' = Child(Len(stack), Len(Top.held) + 1)
    BY <1>1 DEF Child, LevelOf, Top
  <2> QED BY <1>1, <1>6, <2>2, <2>3, <2>4 DEF RowsInv
<1> QED BY <1>2, <1>7, <1>8, <1>9, <1>10 DEF IInv

LEMMA CallPushInv ==
  ASSUME IInv, NEW n, Awaits(n), ret' = Running,
         stack' = Append(stack, [node |-> n, held |-> <<>>]),
         tree[n].rows <= MaxRows, tree[n].id # "flat", Shaped(tree[n]),
         UNCHANGED <<tree, refs, parts, lens>>
  PROVE  IInv'
<1> PICK t : t = Len(stack)
  OBVIOUS
<1>1. /\ TypeInv /\ OrderInv /\ RowsInv /\ N' = N /\ tree' = tree /\ refs' = refs
      /\ parts' = parts /\ lens' = lens /\ N \in Nat /\ PartsAfter(N)
      /\ stack \in Seq(Levels) /\ t \in Nat /\ Levels' = Levels
  BY TreeFacts, StackFacts DEF IInv, N, TypeInv, Levels
<1> DEFINE new == [node |-> n, held |-> <<>>]
<1>2. Len(stack') = t + 1 /\ stack'[t + 1] = new /\ \A i \in 1..t : stack'[i] = stack[i]
  BY <1>1
<1>3. new.node = n /\ new.held = <<>> /\ Len(new.held) = 0
  OBVIOUS
<1>4. Began
  BY <1>1, <1>2 DEF Began
<1>5. PICK U \in SUBSET (1..N) : FreshBut(U, n)
  BY <1>4, BeganFresh
<1>6. /\ n \in 1..N
      /\ \A i \in 1..t : /\ LevelOf(i)' = LevelOf(i) /\ \A k : Child(i, k)' = Child(i, k)
                         /\ stack'[i] = stack[i] /\ i \in Nat /\ i # t + 1
      /\ IF t = 0 THEN n = 1 ELSE n = Child(t, Len(stack[t].held) + 1)
  <2>1. stack = <<>> <=> t = 0
    BY <1>1, StackFacts
  <2>2. IF t = 0 THEN n = 1 ELSE n = Child(t, Len(stack[t].held) + 1)
    BY <1>4, <2>1, BeganFacts
  <2> QED BY <1>1, <1>2, <1>4, <2>2, BeganFacts
<1>7. TypeInv'
  <2>1. new \in Levels
    BY <1>6 DEF Levels
  <2>2. stack' \in Seq(Levels') /\ stack' # <<>>
    <3> HIDE DEF Levels, new
    <3> QED BY <1>1, <1>2, <2>1 DEF new
  <2>3. PartsAfter(N)'
    BY <1>1 DEF PartsAfter
  <2> QED BY <1>1, <2>2, <2>3 DEF TypeInv, Begin, Running
<1> HIDE DEF new
<1>8. \A i \in 1..Len(stack') : i \in 1..t \/ i = t + 1
  BY <1>1, <1>2
<1>9. OrderInv'
  <2>1. ASSUME NEW i \in 1..Len(stack')
        PROVE  stack'[i].node = IF i = 1 THEN 1 ELSE Child(i - 1, Len(stack[i - 1].held) + 1)'
    <3>1. CASE i \in 1..t
      <4>1. stack[i].node = IF i = 1 THEN 1 ELSE Child(i - 1, Len(stack[i - 1].held) + 1)
        BY <1>1, <3>1 DEF OrderInv
      <4>2. i # 1 => i - 1 \in 1..t
        BY <1>1, <3>1
      <4> QED BY <1>6, <3>1, <4>1, <4>2 DEF Child
    <3>2. CASE i = t + 1
      <4>1. CASE t = 0
        BY <1>2, <1>3, <1>6, <3>2, <4>1
      <4>2. CASE t # 0
        <5>1. t \in 1..t /\ i # 1 /\ i - 1 = t
          BY <1>1, <3>2, <4>2
        <5>2. Child(t, Len(stack[t].held) + 1)' = Child(t, Len(stack[t].held) + 1)
          BY <1>6, <5>1 DEF Child
        <5>3. stack'[i].node = n
          BY <1>2, <1>3, <3>2
        <5> QED BY <1>6, <4>2, <5>1, <5>2, <5>3
      <4> QED BY <4>1, <4>2
    <3> QED BY <1>8, <3>1, <3>2
  <2>2. ASSUME NEW i \in 1..Len(stack')
        PROVE  \A j \in 1..Len(stack'[i].held) : stack'[i].held[j] > stack'[i].node
    <3>1. CASE i \in 1..t
      BY <1>1, <1>2, <3>1 DEF OrderInv
    <3>2. CASE i = t + 1
      BY <1>2, <1>3, <3>2
    <3> QED BY <1>8, <3>1, <3>2
  <2>3. ~(ret' > 0)
    BY DEF Running
  <2> QED BY <2>1, <2>2, <2>3 DEF OrderInv
<1>10. BalanceInv'
  <2>1. ASSUME NEW x \in 1..N
        PROVE  refs'[x] = OnStack(stack, x)' + Sum(HeldBy(refs, N, x))' + ReturnedTo(x)'
    <3>1. OnStack(stack, x)' = OnStack(stack, x) + Occurrences(x, new.held)
      <4> DEFINE calls == stack
                 more == stack'
      <4>1. /\ Len(calls) \in Nat /\ Len(more) = Len(calls) + 1
            /\ \A i \in 1..Len(calls) : more[i] = calls[i]
            /\ more[Len(more)] = new
        BY <1>1, <1>2
      <4> HIDE DEF calls, more
      <4>2. OnStack(more, x) = OnStack(calls, x) + Occurrences(x, more[Len(more)].held)
        BY <4>1, OnStackMore
      <4>3. OnStack(stack, x)' = OnStack(more, x)
        BY DEF OnStack, more
      <4> QED BY <4>1, <4>2, <4>3 DEF calls
    <3>2. Occurrences(x, new.held) = 0
      BY <1>3, OccursNone
    <3>3. HeldBy(refs, N, x)' = HeldBy(refs, N, x)
      BY <1>1 DEF HeldBy
    <3>4. ReturnedTo(x)' = 0
      BY <1>1 DEF ReturnedTo, Running
    <3>5. /\ refs[x] = OnStack(stack, x) + Sum(HeldBy(refs, N, x))
          /\ OnStack(stack, x) \in Nat /\ Sum(HeldBy(refs, N, x)) \in Nat
      BY AwaitsHolds
    <3> QED BY <1>1, <3>1, <3>2, <3>3, <3>4, <3>5
  <2> QED BY <1>1, <2>1 DEF BalanceInv
<1>11. \A k : k \in 1..Len(tree[n].children) => LevelOf(t + 1)' = tree[n] /\ Child(t + 1, k)' = tree[n].children[k]
  BY <1>1, <1>2, <1>3 DEF LevelOf, Child
<1>12. LevelOf(t + 1)' = tree[n] /\ Begun(t + 1)' = 0
  <2>1. LevelOf(t + 1)' = tree[n]
    BY <1>1, <1>2, <1>3 DEF LevelOf
  <2>2. ~(t + 1 < Len(stack')) /\ Len(stack'[t + 1].held) = 0
    BY <1>1, <1>2, <1>3
  <2>3. Begun(t + 1)' = 0
    BY <2>2 DEF Begun, Waiting
  <2> QED BY <2>1, <2>3
<1>13. FreshInv'
  <2>1. ASSUME NEW i \in 1..Len(stack')
        PROVE  /\ stack'[i].node \notin U
               /\ \A k \in 1..Len(LevelOf(i)'.children) : k > Begun(i)' => Child(i, k)' \in U
               /\ refs'[stack'[i].node] = 0 /\ parts'[stack'[i].node] = <<>>
    <3>1. CASE i \in 1..t
      BY <1>1, <1>5, <1>6, <3>1 DEF FreshBut
    <3>2. CASE i = t + 1
      BY <1>1, <1>2, <1>3, <1>5, <1>11, <1>12, <3>2 DEF FreshBut
    <3> QED BY <1>8, <3>1, <3>2
  <2>2. \A m \in U : /\ refs'[m] = 0 /\ parts'[m] = <<>>
                     /\ \A k \in 1..Len(tree'[m].children) : tree'[m].children[k] \in U
    BY <1>1, <1>5 DEF FreshBut
  <2>3. ret' # Begin
    BY DEF Running, Begin
  <2>4. Fresh(U)'
    BY <2>1, <2>2, <2>3 DEF Fresh
  <2> QED BY <1>1, <2>4 DEF FreshInv
<1>14. RowsInv'
  <2>1. \A i \in 1..t : LevelInv(i)'
    BY <1>1, <1>4, BeganRows
  <2>2. LevelInv(t + 1)'
    <3> DEFINE l == tree[n]
    <3>1. l.rows \in Nat /\ Len(l.children) \in Nat /\ Decodes(l) \in 0..Len(l.children)
      BY <1>1, <1>6, TreeFacts, DecodesSome DEF TypeInv
    <3>2. l.rows <= MaxRows /\ l.id # "flat" /\ Shaped(l)
      OBVIOUS
    <3>3. Shaped(LevelOf(t + 1))' <=> Shaped(l)
      BY <1>1, <1>12 DEF Shaped
    <3>4. Decodes(LevelOf(t + 1))' = Decodes(l)
      BY <1>12 DEF Decodes
    <3>5. Len([k \in 1..Begun(t + 1) |-> tree[Child(t + 1, k)].rows]') = 0
      BY <1>12
    <3>6. Sum([k \in 1..Begun(t + 1) |-> tree[Child(t + 1, k)].rows]') = 0
      BY <3>5, SumNone
    <3>7. Len(stack'[t + 1].held) = 0
      BY <1>2, <1>3
    <3> HIDE DEF l
    <3>8. LevelOf(t + 1)' = l /\ Begun(t + 1)' = 0
      BY <1>12 DEF l
    <3>9. Begun(t + 1)' <= Decodes(l) /\ 0 <= l.rows
      BY <3>1, <3>8
    <3> QED BY <3>2, <3>3, <3>4, <3>6, <3>7, <3>8, <3>9 DEF LevelInv
  <2>3. ~(ret' > 0)
    BY DEF Running
  <2>4. \A i \in 1..Len(stack') : LevelInv(i)'
    BY <1>8, <2>1, <2>2
  <2> QED BY <2>3, <2>4 DEF RowsInv
<1> QED BY <1>7, <1>9, <1>10, <1>13, <1>14 DEF IInv

LEMMA CallInv ==
  ASSUME IInv, NEW n, Awaits(n), Call(n), UNCHANGED <<tree, parts>>
  PROVE  IInv'
<1>1. CASE ret' = Failed /\ UNCHANGED <<stack, refs, lens>>
  BY <1>1, CallFailsInv
<1>2. CASE /\ ret' = n /\ refs' = Made(n, refs) /\ lens' = [lens EXCEPT ![n] = tree[n].rows]
           /\ UNCHANGED stack
  BY <1>2, CallFlatInv
<1>3. CASE /\ tree[n].rows <= MaxRows /\ tree[n].id # "flat" /\ Shaped(tree[n])
           /\ stack' = Append(stack, [node |-> n, held |-> <<>>])
           /\ ret' = Running /\ UNCHANGED <<refs, lens>>
  BY <1>3, CallPushInv
<1> QED BY <1>1, <1>2, <1>3 DEF Call

LEMMA StartInv == ASSUME IInv, Start PROVE IInv'
<1>1. Awaits(1) /\ Call(1) /\ UNCHANGED <<tree, parts>>
  BY DEF Start, Awaits
<1> QED BY <1>1, CallInv

LEMMA DecodeChildInv == ASSUME IInv, DecodeChild PROVE IInv'
<1>1. TypeInv /\ RowsInv /\ ret = Running /\ stack # <<>>
  BY InProgress DEF IInv, DecodeChild
<1> DEFINE k == Len(Top.held) + 1
           n == Layout.children[k]
<1>2. CASE RowsAgree(k) /\ Call(n)
  <2>1. n = Child(Len(stack), k)
    BY <1>1, TopLevel DEF Child
  <2>2. Awaits(n)
    BY <1>1, <1>2, <2>1 DEF Awaits, DecodeChild
  <2>3. UNCHANGED <<tree, parts>>
    BY DEF DecodeChild
  <2> QED BY <1>2, <2>2, <2>3, CallInv
<1>3. CASE FailReleasing /\ UNCHANGED lens
  <2>1. UNCHANGED <<tree, parts, lens>>
    BY <1>3 DEF DecodeChild
  <2> QED BY <1>1, <1>3, <2>1, FailReleasingInv
<1> QED BY <1>2, <1>3 DEF DecodeChild

LEMMA ChildFailedInv == ASSUME IInv, ChildFailed PROVE IInv'
BY FailReleasingInv DEF ChildFailed

LEMMA BuildStructInv == ASSUME IInv, BuildStruct PROVE IInv'
<1>1. TypeInv /\ ret = Running /\ stack # <<>> /\ Completing("struct") /\ tree' = tree
  BY InProgress DEF IInv, BuildStruct, Completing
<1>2. CASE /\ Top.held # <<>>
           /\ stack' = Pop
           /\ ret' = Top.node
           /\ parts' = [parts EXCEPT ![Top.node] = Top.held]
           /\ refs' = Released(Retained(Made(Top.node, refs), Top.held), Top.held)
           /\ lens' = [lens EXCEPT ![Top.node] = lens[Top.held[1]]]
  BY <1>1, <1>2, StructInv
<1>3. CASE FailReleasing /\ UNCHANGED <<parts, lens>>
  BY <1>1, <1>3, FailReleasingInv
<1> QED BY <1>2, <1>3 DEF BuildStruct

LEMMA TakeDictionaryInv == ASSUME IInv, TakeDictionary PROVE IInv'
<1>1. TypeInv /\ RowsInv /\ ret = Running /\ stack # <<>> /\ UNCHANGED <<tree, parts>>
      /\ Layout.id = "dict" /\ Len(Top.held) = Decodes(Layout)
  BY InProgress DEF IInv, TakeDictionary, Completing
<1>2. CASE Yield(Top.node, lens[Top.held[2]])
  <2> DEFINE i == Len(stack)
  <2>1. LevelInv(i) /\ LevelOf(i) = Layout /\ stack[i] = Top
    BY <1>1, TopLevel
  <2> HIDE DEF i
  <2>2. Shaped(Layout)
    BY <2>1 DEF LevelInv
  <2>3. Len(Top.held) = 2
    BY <1>1, <2>2 DEF Shaped, Decodes
  <2>4. lens[Top.held[2]] = tree[Child(i, 2)].rows
    BY <2>1, <2>3 DEF LevelInv
  <2>5. tree[Child(i, 2)].rows = Layout.rows
    BY <1>1, <2>1, <2>2 DEF Shaped, Child
  <2> QED BY <1>1, <1>2, <2>4, <2>5, YieldInv DEF IInv
<1>3. CASE FailReleasing /\ UNCHANGED lens
  BY <1>1, <1>3, FailReleasingInv
<1> QED BY <1>2, <1>3 DEF TakeDictionary

\* Chunks have the rows of their layouts, which the caller added up.
LEMMA ConcatenateInv == ASSUME IInv, Concatenate PROVE IInv'
<1>1. TypeInv /\ RowsInv /\ ret = Running /\ stack # <<>> /\ UNCHANGED <<tree, parts>>
      /\ Layout.id = "chunked" /\ Len(Top.held) = Decodes(Layout)
  BY InProgress DEF IInv, Concatenate, Completing
<1>2. CASE /\ RowsUsed = Layout.rows
           /\ Yield(Top.node, Sum([i \in 1..Len(Top.held) |-> lens[Top.held[i]]]))
  <2> DEFINE i == Len(stack)
             b == Len(Top.held)
             s == [k \in 1..b |-> tree[Layout.children[k]].rows]
  <2>1. LevelInv(i) /\ LevelOf(i) = Layout /\ stack[i] = Top /\ Begun(i) = b
    BY <1>1, TopLevel
  <2>2. Top.node \in 1..N /\ b \in Nat /\ tree \in Trees
    BY <1>1, TopFacts DEF TypeInv
  <2> HIDE DEF i, b
  <2>3. /\ Layout.rows <= MaxRows /\ Shaped(Layout)
        /\ Sum([k \in 1..b |-> tree[Child(i, k)].rows]) <= Layout.rows
        /\ \A k \in 1..b : lens[Top.held[k]] = tree[Child(i, k)].rows
    BY <1>1, <2>1 DEF LevelInv, b
  <2>4. \A k : Child(i, k) = Layout.children[k]
    BY <2>1 DEF Child
  <2>5. Sum(s) <= Layout.rows /\ \A k \in 1..b : lens[Top.held[k]] = s[k]
    BY <2>3, <2>4
  <2>6. [k \in 1..b |-> lens[Top.held[k]]] = s
    BY <2>5
  <2>7. RowsUsed = Int64(Sum(s))
    BY DEF RowsUsed, b
  <2>8. Counts(s)
    <3>1. Decodes(Layout) = Len(Layout.children) /\ b = Len(Layout.children)
      BY <1>1 DEF Decodes, b
    <3>2. \A k \in 1..b : Layout.children[k] \in (Top.node + 1)..N
      BY <2>2, <3>1, TreeFacts DEF Layout
    <3>3. ASSUME NEW k \in 1..b PROVE s[k] \in Nat
      <4>1. Layout.children[k] \in 1..N
        BY <2>2, <3>2
      <4> QED BY <2>2, <4>1, TreeFacts
    <3>4. Len(s) = b
      BY <2>2
    <3> HIDE DEF s
    <3> QED BY <2>2, <3>3, <3>4 DEF Counts
  <2>9. Layout.rows \in Nat
    BY <2>2, TreeFacts DEF Layout
  <2> HIDE DEF s
  <2>10. Sum(s) \in Nat
    BY <2>8, SumNat
  <2>11. Sum(s) < Half
    BY <2>3, <2>5, <2>9, <2>10, RowsAssumption
  <2>12. Sum(s) = Layout.rows
    BY <1>2, <2>7, <2>10, <2>11, Int64Of
  <2>13. Yield(Top.node, Layout.rows)
    BY <1>2, <2>6, <2>12 DEF b
  <2> QED BY <1>1, <2>13, YieldInv
<1>3. CASE FailReleasing /\ UNCHANGED lens
  BY <1>1, <1>3, FailReleasingInv
<1> QED BY <1>2, <1>3 DEF Concatenate

\* The end of the context changes nothing but what later calls do.
LEMMA SameInv ==
  ASSUME IInv, UNCHANGED <<tree, stack, ret, refs, parts, lens>>
  PROVE  IInv'
<1>1. /\ N' = N /\ Levels' = Levels /\ Top' = Top
      /\ \A n : PartsAfter(n)' = PartsAfter(n)
      /\ \A i : LevelOf(i)' = LevelOf(i) /\ Begun(i)' = Begun(i)
      /\ \A i, k : Child(i, k)' = Child(i, k)
  BY DEF N, Levels, Top, PartsAfter, LevelOf, Child, Begun, Waiting
<1>2. TypeInv'
  BY <1>1 DEF IInv, TypeInv
<1>3. OrderInv'
  BY <1>1 DEF IInv, OrderInv
<1>4. BalanceInv'
  BY <1>1 DEF IInv, BalanceInv, OnStack, HeldBy, ReturnedTo
<1>5. FreshInv'
  BY <1>1 DEF IInv, FreshInv, Fresh
<1>6. RowsInv'
  <2>1. ASSUME NEW i \in 1..Len(stack) PROVE LevelInv(i)'
    <3>1. LevelInv(i)
      BY DEF IInv, RowsInv
    <3> QED BY <1>1, <3>1 DEF LevelInv, Shaped, Decodes
  <2> QED BY <1>1, <2>1 DEF IInv, RowsInv
<1> QED BY <1>2, <1>3, <1>4, <1>5, <1>6 DEF IInv

LEMMA InitInv == ASSUME Init PROVE IInv
<1>1. /\ tree \in Trees /\ N \in Nat \ {0} /\ stack = <<>> /\ ret = Begin
      /\ refs = [n \in 1..N |-> 0] /\ parts = [n \in 1..N |-> <<>>]
      /\ lens = [n \in 1..N |-> 0] /\ Len(stack) = 0 /\ ~(ret > 0)
  BY TreeFacts DEF Init, N, Begin
<1>2. TypeInv
  <2>1. PartsAfter(N)
    BY <1>1 DEF PartsAfter
  <2>2. refs \in [1..N -> Nat] /\ parts \in [1..N -> Seq(1..N)] /\ lens \in [1..N -> Nat]
    BY <1>1
  <2>3. stack \in Seq(Levels)
    <3> HIDE DEF Levels
    <3> QED BY <1>1
  <2> QED BY <1>1, <2>1, <2>2, <2>3 DEF TypeInv, Begin
<1>3. OrderInv
  BY <1>1 DEF OrderInv
<1>4. BalanceInv
  <2>1. ASSUME NEW x \in 1..N
        PROVE  refs[x] = OnStack(stack, x) + Sum(HeldBy(refs, N, x)) + ReturnedTo(x)
    <3>1. OnStack(stack, x) = 0
      BY <1>1, OnStackNone
    <3>2. Sum(HeldBy(refs, N, x)) = 0
      <4> DEFINE s == HeldBy(refs, N, x)
      <4>1. Counts(s) /\ \A b \in 1..Len(s) : s[b] = 0
        BY <1>1 DEF HeldBy, Counts
      <4> HIDE DEF s
      <4>2. Sum(s) = 0
        BY <4>1, SumPositive
      <4> QED BY <4>2 DEF s
    <3>3. ReturnedTo(x) = 0
      BY <1>1 DEF ReturnedTo, Begin
    <3> QED BY <1>1, <3>1, <3>2, <3>3
  <2> QED BY <2>1 DEF BalanceInv
<1>5. FreshInv
  <2>1. \A n \in 1..N : \A k \in 1..Len(tree[n].children) : tree[n].children[k] \in 1..N
    BY <1>1, TreeFacts
  <2>2. Fresh(1..N)
    BY <1>1, <2>1 DEF Fresh
  <2> QED BY <2>2 DEF FreshInv
<1>6. RowsInv
  BY <1>1 DEF RowsInv
<1> QED BY <1>2, <1>3, <1>4, <1>5, <1>6 DEF IInv

THEOREM Invariant == Spec => []IInv
<1>1. Init => IInv
  BY InitInv
<1>2. IInv /\ [Next]_vars => IInv'
  <2> SUFFICES ASSUME IInv, [Next]_vars PROVE IInv'
    OBVIOUS
  <2>1. CASE Start
    BY <2>1, StartInv
  <2>2. CASE DecodeChild
    BY <2>2, DecodeChildInv
  <2>3. CASE Keep
    BY <2>3, KeepInv
  <2>4. CASE ChildFailed
    BY <2>4, ChildFailedInv
  <2>5. CASE ReturnData
    BY <2>5, ReturnDataInv
  <2>6. CASE BuildStruct
    BY <2>6, BuildStructInv
  <2>7. CASE Concatenate
    BY <2>7, ConcatenateInv
  <2>8. CASE TakeDictionary
    BY <2>8, TakeDictionaryInv
  <2>9. CASE Cancel
    BY <2>9, SameInv DEF Cancel
  <2>10. CASE UNCHANGED vars
    BY <2>10, SameInv DEF vars
  <2> QED BY <2>1, <2>2, <2>3, <2>4, <2>5, <2>6, <2>7, <2>8, <2>9, <2>10 DEF Next, Decode
<1> QED BY <1>1, <1>2, PTL DEF Spec

-----------------------------------------------------------------------------
(* What the invariant says of every state, and at the end.                  *)

\* An array that is alive and not on the stack is returned, or part of an
\* earlier array that is alive.
LEMMA AliveHeld ==
  ASSUME IInv, stack = <<>>, NEW a \in 1..N, refs[a] > 0, a # ret
  PROVE  \E b \in 1..N : refs[b] > 0 /\ b < a /\ a \in Range(parts[b])
<1>1. TypeInv /\ BalanceInv /\ N \in Nat /\ PartsAfter(N) /\ Len(stack) = 0
  BY TreeFacts, StackFacts DEF IInv, TypeInv
<1>2. refs[a] = OnStack(stack, a) + Sum(HeldBy(refs, N, a)) + ReturnedTo(a)
  BY <1>1 DEF BalanceInv
<1>3. OnStack(stack, a) = 0 /\ ReturnedTo(a) = 0
  BY <1>1, OnStackNone DEF ReturnedTo
<1> DEFINE s == HeldBy(refs, N, a)
<1>4. Counts(s) /\ Sum(s) \in Nat
  BY <1>1, HeldNat
<1>5. Len(s) = N /\ \A b \in 1..N : s[b] = IF refs[b] > 0 THEN Occurrences(a, parts[b]) ELSE 0
  BY <1>1 DEF HeldBy
<1> HIDE DEF s
<1>6. Sum(s) # 0
  BY <1>2, <1>3, <1>4 DEF s
<1>7. PICK b \in 1..N : s[b] > 0
  BY <1>4, <1>5, <1>6, SumPositive
<1>8. refs[b] > 0 /\ Occurrences(a, parts[b]) > 0
  BY <1>5, <1>7
<1>9. Len(parts[b]) \in Nat /\ \A i \in 1..Len(parts[b]) : parts[b][i] \in (b + 1)..N
  BY <1>1 DEF PartsAfter
<1>10. PICK i \in 1..Len(parts[b]) : parts[b][i] = a
  BY <1>8, <1>9, OccursType
<1>11. b < a
  BY <1>1, <1>9, <1>10
<1>12. a \in Range(parts[b])
  <2>1. parts[b] \in Seq(1..N)
    BY <1>1 DEF TypeInv
  <2>2. i \in DOMAIN parts[b]
    BY <2>1
  <2> QED BY <1>10, <2>2 DEF Range
<1> QED BY <1>8, <1>11, <1>12

LEMMA InvariantOwnership == ASSUME IInv PROVE OwnershipExact
<1>1. TypeInv /\ BalanceInv /\ N \in Nat /\ PartsAfter(N) /\ refs \in [1..N -> Nat]
      /\ DOMAIN refs = 1..N
  BY TreeFacts DEF IInv, TypeInv
<1>2. \A a \in 1..N : a \in Alive <=> refs[a] > 0
  BY <1>1 DEF Alive
<1>3. ASSUME NEW a \in DOMAIN refs
      PROVE  refs[a] = Sum([i \in 1..Len(stack) |-> Occurrences(a, stack[i].held)])
                         + Sum([b \in DOMAIN refs |-> IF b \in Alive THEN Occurrences(a, parts[b]) ELSE 0])
                         + (IF ret = a THEN 1 ELSE 0)
  <2>1. refs[a] = OnStack(stack, a) + Sum(HeldBy(refs, N, a)) + ReturnedTo(a)
    BY <1>1 DEF BalanceInv
  <2>2. HeldBy(refs, N, a) = [b \in DOMAIN refs |-> IF b \in Alive THEN Occurrences(a, parts[b]) ELSE 0]
    BY <1>1, <1>2 DEF HeldBy
  <2> QED BY <2>1, <2>2 DEF OnStack, ReturnedTo
<1>4. ASSUME Ended
      PROVE  IF ret = Failed THEN Alive = {}
             ELSE refs[ret] = 1 /\ \A a \in Alive \ {ret} : \E b \in Alive : a \in Range(parts[b])
  <2>1. stack = <<>> /\ (ret = Failed \/ ret \in 1..N)
    BY <1>1, <1>4 DEF Ended, TypeInv, Begin, Running
  <2>2. Alive \in SUBSET (1..N) /\ Alive \in SUBSET Nat
    BY <1>1 DEF Alive
  <2>3. ASSUME NEW a \in Alive, a # ret
        PROVE  \E b \in Alive : b < a /\ a \in Range(parts[b])
    BY <1>2, <2>1, <2>2, <2>3, AliveHeld
  <2>4. CASE ret = Failed
    <3> SUFFICES ASSUME Alive # {} PROVE FALSE
      BY <2>4
    <3>1. PICK a \in Alive : \A b \in Alive : a <= b
      BY <2>2, LeastOf
    <3>2. a # ret
      BY <1>1, <2>2, <2>4 DEF Failed
    <3>3. PICK b \in Alive : b < a
      BY <2>3, <3>2
    <3> QED BY <2>2, <3>1, <3>3
  <2>5. CASE ret \in 1..N
    <3>1. ret \in Alive /\ ret # Failed /\ refs[ret] > 0
      <4>1. ret > 0 /\ ret # Failed
        BY <1>1, <2>5 DEF Failed
      <4> QED BY <1>1, <1>2, <2>5, <4>1, HeldAlive
    <3>2. \A b \in Alive : ret <= b
      <4>1. PICK a \in Alive : \A b \in Alive : a <= b
        BY <2>2, <3>1, LeastOf
      <4>2. a = ret
        <5> SUFFICES ASSUME a # ret PROVE FALSE
          OBVIOUS
        <5>1. PICK b \in Alive : b < a
          BY <2>3
        <5> QED BY <2>2, <4>1, <5>1
      <4> QED BY <4>1, <4>2
    <3>3. refs[ret] = OnStack(stack, ret) + Sum(HeldBy(refs, N, ret)) + ReturnedTo(ret)
      BY <1>1, <2>5 DEF BalanceInv
    <3>4. OnStack(stack, ret) = 0 /\ ReturnedTo(ret) = 1
      BY <1>1, <2>1, StackFacts, OnStackNone DEF ReturnedTo
    <3>5. Sum(HeldBy(refs, N, ret)) = 0
      <4> DEFINE s == HeldBy(refs, N, ret)
      <4>1. Counts(s)
        BY <1>1, <2>5, HeldNat
      <4>2. Len(s) = N
            /\ \A b \in 1..N : s[b] = IF refs[b] > 0 THEN Occurrences(ret, parts[b]) ELSE 0
        BY <1>1 DEF HeldBy
      <4>3. ASSUME NEW b \in 1..N PROVE s[b] = 0
        <5>1. refs[b] > 0 => ret <= b
          BY <1>2, <3>2
        <5>2. ret <= b => Occurrences(ret, parts[b]) = 0
          BY <1>1, <2>5, PartsOccur
        <5> QED BY <4>2, <5>1, <5>2
      <4> HIDE DEF s
      <4>4. Sum(s) = 0
        BY <4>1, <4>2, <4>3, SumPositive
      <4> QED BY <4>4 DEF s
    <3>6. refs[ret] = 1
      BY <3>3, <3>4, <3>5
    <3>7. \A a \in Alive \ {ret} : \E b \in Alive : a \in Range(parts[b])
      BY <2>3
    <3> QED BY <3>1, <3>6, <3>7
  <2> QED BY <2>1, <2>4, <2>5
<1> QED BY <1>3, <1>4 DEF OwnershipExact

(* However the decoding goes, each array has as many references as holders: *)
(* none is released under a struct array that has it, none is left when an  *)
(* error is returned, and the caller of a success owns exactly one          *)
(* (decodeLayout's and takeDictionary's deferred releases).                 *)
THEOREM AuxiliaryOwnership == Spec => []OwnershipExact
<1>1. IInv => OwnershipExact
  BY InvariantOwnership
<1> QED BY <1>1, Invariant, PTL

(* The array that decodeLayout gives back has the rows of its layout: the   *)
(* int64 sum of chunk rows cannot wrap around to it.                        *)
THEOREM AuxiliaryRows == Spec => []DecodesItsRows
<1>1. IInv => DecodesItsRows
  BY DEF IInv, RowsInv, DecodesItsRows, Ended
<1> QED BY <1>1, Invariant, PTL
=============================================================================
