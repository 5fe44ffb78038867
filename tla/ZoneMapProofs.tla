---------------------------- MODULE ZoneMapProofs ----------------------------
(***************************************************************************)
(* For every zone length, every table of statistics and every column: a    *)
(* zone is skipped only when no row of it matches, and whenever that       *)
(* follows from its statistics, and the reader that moves to a zone bound  *)
(* has not left the zone whose entry it looked at.                         *)
(*                                                                         *)
(* First the arithmetic and the decision; then what newZoneRef reads from  *)
(* the bytes of the metadata, as far as evaluate depends on it; then the   *)
(* reader.                                                                 *)
(***************************************************************************)
EXTENDS ZoneMap, TLAPS, FiniteSetTheorems, WellFoundedInduction

(* Division by the zone length, in the form the provers can use: the index  *)
(* of a row is the number of whole zones before it.                         *)
LEMMA DivMod ==
  ASSUME NEW len \in Nat \ {0}, NEW x \in Nat
  PROVE  x \div len \in Nat /\ x % len \in 0..(len - 1) /\ x = len * (x \div len) + (x % len)
<1>1. x \div len \in Int /\ x % len \in 0..(len - 1) /\ x = len * (x \div len) + (x % len)
  BY SMTT(30)
<1>2. x \div len \in Nat
  BY SMTT(30)
<1> QED BY <1>1, <1>2

LEMMA ProductType == ASSUME NEW len \in Nat, NEW q \in Nat PROVE len * q \in Nat
BY SMTT(30)

LEMMA TimesNext == ASSUME NEW len \in Nat, NEW q \in Nat PROVE len * (q + 1) = len * q + len
BY SMTT(30)

LEMMA TimesLess ==
  ASSUME NEW len \in Nat, NEW q \in Nat, NEW d \in Nat, q < d
  PROVE  len * q + len <= len * d
<1>1. len * (q + 1) <= len * d
  BY SMTT(30)
<1> DEFINE a == len * d
           b == len * q
           c == len * (q + 1)
<1>2. a \in Nat /\ b \in Nat /\ c = b + len
  BY TimesNext
<1> HIDE DEF a, b, c
<1>3. c <= a
  BY <1>1 DEF a, c
<1>4. b + len <= a
  BY <1>2, <1>3
<1> QED BY <1>4 DEF a, b

LEMMA ZoneIndexUnique ==
  ASSUME NEW len \in Nat \ {0}, NEW x \in Nat, NEW q \in Nat,
         len * q <= x, x < len * q + len
  PROVE  x \div len = q
<1> DEFINE d == x \div len
           m == x % len
           a == len * d
           b == len * q
<1>0. d \in Nat /\ m \in 0..(len - 1) /\ x = a + m
  BY DivMod
<1>1. d \in Nat /\ m \in 0..(len - 1) /\ x = a + m /\ a \in Nat /\ b \in Nat
  <2> HIDE DEF d, m
  <2> QED BY <1>0, ProductType
<1>2. (d < q => a + len <= b) /\ (q < d => b + len <= a)
  BY <1>1, TimesLess
<1>3. b <= x /\ x < b + len
  OBVIOUS
<1> HIDE DEF d, m, a, b
<1>4. ~(d < q) /\ ~(q < d)
  BY <1>1, <1>2, <1>3
<1>5. d = q
  BY <1>1, <1>4
<1> QED BY <1>5 DEF d

(* The bound evaluate returns lies after the position, inside the zoned     *)
(* range; every row before it is a row of the zone the position is in, and  *)
(* the row there, if there is one, of the next zone.                        *)
THEOREM BoundStaysInZone ==
  ASSUME NEW len \in Nat \ {0}, NEW start \in Nat, NEW end \in Nat,
         NEW at \in start..(end - 1)
  PROVE  /\ ZoneBound(at, start, end, len) \in (at + 1)..end
         /\ \A r \in at..(ZoneBound(at, start, end, len) - 1) :
               ZoneIndex(r, start, len) = ZoneIndex(at, start, len)
         /\ \/ ZoneBound(at, start, end, len) = end
            \/ ZoneIndex(ZoneBound(at, start, end, len), start, len) = ZoneIndex(at, start, len) + 1
<1> DEFINE x == at - start
           d == x \div len
           m == x % len
           a == len * d
           bound == ZoneBound(at, start, end, len)
<1>1. x \in Nat /\ at = start + x
  OBVIOUS
<1>2. d \in Nat /\ m \in 0..(len - 1) /\ x = a + m
  <2> HIDE DEF x
  <2> QED BY <1>1, DivMod
<1>3. a \in Nat /\ len * (d + 1) = a + len
  <2> HIDE DEF d
  <2> QED BY <1>2, TimesNext
<1>4. bound = at + Lesser(len - m, end - at)
  BY DEF ZoneBound
<1>5. ZoneIndex(at, start, len) = d
  BY DEF ZoneIndex
<1> HIDE DEF x, d, m, a, bound
<1>6. bound \in (at + 1)..end /\ bound <= at + (len - m) /\ (bound = end \/ bound = at + (len - m))
  BY <1>2, <1>4 DEF Lesser
<1>7. ASSUME NEW r \in at..(bound - 1) PROVE ZoneIndex(r, start, len) = d
  <2>1. r - start \in Nat /\ a <= r - start /\ r - start < a + len
    BY <1>1, <1>2, <1>3, <1>6
  <2>2. (r - start) \div len = d
    <3> DEFINE y == r - start
    <3> HIDE DEF y
    <3>1. y \in Nat /\ len * d <= y /\ y < len * d + len
      BY <2>1 DEF y, a
    <3>2. y \div len = d
      BY <1>2, <3>1, ZoneIndexUnique
    <3> QED BY <3>2 DEF y
  <2> QED BY <2>2 DEF ZoneIndex
<1>8. ASSUME bound # end PROVE ZoneIndex(bound, start, len) = d + 1
  <2>1. bound - start = a + len
    BY <1>1, <1>2, <1>3, <1>6, <1>8
  <2>2. (bound - start) \div len = d + 1
    <3> DEFINE y == bound - start
               e == d + 1
    <3>1. e \in Nat /\ y = len * e
      BY <1>2, <1>3, <2>1
    <3> HIDE DEF y, e
    <3>2. len * e \in Nat
      BY <3>1
    <3>3. y \in Nat /\ len * e <= y /\ y < len * e + len
      BY <3>1, <3>2
    <3>4. y \div len = e
      BY <3>1, <3>3, ZoneIndexUnique
    <3> QED BY <3>4 DEF y, e
  <2> QED BY <2>2 DEF ZoneIndex
<1> QED BY <1>5, <1>6, <1>7, <1>8 DEF bound

(* The table newZoneRef accepted has a row for every row of the zoned range *)
(* (prune.go: z.values.IsNull(idx) would panic on a shorter table).         *)
THEOREM IndexInsideTable ==
  ASSUME NEW rows \in Nat, NEW len \in Nat, NEW understood \in BOOLEAN,
         NEW tableRows \in Nat, NEW at \in 0..(rows - 1),
         UsableZoneLen(rows, len, understood, tableRows) # 0
  PROVE  ZoneIndex(at, 0, len) \in 0..(tableRows - 1)
<1>1. len \in Nat \ {0} /\ tableRows = ZoneCount(rows, len)
  BY DEF UsableZoneLen
<1> DEFINE d == rows \div len
           m == rows % len
           q == at \div len
           k == at % len
           a == len * d
           b == len * q
<1>2. d \in Nat /\ m \in 0..(len - 1) /\ rows = a + m /\ a \in Nat
  <2>1. d \in Nat /\ m \in 0..(len - 1) /\ rows = a + m
    BY <1>1, DivMod
  <2> HIDE DEF d, m
  <2> QED BY <1>1, <2>1, ProductType
<1>3. at \in Nat /\ at < rows
  OBVIOUS
<1>4. q \in Nat /\ k \in 0..(len - 1) /\ at = b + k /\ b \in Nat
  <2>1. q \in Nat /\ k \in 0..(len - 1) /\ at = b + k
    BY <1>1, <1>3, DivMod
  <2> HIDE DEF q, k
  <2> QED BY <1>1, <2>1, ProductType
<1>5. d < q => a + len <= b
  <2> HIDE DEF d, q
  <2> QED BY <1>2, <1>4, TimesLess
<1>6. tableRows = d + (IF m # 0 THEN 1 ELSE 0)
  BY <1>1 DEF ZoneCount
<1>7. ZoneIndex(at, 0, len) = q
  BY <1>3 DEF ZoneIndex
<1>8. d = q => a = b
  OBVIOUS
<1> HIDE DEF d, m, q, k, a, b
<1>9. ~(d < q) /\ (d = q => m # 0)
  BY <1>1, <1>2, <1>3, <1>4, <1>5, <1>8
<1> QED BY <1>2, <1>4, <1>6, <1>7, <1>9

(* The number of rows that the null count of an entry is compared with is   *)
(* that of the zone's rows, the last and shorter zone included              *)
(* (prune.go: rows).                                                        *)
THEOREM ZoneRowsCounted ==
  ASSUME NEW len \in Nat \ {0}, NEW start \in Nat, NEW end \in Nat,
         NEW at \in start..(end - 1)
  PROVE  Cardinality({r \in start..(end - 1) : ZoneIndex(r, start, len) = ZoneIndex(at, start, len)})
           = ZoneRows(ZoneIndex(at, start, len), start, end, len)
<1> DEFINE x == at - start
           d == x \div len
           m == x % len
           a == len * d
           begin == start + a
           last == begin + Lesser(len, end - begin) - 1
           here == {r \in start..(end - 1) : ZoneIndex(r, start, len) = ZoneIndex(at, start, len)}
<1>1. x \in Nat /\ at = start + x
  OBVIOUS
<1>2. d \in Nat /\ m \in 0..(len - 1) /\ x = a + m
  <2> HIDE DEF x
  <2> QED BY <1>1, DivMod
<1>3. a \in Nat
  <2> HIDE DEF d
  <2> QED BY <1>2, ProductType
<1>4. ZoneIndex(at, start, len) = d
  BY DEF ZoneIndex
<1>5. d * len = a
  <2> HIDE DEF d
  <2> QED BY <1>2
<1> HIDE DEF x, d, m, a
<1>6. begin \in Nat /\ begin <= at /\ at < begin + len /\ last \in Nat
  BY <1>1, <1>2, <1>3 DEF Lesser
<1>7. last < end /\ last < begin + len /\ (last = end - 1 \/ last = begin + len - 1) /\ begin <= last
  BY <1>1, <1>2, <1>3 DEF Lesser
<1>8. ZoneRows(d, start, end, len) = last - begin + 1
  BY <1>3, <1>5, <1>6 DEF ZoneRows, Lesser
<1> HIDE DEF begin, last
<1>9. ASSUME NEW r \in start..(end - 1)
      PROVE  ZoneIndex(r, start, len) = d <=> r \in begin..last
  <2> DEFINE y == r - start
             e == y \div len
             k == y % len
             c == len * e
  <2>1. y \in Nat /\ r = start + y
    OBVIOUS
  <2>2. e \in Nat /\ k \in 0..(len - 1) /\ y = c + k
    <3> HIDE DEF y
    <3> QED BY <2>1, DivMod
  <2>3. ZoneIndex(r, start, len) = e
    BY DEF ZoneIndex
  <2>4. begin = start + a
    BY DEF begin
  <2>5. CASE e = d
    <3>1. c = a
      BY <2>5 DEF a
    <3> HIDE DEF y, e, k, c
    <3>2. begin <= r /\ r < begin + len
      BY <1>3, <2>1, <2>2, <2>4, <3>1
    <3> QED BY <1>6, <1>7, <2>3, <2>5, <3>2
  <2>6. CASE e # d
    <3>1. ~(a <= y /\ y < a + len)
      <4> HIDE DEF y
      <4>1. len * d <= y /\ y < len * d + len => y \div len = d
        BY <1>2, <2>1, ZoneIndexUnique
      <4> QED BY <2>6, <4>1 DEF a
    <3> HIDE DEF y, e, k, c
    <3> QED BY <1>3, <1>6, <1>7, <2>1, <2>3, <2>4, <2>6, <3>1
  <2> QED BY <2>5, <2>6
<1>10. here = begin..last
  <2>1. begin..last \subseteq start..(end - 1)
    BY <1>1, <1>3, <1>6, <1>7 DEF begin
  <2> QED BY <1>4, <1>9, <2>1
<1>11. Cardinality(begin..last) = last - begin + 1
  BY <1>6, <1>7, FS_Interval
<1> HIDE DEF here
<1>12. Cardinality(here) = ZoneRows(ZoneIndex(at, start, len), start, end, len)
  BY <1>4, <1>8, <1>10, <1>11
<1> QED BY <1>12 DEF here

(* A null count equal to the number of rows leaves no row with a value.     *)
LEMMA AllNull ==
  ASSUME NEW n \in Nat, NEW data,
         Cardinality({i \in 1..n : data[i] = Null}) = n
  PROVE  \A i \in 1..n : data[i] = Null
<1> DEFINE N == {i \in 1..n : data[i] = Null}
<1>1. IsFiniteSet(1..n) /\ Cardinality(1..n) = n
  BY FS_Interval
<1>2. N \subseteq 1..n
  OBVIOUS
<1>3. N = 1..n
  BY <1>1, <1>2, FS_Subset
<1> QED BY <1>3

(* A null count of zero leaves no row without one.                          *)
LEMMA NoneNull ==
  ASSUME NEW n \in Nat, NEW data,
         Cardinality({i \in 1..n : data[i] = Null}) = 0
  PROVE  \A i \in 1..n : data[i] # Null
<1> DEFINE N == {i \in 1..n : data[i] = Null}
<1>1. IsFiniteSet(1..n)
  BY FS_Interval
<1>2. IsFiniteSet(N)
  BY <1>1, FS_Subset, N \subseteq 1..n
<1>3. N = {}
  BY <1>2, FS_EmptySet
<1> QED BY <1>3

(* Conservative pruning (scan.go: a predicate "excludes only row ranges     *)
(* whose statistics prove the comparison false"): a zone of any size that   *)
(* its entry describes holds no matching row when it is skipped.            *)
THEOREM SkipSound ==
  ASSUME NEW e \in Entry, NEW n \in Nat, NEW p \in Predicate,
         NEW data \in [1..n -> Value],
         Describes(e, data, n), Skip(e, n, p)
  PROVE  \A i \in 1..n : ~Matches(data[i], p)
<1> SUFFICES ASSUME NEW i \in 1..n PROVE ~Matches(data[i], p)
  OBVIOUS
<1>1. p.op \in Ops /\ p.value \in Int
  BY DEF Predicate
<1>2. n # Null
  BY NullAssumption
<1>3. CASE e.nulls = n /\ p.op # "NEQ"
  <2>1. Cardinality({j \in 1..n : data[j] = Null}) = n
    BY <1>2, <1>3 DEF Describes, Skip
  <2>2. data[i] = Null
    BY <2>1, AllNull
  <2> QED BY <1>3, <2>2 DEF Matches
<1>4. CASE BoundsUsable(e) /\ Excludes(p, e.min, e.max, e.nulls = 0)
  <2>1. e.min \in Int /\ e.max \in Int
    BY <1>4 DEF BoundsUsable, Entry, Value
  <2>2. data[i] # Null => data[i] \in Int /\ e.min <= data[i] /\ data[i] <= e.max
    BY <1>4 DEF BoundsUsable, Describes, Skip, Value
  <2>3. CASE data[i] # Null
    <3> DEFINE v == data[i]
               x == p.value
               lo == e.min
               hi == e.max
    <3>1. v \in Int /\ x \in Int /\ lo \in Int /\ hi \in Int /\ lo <= v /\ v <= hi
      BY <1>1, <2>1, <2>2, <2>3
    <3>2. CASE p.op = "EQ"
      <4>1. x < lo \/ x > hi
        BY <1>4, <3>2 DEF Excludes
      <4>2. Matches(v, p) <=> v = x
        BY <2>3, <3>2 DEF Matches
      <4> QED BY <3>1, <4>1, <4>2
    <3>3. CASE p.op = "NEQ"
      <4>1. lo = hi /\ lo = x
        BY <1>4, <3>3 DEF Excludes
      <4>2. Matches(v, p) <=> v # x
        BY <2>3, <3>3 DEF Matches
      <4> QED BY <3>1, <4>1, <4>2
    <3>4. CASE p.op = "GT"
      <4>1. hi <= x
        BY <1>4, <3>4 DEF Excludes
      <4>2. Matches(v, p) <=> v > x
        BY <2>3, <3>4 DEF Matches
      <4> QED BY <3>1, <4>1, <4>2
    <3>5. CASE p.op = "GTE"
      <4>1. hi < x
        BY <1>4, <3>5 DEF Excludes
      <4>2. Matches(v, p) <=> v >= x
        BY <2>3, <3>5 DEF Matches
      <4> QED BY <3>1, <4>1, <4>2
    <3>6. CASE p.op = "LT"
      <4>1. lo >= x
        BY <1>4, <3>6 DEF Excludes
      <4>2. Matches(v, p) <=> v < x
        BY <2>3, <3>6 DEF Matches
      <4> QED BY <3>1, <4>1, <4>2
    <3>7. CASE p.op = "LTE"
      <4>1. lo > x
        BY <1>4, <3>7 DEF Excludes
      <4>2. Matches(v, p) <=> v <= x
        BY <2>3, <3>7 DEF Matches
      <4> QED BY <3>1, <4>1, <4>2
    <3> QED BY <1>1, <3>2, <3>3, <3>4, <3>5, <3>6, <3>7 DEF Ops
  <2>4. CASE data[i] = Null
    <3>1. p.op = "NEQ" => e.nulls = 0
      BY <1>4 DEF Excludes
    <3>2. ~(e.nulls = 0)
      <4> SUFFICES ASSUME e.nulls = 0 PROVE FALSE
        OBVIOUS
      <4>1. Cardinality({j \in 1..n : data[j] = Null}) = 0
        BY NullAssumption DEF Describes, Skip
      <4> QED BY <2>4, <4>1, NoneNull
    <3> QED BY <2>4, <3>1, <3>2 DEF Matches
  <2> QED BY <2>3, <2>4
<1> QED BY <1>3, <1>4 DEF Skip

(* The n rows that begin with the nulls an entry counts and go on with one  *)
(* value between its bounds are rows that it describes.                     *)
LEMMA DescribedBy ==
  ASSUME NEW e \in Entry, BoundsUsable(e), NEW n \in Nat, e.nulls \in 0..n,
         NEW v \in Int, e.min <= v, v <= e.max
  PROVE  Describes(e, [i \in 1..n |-> IF i <= e.nulls THEN Null ELSE v], n)
<1> DEFINE data == [i \in 1..n |-> IF i <= e.nulls THEN Null ELSE v]
<1>1. v # Null
  BY NullAssumption
<1>2. {i \in 1..n : data[i] = Null} = 1..e.nulls
  BY <1>1
<1>3. Cardinality(1..e.nulls) = e.nulls
  BY FS_Interval
<1>4. ASSUME NEW i \in 1..n, data[i] # Null PROVE e.min <= data[i] /\ data[i] <= e.max
  BY <1>4
<1> HIDE DEF data
<1> QED BY <1>2, <1>3, <1>4 DEF Describes, data

\* A value that bounds which exclude nothing leave to match: a bound, or the
\* one compared with.
LEMMA HasMatch ==
  ASSUME NEW p \in Predicate, NEW lo \in Int, NEW hi \in Int, lo <= hi, NEW nonNull \in BOOLEAN,
         ~Excludes(p, lo, hi, nonNull), p.op = "NEQ" => nonNull
  PROVE  \E v \in {lo, hi, p.value} : lo <= v /\ v <= hi /\ Matches(v, p)
<1> DEFINE x == p.value
<1>1. x \in Int /\ p.op \in Ops
  BY DEF Predicate
<1>2. \A v \in Int : v # Null
  BY NullAssumption
<1>3. CASE p.op = "EQ"
  <2>1. lo <= x /\ x <= hi
    BY <1>1, <1>3 DEF Excludes
  <2>2. Matches(x, p)
    BY <1>1, <1>2, <1>3 DEF Matches
  <2> QED BY <2>1, <2>2
<1>4. CASE p.op = "NEQ"
  <2>1. lo # x \/ hi # x
    BY <1>1, <1>4 DEF Excludes
  <2>2. \A v \in Int : v # x => Matches(v, p)
    BY <1>1, <1>2, <1>4 DEF Matches
  <2> QED BY <2>1, <2>2
<1>5. CASE p.op = "GT"
  <2>1. hi > x
    BY <1>1, <1>5 DEF Excludes
  <2>2. Matches(hi, p) <=> hi > x
    BY <1>2, <1>5 DEF Matches
  <2> QED BY <1>1, <2>1, <2>2
<1>6. CASE p.op = "GTE"
  <2>1. hi >= x
    BY <1>1, <1>6 DEF Excludes
  <2>2. Matches(hi, p) <=> hi >= x
    BY <1>2, <1>6 DEF Matches
  <2> QED BY <1>1, <2>1, <2>2
<1>7. CASE p.op = "LT"
  <2>1. lo < x
    BY <1>1, <1>7 DEF Excludes
  <2>2. Matches(lo, p) <=> lo < x
    BY <1>2, <1>7 DEF Matches
  <2> QED BY <1>1, <2>1, <2>2
<1>8. CASE p.op = "LTE"
  <2>1. lo <= x
    BY <1>1, <1>8 DEF Excludes
  <2>2. Matches(lo, p) <=> lo <= x
    BY <1>2, <1>8 DEF Matches
  <2> QED BY <1>1, <2>1, <2>2
<1> QED BY <1>1, <1>3, <1>4, <1>5, <1>6, <1>7, <1>8 DEF Ops

(* Pruning is complete: when the null count and both bounds are usable and  *)
(* a zone is not skipped, some column that the entry describes has a row    *)
(* there that matches; none of its values need be other than a bound or the *)
(* one compared with.                                                       *)
THEOREM SkipComplete ==
  ASSUME NEW e \in Entry, NEW n \in Nat \ {0}, NEW p \in Predicate,
         e.valid, BoundsUsable(e), e.nulls \in 0..n, ~Skip(e, n, p)
  PROVE  \E data \in [1..n -> {e.min, e.max, p.value, Null}] :
            Describes(e, data, n) /\ \E i \in 1..n : Matches(data[i], p)
<1> DEFINE Rising(v) == [i \in 1..n |-> IF i <= e.nulls THEN Null ELSE v]
<1>1. e.min \in Int /\ e.max \in Int /\ e.min <= e.max /\ p.value \in Int /\ n # Null
  BY NullAssumption DEF BoundsUsable, Entry, Value, Predicate
<1>2. ~Excludes(p, e.min, e.max, e.nulls = 0) /\ (e.nulls = n => p.op = "NEQ")
  BY <1>1 DEF Skip
<1>3. ASSUME NEW v \in {e.min, e.max, p.value}, e.min <= v, v <= e.max
      PROVE  Rising(v) \in [1..n -> {e.min, e.max, p.value, Null}] /\ Describes(e, Rising(v), n)
  <2>1. v \in Int
    BY <1>1
  <2>2. Describes(e, Rising(v), n)
    BY <1>3, <2>1, DescribedBy
  <2> QED BY <2>2
<1>4. CASE p.op = "NEQ" /\ e.nulls # 0
  <2>1. 1 \in 1..n /\ Rising(e.min)[1] = Null
    BY <1>4
  <2>2. Matches(Rising(e.min)[1], p)
    BY <1>4, <2>1 DEF Matches
  <2>3. Rising(e.min) \in [1..n -> {e.min, e.max, p.value, Null}] /\ Describes(e, Rising(e.min), n)
    BY <1>1, <1>3
  <2> HIDE DEF Rising
  <2> QED BY <2>1, <2>2, <2>3
<1>5. CASE ~(p.op = "NEQ" /\ e.nulls # 0)
  <2>1. PICK v \in {e.min, e.max, p.value} : e.min <= v /\ v <= e.max /\ Matches(v, p)
    BY <1>1, <1>2, <1>5, HasMatch
  <2>2. e.nulls # n
    BY <1>2, <1>5
  <2>3. n \in 1..n /\ Rising(v)[n] = v
    BY <2>2
  <2>4. Rising(v) \in [1..n -> {e.min, e.max, p.value, Null}] /\ Describes(e, Rising(v), n)
    BY <1>3, <2>1
  <2> HIDE DEF Rising
  <2> QED BY <2>1, <2>3, <2>4
<1> QED BY <1>4, <1>5

-----------------------------------------------------------------------------
(* What newZoneRef reads.                                                  *)

LEMMA LeastOf ==
  ASSUME NEW T \in SUBSET Nat, T # {}
  PROVE  \E n \in T : \A m \in T : n <= m
<1> DEFINE R == OpToRel(<, Nat)
<1>1. IsWellFoundedOn(R, Nat)
  BY NatLessThanWellFounded
<1>2. \E n \in T : \A m \in T : ~(<<m, n>> \in R)
  <2> HIDE DEF R
  <2> QED BY <1>1, WFMin
<1>3. \A m, n \in Nat : <<m, n>> \in R <=> m < n
  BY DEF OpToRel
<1> HIDE DEF R
<1>4. PICK n \in T : \A m \in T : ~(m < n)
  BY <1>2, <1>3
<1> QED BY <1>4

LEMMA Induct ==
  ASSUME NEW S \in SUBSET Nat, 0 \in S, \A n \in S : n + 1 \in S
  PROVE  S = Nat
<1> SUFFICES ASSUME Nat \ S # {} PROVE FALSE
  OBVIOUS
<1>1. PICK n \in Nat \ S : \A m \in Nat \ S : n <= m
  BY LeastOf
<1>2. n # 0 /\ n - 1 \in S
  BY <1>1
<1> QED BY <1>1, <1>2

\* The last of some places in a sequence.
LEMMA LastOf ==
  ASSUME NEW n \in Nat, NEW T \in SUBSET (1..n), T # {}
  PROVE  Max(T) \in T
<1> DEFINE U == {n - k : k \in T}
<1>1. U \in SUBSET Nat /\ U # {}
  <2>1. \A k \in T : n - k \in Nat
    OBVIOUS
  <2> QED BY <2>1
<1>2. PICK u \in U : \A w \in U : u <= w
  BY <1>1, LeastOf
<1>3. PICK k \in T : u = n - k
  BY <1>2
<1>4. ASSUME NEW j \in T PROVE k >= j
  <2>1. n - j \in U
    OBVIOUS
  <2>2. n - k <= n - j
    BY <1>2, <1>3, <2>1
  <2> QED BY <2>2
<1>5. \E x \in T : \A y \in T : x >= y
  BY <1>4
<1> QED BY <1>5 DEF Max

\* What the last n of some digits write is defined to be.
LastDigits(f, digits, radix, n) ==
  f = [k \in 0..n |-> IF k = 0 THEN 0 ELSE digits[Len(digits) - k + 1] + radix * f[k - 1]]

LEMMA LastDigitsExist ==
  ASSUME NEW digits, NEW radix, NEW n \in Nat
  PROVE  \E f : LastDigits(f, digits, radix, n)
<1> DEFINE S == {k \in Nat : \E f : LastDigits(f, digits, radix, k)}
<1>1. 0 \in S
  <2> DEFINE f == [k \in 0..0 |-> 0]
  <2>1. f = [k \in 0..0 |-> IF k = 0 THEN 0 ELSE digits[Len(digits) - k + 1] + radix * f[k - 1]]
    OBVIOUS
  <2> HIDE DEF f
  <2> QED BY <2>1 DEF LastDigits
<1>2. ASSUME NEW k \in S PROVE k + 1 \in S
  <2>1. PICK f : LastDigits(f, digits, radix, k)
    OBVIOUS
  <2> DEFINE new == digits[Len(digits) - (k + 1) + 1] + radix * f[k]
             g == [i \in 0..(k + 1) |-> IF i = k + 1 THEN new ELSE f[i]]
  <2>2. ASSUME NEW i \in 0..(k + 1)
        PROVE  g[i] = IF i = 0 THEN 0 ELSE digits[Len(digits) - i + 1] + radix * g[i - 1]
    <3>1. CASE i = k + 1
      BY <3>1
    <3>2. CASE i # k + 1
      <4>1. f[i] = IF i = 0 THEN 0 ELSE digits[Len(digits) - i + 1] + radix * f[i - 1]
        BY <2>1, <3>2 DEF LastDigits
      <4> QED BY <3>2, <4>1
    <3> QED BY <3>1, <3>2
  <2>3. g = [i \in 0..(k + 1) |-> g[i]]
    OBVIOUS
  <2> HIDE DEF g
  <2>4. LastDigits(g, digits, radix, k + 1)
    BY <2>2, <2>3 DEF LastDigits
  <2> QED BY <2>4
<1> HIDE DEF S
<1>3. S = Nat
  BY <1>1, <1>2, Induct, S \in SUBSET Nat DEF S
<1> QED BY <1>3 DEF S

\* Digits write a natural number.
LEMMA DigitwiseType ==
  ASSUME NEW digits \in Seq(Nat), NEW radix \in Nat
  PROVE  Digitwise(digits, radix) \in Nat
<1> DEFINE n == Len(digits)
           f == CHOOSE h : h = [k \in 0..n |->
                  IF k = 0 THEN 0 ELSE digits[n - k + 1] + radix * h[k - 1]]
<1>1. n \in Nat
  OBVIOUS
<1>2. Digitwise(digits, radix) = f[n]
  BY DEF Digitwise
<1>3. \E h : h = [k \in 0..n |-> IF k = 0 THEN 0 ELSE digits[n - k + 1] + radix * h[k - 1]]
  <2>1. \E h : LastDigits(h, digits, radix, n)
    BY <1>1, LastDigitsExist
  <2> QED BY <2>1 DEF LastDigits
<1>4. f = [k \in 0..n |-> IF k = 0 THEN 0 ELSE digits[n - k + 1] + radix * f[k - 1]]
  BY <1>3
<1> HIDE DEF f
<1> DEFINE S == {k \in Nat : k <= n => f[k] \in Nat}
<1>5. 0 \in S
  BY <1>1, <1>4
<1>6. ASSUME NEW k \in S PROVE k + 1 \in S
  <2> SUFFICES ASSUME k + 1 <= n PROVE f[k + 1] \in Nat
    OBVIOUS
  <2>1. k \in Nat /\ k + 1 \in 0..n /\ k <= n
    BY <1>1
  <2>2. f[k + 1] = digits[n - (k + 1) + 1] + radix * f[k]
    BY <1>4, <2>1
  <2>3. digits[n - (k + 1) + 1] \in Nat
    BY <1>1, <2>1
  <2>4. f[k] \in Nat
    BY <2>1
  <2>5. radix * f[k] \in Nat
    BY <2>4, ProductType
  <2> DEFINE digit == digits[n - (k + 1) + 1]
             rest == radix * f[k]
  <2>6. digit \in Nat /\ rest \in Nat /\ f[k + 1] = digit + rest
    BY <2>2, <2>3, <2>5
  <2> HIDE DEF digit, rest
  <2> QED BY <2>6
<1> HIDE DEF S
<1>7. S = Nat
  BY <1>5, <1>6, Induct, S \in SUBSET Nat DEF S
<1> QED BY <1>1, <1>2, <1>7 DEF S

\* The length of a zone is a natural number, of whatever bytes it is read.
LEMMA LengthType ==
  ASSUME NEW l \in Layouts, SchemaOf(l).ok
  PROVE  SchemaOf(l).zoneLen \in Nat
<1> DEFINE m == l.metadata
<1>1. m \in Seq(Nat) /\ 2 * More \in Nat /\ ShortBytes \in Nat
  BY LayoutsAssumption, BytesAssumption
<1>2. ~NoSchema.ok
  BY DEF NoSchema
<1>3. ASSUME NEW n, NEW c PROVE Schema(n, c).zoneLen = n
  BY DEF Schema
<1>4. ASSUME LegacySchema(m).ok PROVE LegacySchema(m).zoneLen \in Nat
  <2>1. \/ LegacySchema(m) = NoSchema
        \/ /\ ~(Len(m) < ShortBytes)
           /\ \E c : LegacySchema(m) = Schema(Digitwise(SubSeq(m, 1, ShortBytes), 2 * More), c)
    BY DEF LegacySchema
  <2>2. LegacySchema(m).zoneLen = Digitwise(SubSeq(m, 1, ShortBytes), 2 * More) /\ ~(Len(m) < ShortBytes)
    BY <1>2, <1>3, <1>4, <2>1
  <2>3. SubSeq(m, 1, ShortBytes) \in Seq(Nat)
    BY <1>1, <2>2
  <2> QED BY <1>1, <2>2, <2>3, DigitwiseType
<1>5. ASSUME NEW lengths, NEW aggregates, SchemaWith(lengths, aggregates).ok
      PROVE  SchemaWith(lengths, aggregates).zoneLen \in Nat
  <2>1. \/ SchemaWith(lengths, aggregates) = NoSchema
        \/ /\ IsNumber(lengths[1], MaxZoneLength)
           /\ \E c : SchemaWith(lengths, aggregates) = Schema(lengths[1].number, c)
    BY DEF SchemaWith
  <2>2. SchemaWith(lengths, aggregates).zoneLen = lengths[1].number /\ IsNumber(lengths[1], MaxZoneLength)
    BY <1>2, <1>3, <1>5, <2>1
  <2>3. lengths[1].number \in 0..MaxZoneLength
    BY <2>2 DEF IsNumber
  <2> QED BY <2>2, <2>3
<1>6. ASSUME ZonedSchema(m).ok PROVE ZonedSchema(m).zoneLen \in Nat
  <2>1. ZonedSchema(m) = NoSchema \/ \E lengths, aggregates : ZonedSchema(m) = SchemaWith(lengths, aggregates)
    BY DEF ZonedSchema, SchemaIn
  <2> QED BY <1>2, <1>5, <1>6, <2>1
<1>7. SchemaOf(l) \in {LegacySchema(m), ZonedSchema(m), NoSchema}
  BY DEF SchemaOf
<1> QED BY <1>2, <1>4, <1>6, <1>7

-----------------------------------------------------------------------------
(* The reader.                                                             *)

\* A usable zoneRef is the one newZoneRef made; GiveUp and an unusable one
\* have length 0.
IInv ==
  /\ layout \in Layouts
  /\ pos \in Nat
  /\ zone # Null => /\ zone.len # 0 => zone = NewZoneRef(layout)
                    /\ entry \in Entries(layout)
                    /\ pred \in Preds(layout)

\* What newZoneRef keeps of a schema.
LEMMA UsableIs ==
  ASSUME NEW l \in Layouts, NewZoneRef(l).len # 0
  PROVE  /\ SchemaOf(l).ok
         /\ NewZoneRef(l).len \in Nat \ {0}
         /\ NewZoneRef(l) = ZoneRef(NewZoneRef(l).len, SchemaOf(l).columns)
<1> DEFINE schema == SchemaOf(l)
           len == UsableZoneLen(l.rows, schema.zoneLen, schema.ok, l.tableRows)
           used == IF len = 0 THEN <<>> ELSE schema.columns
<1>1. NewZoneRef(l) = ZoneRef(len, used)
  BY DEF NewZoneRef
<1>2. NewZoneRef(l).len = len
  BY <1>1 DEF ZoneRef
<1>3. len # 0
  BY <1>2
<1>4. schema.ok /\ len = schema.zoneLen
  BY <1>3 DEF UsableZoneLen
<1>5. schema.zoneLen \in Nat
  BY <1>4, LengthType
<1> HIDE DEF schema, len
<1>6. used = schema.columns
  BY <1>3
<1> HIDE DEF used
<1> QED BY <1>1, <1>2, <1>3, <1>4, <1>5, <1>6 DEF schema

\* The place of a statistic, in columns that have those of a table.
LEMMA ColumnIs ==
  ASSUME NEW n \in Nat, NEW columns, NEW stat,
         DOMAIN columns = 1..n
  PROVE  \/ ColumnOf(columns, stat) = 0 /\ \A k \in 1..n : columns[k].stat # stat
         \/ /\ ColumnOf(columns, stat) \in 1..n
            /\ columns[ColumnOf(columns, stat)].stat = stat
<1> DEFINE those == {k \in DOMAIN columns : columns[k].stat = stat}
<1>1. ColumnOf(columns, stat) = IF those = {} THEN 0 ELSE Max(those)
  BY DEF ColumnOf
<1>2. those \in SUBSET (1..n)
  OBVIOUS
<1>3. CASE those = {}
  BY <1>1, <1>3
<1>4. CASE those # {}
  <2>1. Max(those) \in those
    BY <1>2, <1>4, LastOf
  <2> QED BY <1>1, <1>2, <1>4, <2>1
<1> QED BY <1>3, <1>4

\* What is read of the table is what it says.
LEMMA ReadsTruth ==
  ASSUME IInv, ReadsTable
  PROVE  /\ layout \in Layouts /\ Rows \in Nat /\ pos \in 0..(Rows - 1)
         /\ zone.len \in Nat \ {0}
         /\ entry \in Entry /\ {entry.min, entry.max} \subseteq Values \cup {Null}
         /\ pred \in Predicate /\ pred.value \in Values
         /\ Seen = Truth
<1>1. /\ layout \in Layouts /\ pos \in Nat /\ zone = NewZoneRef(layout) /\ zone.len # 0 /\ pos < Rows
      /\ entry \in Entries(layout) /\ pred \in Preds(layout)
  BY DEF IInv, ReadsTable, Usable
<1>2. Rows \in Nat /\ layout.cells \in Seq([stat : STRING, form : STRING])
  BY <1>1, LayoutsAssumption DEF Rows
<1>3. /\ entry \in Entry /\ {entry.min, entry.max} \subseteq Values \cup {Null}
      /\ pred \in Predicate /\ pred.value \in Values
  BY <1>1, ValuesAssumption
<1> DEFINE columns == SchemaOf(layout).columns
           cells == layout.cells
           n == Len(cells)
<1>4. SchemaOf(layout).ok /\ zone.len \in Nat \ {0} /\ zone = ZoneRef(zone.len, columns)
  BY <1>1, UsableIs
<1>5. zone.columns = columns
  BY <1>4 DEF ZoneRef
<1>6. Stats(columns) = Stats(cells)
  BY <1>1, <1>4, <1>5, LayoutsAssumption DEF ReadsTable
<1>7. n \in Nat /\ DOMAIN cells = 1..n
  BY <1>2
<1>8. DOMAIN columns = 1..n /\ \A k \in 1..n : columns[k].stat = cells[k].stat
  <2>1. DOMAIN Stats(columns) = DOMAIN columns /\ DOMAIN Stats(cells) = DOMAIN cells
    BY DEF Stats
  <2>2. DOMAIN columns = 1..n
    BY <1>6, <1>7, <2>1
  <2>3. ASSUME NEW k \in 1..n PROVE columns[k].stat = cells[k].stat
    <3>1. Stats(columns)[k] = columns[k].stat /\ Stats(cells)[k] = cells[k].stat
      BY <1>7, <2>2 DEF Stats
    <3> QED BY <1>6, <3>1
  <2> QED BY <2>2, <2>3
<1> HIDE DEF columns, cells, n
<1>9. ASSUME NEW stat, NEW x, NEW none,
             \A k \in 1..n : cells[k].stat = stat => Cell(k) = x
      PROVE  CellAt(ColumnOf(columns, stat), none) = Says(stat, x, none)
  <2> DEFINE k == ColumnOf(columns, stat)
  <2>1. \/ k = 0 /\ \A j \in 1..n : cells[j].stat # stat
        \/ k \in 1..n /\ cells[k].stat = stat
    BY <1>7, <1>8, ColumnIs
  <2>2. (\E c \in Range(cells) : c.stat = stat) <=> \E j \in 1..n : cells[j].stat = stat
    BY <1>7 DEF Range
  <2> HIDE DEF k
  <2>3. CellAt(k, none) = IF \E j \in 1..n : cells[j].stat = stat THEN x ELSE none
    BY <1>7, <1>9, <2>1 DEF CellAt
  <2> QED BY <2>2, <2>3 DEF Says, cells, k
<1>10. \A k \in 1..n :
         /\ cells[k].stat = "min" => Cell(k) = entry.min
         /\ cells[k].stat = "max" => Cell(k) = entry.max
         /\ cells[k].stat = "null_count" => Cell(k) = entry.nulls
         /\ cells[k].stat = "min_is_truncated" => Cell(k) = entry.minTruncated
         /\ cells[k].stat = "max_is_truncated" => Cell(k) = entry.maxTruncated
  BY DEF Cell, cells
<1>11. /\ zone.min = ColumnOf(columns, "min") /\ zone.max = ColumnOf(columns, "max")
       /\ zone.nulls = ColumnOf(columns, "null_count")
       /\ zone.minTruncated = ColumnOf(columns, "min_is_truncated")
       /\ zone.maxTruncated = ColumnOf(columns, "max_is_truncated")
  BY <1>4 DEF ZoneRef
<1>12. /\ CellAt(zone.min, Null) = Says("min", entry.min, Null)
       /\ CellAt(zone.max, Null) = Says("max", entry.max, Null)
       /\ CellAt(zone.nulls, Null) = Says("null_count", entry.nulls, Null)
       /\ CellAt(zone.minTruncated, "absent") = Says("min_is_truncated", entry.minTruncated, "absent")
       /\ CellAt(zone.maxTruncated, "absent") = Says("max_is_truncated", entry.maxTruncated, "absent")
  BY <1>9, <1>10, <1>11
<1>13. Seen = Truth
  BY <1>12 DEF Seen, Truth
<1> QED BY <1>1, <1>2, <1>3, <1>4, <1>13

\* The table says what an entry may hold, and of a zone that has rows.
LEMMA TruthType ==
  ASSUME IInv, ReadsTable
  PROVE  /\ Truth \in Entry /\ {Truth.min, Truth.max} \subseteq Values \cup {Null}
         /\ ZoneRows(ZoneIndex(pos, 0, zone.len), 0, Rows, zone.len) \in Nat \ {0}
<1> DEFINE len == zone.len
           idx == pos \div len
           rem == pos % len
           a == len * idx
<1>1. /\ Rows \in Nat /\ pos \in 0..(Rows - 1) /\ len \in Nat \ {0}
      /\ entry \in Entry /\ {entry.min, entry.max} \subseteq Values \cup {Null}
  BY ReadsTruth
<1>2. Truth \in Entry /\ {Truth.min, Truth.max} \subseteq Values \cup {Null}
  <2>1. ASSUME NEW stat, NEW x, NEW none PROVE Says(stat, x, none) \in {x, none}
    BY DEF Says
  <2>2. /\ entry.valid \in BOOLEAN /\ entry.nulls \in Nat \cup {Null}
        /\ entry.min \in Value /\ entry.max \in Value
        /\ entry.minTruncated \in Truncation /\ entry.maxTruncated \in Truncation
    BY <1>1 DEF Entry
  <2>3. Null \in Value /\ "absent" \in Truncation
    BY DEF Value, Truncation
  <2>4. /\ Says("null_count", entry.nulls, Null) \in Nat \cup {Null}
        /\ Says("min", entry.min, Null) \in Value /\ Says("max", entry.max, Null) \in Value
        /\ Says("min", entry.min, Null) \in Values \cup {Null}
        /\ Says("max", entry.max, Null) \in Values \cup {Null}
        /\ Says("min_is_truncated", entry.minTruncated, "absent") \in Truncation
        /\ Says("max_is_truncated", entry.maxTruncated, "absent") \in Truncation
    BY <1>1, <2>1, <2>2, <2>3
  <2> QED BY <2>2, <2>4 DEF Truth, Entry
<1>3. idx \in Nat /\ rem \in 0..(len - 1) /\ pos = a + rem
  <2>1. pos \in Nat
    BY <1>1
  <2> HIDE DEF len
  <2> QED BY <1>1, <2>1, DivMod DEF len
<1>4. a \in Nat /\ idx * len = a
  <2> HIDE DEF idx, rem
  <2> QED BY <1>1, <1>3, SMT
<1>5. ZoneIndex(pos, 0, len) = idx
  BY <1>1 DEF ZoneIndex
<1>6. ZoneRows(idx, 0, Rows, len) = Lesser(len, Rows - (0 + idx * len))
  BY DEF ZoneRows
<1> HIDE DEF len, idx, rem, a
<1>7. ZoneRows(idx, 0, Rows, len) = Lesser(len, Rows - a)
  BY <1>1, <1>4, <1>6
<1>8. Lesser(len, Rows - a) \in Nat \ {0}
  BY <1>1, <1>3, <1>4 DEF Lesser
<1> QED BY <1>2, <1>5, <1>7, <1>8 DEF len

LEMMA InitInv == ASSUME Init PROVE IInv
BY DEF Init, IInv

\* Where evaluate leaves the reader.
LEMMA BoundOfZone ==
  ASSUME IInv, ReadsTable
  PROVE  LET bound == ZoneBound(pos, 0, Rows, zone.len) IN
         /\ bound \in (pos + 1)..Rows
         /\ \A r \in pos..(bound - 1) : ZoneIndex(r, 0, zone.len) = ZoneIndex(pos, 0, zone.len)
         /\ bound = Rows \/ ZoneIndex(bound, 0, zone.len) # ZoneIndex(pos, 0, zone.len)
<1>1. Rows \in Nat /\ pos \in 0..(Rows - 1) /\ zone.len \in Nat \ {0}
  BY ReadsTruth
<1> DEFINE len == zone.len
           at == pos
           bound == ZoneBound(at, 0, Rows, len)
<1>2. /\ bound \in (at + 1)..Rows
      /\ \A r \in at..(bound - 1) : ZoneIndex(r, 0, len) = ZoneIndex(at, 0, len)
      /\ bound = Rows \/ ZoneIndex(bound, 0, len) = ZoneIndex(at, 0, len) + 1
  <2> HIDE DEF len, at
  <2> QED BY <1>1, BoundStaysInZone DEF len, at
<1>3. ZoneIndex(at, 0, len) \in Nat
  BY <1>1, DivMod DEF ZoneIndex
<1> HIDE DEF bound
<1>4. bound = Rows \/ ZoneIndex(bound, 0, len) # ZoneIndex(at, 0, len)
  BY <1>2, <1>3
<1> QED BY <1>2, <1>4 DEF bound

LEMMA NextInv == ASSUME IInv, [Next]_vars PROVE IInv'
<1>1. layout \in Layouts /\ pos \in Nat /\ Rows \in Nat
  BY LayoutsAssumption DEF IInv, Rows
<1>2. CASE MakeZoneRef
  BY <1>2 DEF IInv, MakeZoneRef
<1>3. CASE GiveUp
  <2>1. zone # Null /\ zone.len # 0 /\ zone = NewZoneRef(layout)
    BY <1>3 DEF IInv, GiveUp, Usable
  <2>2. zone'.len = 0
    <3>1. zone' = [zone EXCEPT !.len = 0]
      BY <1>3 DEF GiveUp
    <3>2. "len" \in DOMAIN zone
      <4>1. zone = ZoneRef(zone.len, SchemaOf(layout).columns)
        BY <1>1, <2>1, UsableIs
      <4> QED BY <4>1 DEF ZoneRef
    <3> QED BY <3>1, <3>2
  <2>3. pos' \in Nat /\ layout' = layout /\ entry' = entry /\ pred' = pred
    BY <1>1, <1>3 DEF GiveUp
  <2> QED BY <1>1, <2>1, <2>2, <2>3 DEF IInv
<1>4. CASE EvaluateUnusable
  BY <1>1, <1>4 DEF IInv, EvaluateUnusable, Rows
<1>5. CASE Evaluate
  <2>1. ReadsTable
    BY <1>5 DEF Evaluate, ReadsTable
  <2>2. pos' \in (pos + 1)..Rows
    BY <1>5, <2>1, BoundOfZone DEF Evaluate
  <2>3. pos' \in Nat
    BY <1>1, <2>2
  <2> QED BY <1>5, <2>3 DEF IInv, Evaluate
<1>6. CASE StopInside
  BY <1>1, <1>6 DEF IInv, StopInside
<1>7. CASE UNCHANGED vars
  BY <1>7 DEF IInv, vars
<1> QED BY <1>2, <1>3, <1>4, <1>5, <1>6, <1>7 DEF Next

(* The reader is always at a row, and a zoneRef that is used the one that   *)
(* newZoneRef made of the layout's metadata.                                *)
THEOREM Invariance == Spec => []IInv
<1>1. Init => IInv
  BY InitInv
<1>2. IInv /\ [Next]_vars => IInv'
  BY NextInv
<1> QED BY <1>1, <1>2, PTL DEF Spec

LEMMA SoundHere == IInv => SkipIsSound
<1> SUFFICES ASSUME IInv, ReadsTable, SkipsAt(pos)
             PROVE  Nothing(ZoneRows(ZoneIndex(pos, 0, zone.len), 0, Rows, zone.len))
  BY DEF SkipIsSound
<1> DEFINE n == ZoneRows(ZoneIndex(pos, 0, zone.len), 0, Rows, zone.len)
<1>1. Truth \in Entry /\ n \in Nat
  BY TruthType
<1>2. pred \in Predicate /\ Seen = Truth
  BY ReadsTruth
<1>3. Skip(Truth, n, pred)
  BY <1>2 DEF SkipsAt
<1> HIDE DEF n
<1>4. ASSUME NEW data \in Described(n), NEW i \in 1..n PROVE ~Matches(data[i], pred)
  <2>1. data \in [1..n -> Value] /\ Describes(Truth, data, n)
    BY ValuesAssumption DEF Described, Value
  <2> QED BY <1>1, <1>2, <1>3, <2>1, SkipSound
<1> QED BY <1>4 DEF Nothing, n

(* Conservative pruning (scan.go: a predicate "excludes only row ranges     *)
(* whose statistics prove the comparison false"): of every table, whatever  *)
(* is in the metadata of its layout, a zone is passed over only when no     *)
(* column that its row describes has a matching row there.                  *)
THEOREM PrunesSoundly == Spec => []SkipIsSound
BY Invariance, SoundHere, PTL

LEMMA CompleteHere == IInv => SkipIsComplete
<1> SUFFICES ASSUME IInv, ReadsTable, ~SkipsAt(pos)
             PROVE  LET n == ZoneRows(ZoneIndex(pos, 0, zone.len), 0, Rows, zone.len)
                    IN  ~(Truth.valid /\ BoundsUsable(Truth) /\ Truth.nulls \in 0..n /\ Nothing(n))
  BY DEF SkipIsComplete
<1> DEFINE n == ZoneRows(ZoneIndex(pos, 0, zone.len), 0, Rows, zone.len)
<1>1. Truth \in Entry /\ {Truth.min, Truth.max} \subseteq Values \cup {Null} /\ n \in Nat \ {0}
  BY TruthType
<1>2. pred \in Predicate /\ pred.value \in Values /\ Seen = Truth
  BY ReadsTruth
<1>3. ~Skip(Truth, n, pred)
  BY <1>2 DEF SkipsAt
<1> HIDE DEF n
<1>4. ASSUME Truth.valid, BoundsUsable(Truth), Truth.nulls \in 0..n, Nothing(n) PROVE FALSE
  <2>1. PICK data \in [1..n -> {Truth.min, Truth.max, pred.value, Null}] :
          Describes(Truth, data, n) /\ \E i \in 1..n : Matches(data[i], pred)
    BY <1>1, <1>2, <1>3, <1>4, SkipComplete
  <2>2. {Truth.min, Truth.max, pred.value, Null} \subseteq Values \cup {Null}
    BY <1>1, <1>2
  <2>3. data \in [1..n -> Values \cup {Null}]
    BY <2>2
  <2>4. data \in Described(n)
    BY <2>1, <2>3 DEF Described
  <2> QED BY <1>4, <2>1, <2>4 DEF Nothing
<1> QED BY <1>4 DEF n

(* Nothing is read that the statistics exclude: a zone that is not passed   *)
(* over, though both bounds and the null count of its row can be used, has  *)
(* a matching row in some column that its row describes.                    *)
THEOREM PrunesCompletely == Spec => []SkipIsComplete
BY Invariance, CompleteHere, PTL

LEMMA StepStays ==
  ASSUME IInv, [Next]_vars, ReadsTable
  PROVE  \/ UNCHANGED vars
         \/ /\ \A r \in pos..(pos' - 1) : ZoneIndex(r, 0, zone.len) = ZoneIndex(pos, 0, zone.len)
            /\ skipped' => pos' = Rows \/ ZoneIndex(pos', 0, zone.len) # ZoneIndex(pos, 0, zone.len)
<1>1. zone # Null /\ zone.len # 0 /\ Len(zone.columns) = Len(layout.cells)
  BY DEF ReadsTable, Usable
<1>2. CASE Evaluate
  <2>1. pos' = ZoneBound(pos, 0, Rows, zone.len)
    BY <1>2 DEF Evaluate
  <2> QED BY <2>1, BoundOfZone
<1>3. CASE StopInside
  <2>1. pos' = pos + 1 /\ ~skipped' /\ pos \in Nat
    BY <1>3 DEF StopInside, IInv
  <2>2. \A r \in pos..(pos' - 1) : r = pos
    BY <2>1
  <2> QED BY <2>1, <2>2
<1>4. CASE UNCHANGED vars
  BY <1>4
<1>5. ~MakeZoneRef /\ ~GiveUp /\ ~EvaluateUnusable
  BY <1>1 DEF MakeZoneRef, GiveUp, EvaluateUnusable
<1> QED BY <1>2, <1>3, <1>4, <1>5 DEF Next

(* No step of the reader leaves the zone whose row it looked at, and one    *)
(* that passes over a zone ends with it, or with the rows.                  *)
THEOREM ReaderStaysInZone == Spec => StaysInZone
<1>1. IInv /\ [Next]_vars =>
        [ReadsTable =>
           /\ \A r \in pos..(pos' - 1) : ZoneIndex(r, 0, zone.len) = ZoneIndex(pos, 0, zone.len)
           /\ skipped' => pos' = Rows \/ ZoneIndex(pos', 0, zone.len) # ZoneIndex(pos, 0, zone.len)]_vars
  BY StepStays
<1> QED BY <1>1, Invariance, PTL DEF Spec, StaysInZone
=============================================================================
