---------------------------- MODULE LinesProofs ----------------------------
(***************************************************************************)
(* Theorems about lines: what Without keeps, in which order, and what      *)
(* joining, going back to the front and leaving do to the order.           *)
(* Filtering is a recursive function, so the first facts about it are      *)
(* proved by induction over the length of the line.                        *)
(***************************************************************************)
EXTENDS Lines, SequenceTheorems, FiniteSetTheorems, WellFoundedInduction, TLAPS

(* Induction over the numbers for a set, from the well-foundedness of their *)
(* order: there is a least number outside S, and it has no predecessor.     *)
LEMMA NatSets ==
    ASSUME NEW S, 0 \in S, \A n \in Nat : n \in S => n + 1 \in S
    PROVE  \A n \in Nat : n \in S
<1> DEFINE T == Nat \ S
<1> SUFFICES ASSUME T # {} PROVE FALSE
  OBVIOUS
<1>1. PICK x \in T : \A y \in T : ~(<<y, x>> \in OpToRel(<, Nat))
  BY WFMin, NatLessThanWellFounded DEF OpToRel
<1>2. \A y \in T : ~(y < x)
  BY <1>1 DEF OpToRel
<1>3. x - 1 \in Nat /\ x - 1 \in S
  BY <1>2
<1> QED BY <1>3

Filter(line, S, g, n) ==
    g = [i \in 0..n |->
            IF i = 0 THEN <<>>
            ELSE IF line[i] \in S THEN g[i - 1] ELSE Append(g[i - 1], line[i])]

(* The recursive function of Without exists, for lines of any length.       *)
LEMMA FilterExists ==
    ASSUME NEW line, NEW S
    PROVE  \A n \in Nat : \E g : Filter(line, S, g, n)
<1> DEFINE N == {n \in Nat : \E g : Filter(line, S, g, n)}
<1>1. 0 \in N
  <2> DEFINE g == [i \in 0..0 |-> <<>>]
  <2>1. Filter(line, S, g, 0)
    BY DEF Filter
  <2> QED BY <2>1
<1>2. ASSUME NEW n \in Nat, n \in N PROVE n + 1 \in N
  <2>1. PICK g : Filter(line, S, g, n)
    BY <1>2
  <2> DEFINE last == IF line[n + 1] \in S THEN g[n] ELSE Append(g[n], line[n + 1])
             h == [i \in 0..(n + 1) |-> IF i = n + 1 THEN last ELSE g[i]]
  <2>2. Filter(line, S, h, n + 1)
    <3> DEFINE k == [i \in 0..(n + 1) |->
            IF i = 0 THEN <<>>
            ELSE IF line[i] \in S THEN h[i - 1] ELSE Append(h[i - 1], line[i])]
    <3>1. \A i \in 0..n : g[i] =  IF i = 0 THEN <<>>
            ELSE IF line[i] \in S THEN g[i - 1] ELSE Append(g[i - 1], line[i])
      BY <2>1 DEF Filter
    <3>2. ASSUME NEW i \in 0..(n + 1) PROVE h[i] = k[i]
      <4>1. CASE i = n + 1
        BY <4>1
      <4>2. CASE i # n + 1
        BY <4>2, <3>1
      <4> QED BY <4>1, <4>2
    <3>3. h = k
      BY <3>2
    <3> QED BY <3>3 DEF Filter
  <2> QED BY <2>2
<1>3. \A n \in Nat : n \in N
  <2> HIDE DEF N
  <2> QED BY <1>1, <1>2, NatSets
<1> QED BY <1>3

(* What Without returns is the last value of such a function.               *)
LEMMA WithoutFilters ==
    ASSUME NEW line, NEW S, Len(line) \in Nat
    PROVE  \E g : Filter(line, S, g, Len(line)) /\ Without(line, S) = g[Len(line)]
<1>1. \E g : Filter(line, S, g, Len(line))
  BY FilterExists
<1> QED BY <1>1 DEF Without, Filter

(* t is what is left of the first n rows of line without the members of S:  *)
(* m says where in the line its rows are.                                   *)
Picks(t, line, m, n, S) ==
    /\ m \in [1..Len(t) -> 1..n]
    /\ \A j, k \in 1..Len(t) : j < k => m[j] < m[k]
    /\ \A k \in 1..Len(t) : t[k] = line[m[k]] /\ t[k] \notin S
    /\ \A i \in 1..n : line[i] \notin S => \E k \in 1..Len(t) : m[k] = i

(* One row more of the line is looked at: it is left out, or joins what is  *)
(* picked.                                                                  *)
LEMMA PickOneMore ==
    ASSUME NEW R, NEW line \in Seq(R), NEW S, NEW n \in 0..(Len(line) - 1),
           NEW t \in Seq(R), NEW m, Picks(t, line, m, n, S)
    PROVE  IF line[n + 1] \in S THEN Picks(t, line, m, n + 1, S)
           ELSE \E h : Picks(Append(t, line[n + 1]), line, h, n + 1, S)
<1>0. Len(t) \in Nat
  BY LenProperties
<1>1. CASE line[n + 1] \in S
  <2>1. \A i \in 1..(n + 1) : line[i] \notin S => i \in 1..n
    BY <1>1
  <2>2. m \in [1..Len(t) -> 1..(n + 1)]
    BY DEF Picks
  <2> QED BY <1>1, <2>1, <2>2 DEF Picks
<1>2. CASE line[n + 1] \notin S
  <2> DEFINE x == line[n + 1]
             u == Append(t, x)
             h == [k \in 1..Len(u) |-> IF k = Len(t) + 1 THEN n + 1 ELSE m[k]]
  <2>0. x \in R
    BY ElementOfSeq, LenProperties
  <2>1. /\ Len(u) = Len(t) + 1
        /\ \A k \in 1..Len(t) : u[k] = t[k]
        /\ u[Len(t) + 1] = x
    BY <2>0, AppendProperties
  <2> HIDE DEF u, x
  <2>2. h \in [1..Len(u) -> 1..(n + 1)]
    BY <1>0, <2>1 DEF Picks
  <2>3. \A j, k \in 1..Len(u) : j < k => h[j] < h[k]
    <3> SUFFICES ASSUME NEW j \in 1..Len(u), NEW k \in 1..Len(u), j < k PROVE h[j] < h[k]
      OBVIOUS
    <3>1. j \in 1..Len(t) /\ h[j] = m[j] /\ m[j] \in 1..n
      BY <1>0, <2>1 DEF Picks
    <3>2. CASE k = Len(t) + 1
      BY <1>0, <2>1, <3>1, <3>2
    <3>3. CASE k # Len(t) + 1
      <4>1. k \in 1..Len(t) /\ h[k] = m[k]
        BY <1>0, <2>1, <3>3
      <4> QED BY <3>1, <4>1 DEF Picks
    <3> QED BY <3>2, <3>3
  <2>4. \A k \in 1..Len(u) : u[k] = line[h[k]] /\ u[k] \notin S
    BY <1>0, <1>2, <2>1 DEF Picks, x
  <2>5. \A i \in 1..(n + 1) : line[i] \notin S => \E k \in 1..Len(u) : h[k] = i
    <3> SUFFICES ASSUME NEW i \in 1..(n + 1), line[i] \notin S
                 PROVE  \E k \in 1..Len(u) : h[k] = i
      OBVIOUS
    <3>1. CASE i = n + 1
      BY <3>1, <1>0, <2>1
    <3>2. CASE i # n + 1
      <4>1. PICK k \in 1..Len(t) : m[k] = i
        BY <3>2 DEF Picks
      <4>2. k \in 1..Len(u) /\ h[k] = i
        BY <1>0, <2>1, <4>1
      <4> QED BY <4>2
    <3> QED BY <3>1, <3>2
  <2>6. Picks(u, line, h, n + 1, S)
    BY <2>2, <2>3, <2>4, <2>5 DEF Picks
  <2> QED BY <1>2, <2>6 DEF u, x
<1> QED BY <1>1, <1>2

(* Without picks the rows outside S, in their order.                        *)
LEMMA WithoutPicks ==
    ASSUME NEW R, NEW line \in Seq(R), NEW S
    PROVE  /\ Without(line, S) \in Seq(R)
           /\ \E m : Picks(Without(line, S), line, m, Len(line), S)
<1>0. Len(line) \in Nat
  BY LenProperties
<1>1. PICK g : Filter(line, S, g, Len(line)) /\ Without(line, S) = g[Len(line)]
  BY <1>0, WithoutFilters
<1>2. \A i \in 0..Len(line) :
          g[i] = IF i = 0 THEN <<>>
                 ELSE IF line[i] \in S THEN g[i - 1] ELSE Append(g[i - 1], line[i])
  BY <1>1 DEF Filter
<1> DEFINE Good(i) == g[i] \in Seq(R) /\ \E m : Picks(g[i], line, m, i, S)
           N == {i \in Nat : i <= Len(line) => Good(i)}
<1>3. 0 \in N
  <2>1. Picks(<<>>, line, <<>>, 0, S)
    BY DEF Picks
  <2>2. g[0] = <<>>
    BY <1>0, <1>2
  <2>3. Good(0)
    BY <2>1, <2>2
  <2> QED BY <2>3
<1>4. ASSUME NEW i \in Nat, i \in N PROVE i + 1 \in N
  <2> SUFFICES ASSUME i + 1 <= Len(line) PROVE Good(i + 1)
    OBVIOUS
  <2>0. Good(i)
    BY <1>0, <1>4
  <2>1. PICK m : Picks(g[i], line, m, i, S)
    BY <2>0
  <2>2. g[i] \in Seq(R)
    BY <2>0
  <2>3. i \in 0..(Len(line) - 1)
    BY <1>0
  <2>4. g[i + 1] = IF line[i + 1] \in S THEN g[i] ELSE Append(g[i], line[i + 1])
    BY <1>0, <1>2
  <2>5. line[i + 1] \in R
    BY <1>0, <2>3, ElementOfSeq
  <2>6. g[i + 1] \in Seq(R)
    BY <2>2, <2>4, <2>5, AppendProperties
  <2>7. \E h : Picks(g[i + 1], line, h, i + 1, S)
    BY <2>1, <2>2, <2>3, <2>4, PickOneMore
  <2> QED BY <2>6, <2>7
<1>5. \A i \in Nat : i \in N
  <2> HIDE DEF N
  <2> QED BY <1>3, <1>4, NatSets
<1>6. Good(Len(line))
  BY <1>0, <1>5
<1> QED BY <1>1, <1>6

-----------------------------------------------------------------------------
Increasing(f, n) == \A j, k \in 1..n : j < k => f[j] < f[k]
Covers(h, b, f, a) == \A j \in 1..a : \E k \in 1..b : h[k] = f[j]
Enumeration(f, n) == n \in Nat /\ f \in [1..n -> Int] /\ Increasing(f, n)

(* An increasing enumeration preserves the order of the positions.          *)
LEMMA Monotone ==
    ASSUME NEW n \in Nat, NEW f \in [1..n -> Int], Increasing(f, n),
           NEW j \in 1..n, NEW k \in 1..n
    PROVE  /\ f[j] \in Int /\ f[k] \in Int
           /\ j < k => f[j] < f[k]
           /\ j <= k => f[j] <= f[k]
<1>1. f[j] \in Int /\ f[k] \in Int
  OBVIOUS
<1>2. j < k => f[j] < f[k]
  BY DEF Increasing
<1>3. j <= k => f[j] <= f[k]
  <2>1. CASE j = k
    BY <1>1, <2>1
  <2>2. CASE j # k
    BY <1>1, <1>2, <2>2
  <2> QED BY <2>1, <2>2
<1> QED BY <1>1, <1>2, <1>3

(* Of two increasing enumerations of one set, neither is the longer one,    *)
(* and they agree as far as the first goes.                                 *)
LEMMA SameStart ==
    ASSUME NEW a \in Nat, NEW b \in Nat, NEW f \in [1..a -> Int], NEW h \in [1..b -> Int],
           Increasing(f, a), Increasing(h, b), Covers(h, b, f, a), Covers(f, a, h, b)
    PROVE  a <= b /\ \A k \in 1..a : f[k] = h[k]
<1> DEFINE Same(n) == \A j \in 1..n : j <= a => j <= b /\ f[j] = h[j]
           N == {n \in Nat : Same(n)}
<1>3. 0 \in N
  OBVIOUS
<1>4. ASSUME NEW n \in Nat, n \in N PROVE n + 1 \in N
  <2>0. Same(n)
    BY <1>4
  <2>7. ASSUME n + 1 <= a PROVE n + 1 <= b /\ f[n + 1] = h[n + 1]
    <3>0. n + 1 \in 1..a
      BY <2>7
    <3>1. PICK k \in 1..b : h[k] = f[n + 1]
      BY <3>0 DEF Covers
    <3>2. n + 1 <= k
      <4> SUFFICES ASSUME k <= n PROVE FALSE
        OBVIOUS
      <4>1. k \in 1..a /\ k < n + 1
        BY <3>0
      <4>2. f[k] = h[k]
        BY <2>0, <4>1
      <4>3. f[k] < f[n + 1] /\ f[k] \in Int
        BY <3>0, <4>1, Monotone
      <4> QED BY <3>1, <4>2, <4>3
    <3>3. n + 1 \in 1..b
      BY <3>2
    <3>4. PICK j \in 1..a : f[j] = h[n + 1]
      BY <3>3 DEF Covers
    <3>5. n + 1 <= j
      <4> SUFFICES ASSUME j <= n PROVE FALSE
        OBVIOUS
      <4>1. j \in 1..b /\ j < n + 1
        BY <3>3
      <4>2. f[j] = h[j]
        BY <2>0, <4>1
      <4>3. h[j] < h[n + 1] /\ h[j] \in Int
        BY <3>3, <4>1, Monotone
      <4> QED BY <3>4, <4>2, <4>3
    <3>6. h[n + 1] <= h[k] /\ h[n + 1] \in Int
      BY <3>2, <3>3, Monotone
    <3>7. f[n + 1] <= f[j] /\ f[n + 1] \in Int
      BY <3>0, <3>5, Monotone
    <3>8. f[n + 1] = h[n + 1]
      BY <3>1, <3>4, <3>6, <3>7
    <3> QED BY <3>3, <3>8
  <2>8. Same(n + 1)
    <3>1. \A j \in 1..(n + 1) : j \in 1..n \/ j = n + 1
      OBVIOUS
    <3> QED BY <2>0, <2>7, <3>1
  <2> QED BY <2>8
<1>5. \A n \in Nat : n \in N
  <2> HIDE DEF N
  <2> QED BY <1>3, <1>4, NatSets
<1>6. Same(a)
  BY <1>5
<1>7. \A k \in 1..a : k <= b /\ f[k] = h[k]
  BY <1>6
<1> QED BY <1>7

(* A set of numbers has one increasing enumeration.                         *)
LEMMA SameEnumeration ==
    ASSUME NEW a, NEW b, NEW f, NEW h, Enumeration(f, a), Enumeration(h, b),
           Covers(h, b, f, a), Covers(f, a, h, b)
    PROVE  a = b /\ \A k \in 1..a : f[k] = h[k]
<1>0. /\ a \in Nat /\ f \in [1..a -> Int] /\ Increasing(f, a)
      /\ b \in Nat /\ h \in [1..b -> Int] /\ Increasing(h, b)
  BY DEF Enumeration
<1>1. a <= b /\ \A k \in 1..a : f[k] = h[k]
  BY <1>0, SameStart
<1>2. b <= a
  BY <1>0, SameStart
<1> QED BY <1>0, <1>1, <1>2
-----------------------------------------------------------------------------
(* The rows that are left, in their order.                                  *)
LEMMA WithoutType ==
    ASSUME NEW R, NEW line \in Seq(R), NEW S
    PROVE  /\ Without(line, S) \in Seq(R)
           /\ ToSet(Without(line, S)) = ToSet(line) \ S
           /\ IsInjective(line) => IsInjective(Without(line, S))
<1> DEFINE t == Without(line, S)
<1>1. t \in Seq(R) /\ Len(t) \in Nat /\ Len(line) \in Nat
  BY WithoutPicks, LenProperties
<1>2. PICK m : Picks(t, line, m, Len(line), S)
  BY WithoutPicks
<1> HIDE DEF t
<1>3. ToSet(t) = ToSet(line) \ S
  <2>1. \A k \in 1..Len(t) : t[k] \in ToSet(line) \ S
    BY <1>1, <1>2 DEF Picks, ToSet
  <2>2. \A i \in 1..Len(line) : line[i] \notin S => \E k \in 1..Len(t) : t[k] = line[i]
    BY <1>2 DEF Picks
  <2> QED BY <1>1, <2>1, <2>2 DEF ToSet
<1>4. IsInjective(line) => IsInjective(t)
  <2> SUFFICES ASSUME IsInjective(line), NEW j \in 1..Len(t), NEW k \in 1..Len(t), t[j] = t[k]
               PROVE  j = k
    BY <1>1 DEF IsInjective
  <2>1. line[m[j]] = line[m[k]] /\ m[j] \in 1..Len(line) /\ m[k] \in 1..Len(line)
    BY <1>2 DEF Picks
  <2>2. m[j] = m[k]
    BY <2>1 DEF IsInjective
  <2> QED BY <1>1, <1>2, <2>2 DEF Picks
<1> QED BY <1>1, <1>3, <1>4 DEF t

(* Whoever is left stands in the line where k rows before him left.         *)
LEMMA WithoutFirst ==
    ASSUME NEW R, NEW line \in Seq(R), NEW S, NEW k \in 0..Len(line),
           \A i \in 1..Len(line) : line[i] \in S <=> i <= k
    PROVE  Without(line, S) = SubSeq(line, k + 1, Len(line))
<1> DEFINE t == Without(line, S)
           u == SubSeq(line, k + 1, Len(line))
<1>1. t \in Seq(R) /\ Len(t) \in Nat /\ Len(line) \in Nat
  BY WithoutPicks, LenProperties
<1>2. PICK m : Picks(t, line, m, Len(line), S)
  BY WithoutPicks
<1>3. /\ u \in Seq(R)
      /\ Len(u) = Len(line) - k
      /\ \A i \in 1..(Len(line) - k) : u[i] = line[k + i]
  <2>1. \A i \in (k + 1)..Len(line) : line[i] \in R
    BY <1>1, ElementOfSeq
  <2>2. /\ u \in Seq(R)
        /\ Len(u) = IF k + 1 <= Len(line) THEN Len(line) - (k + 1) + 1 ELSE 0
        /\ \A i \in 1..(Len(line) - (k + 1) + 1) : u[i] = line[k + 1 + i - 1]
    BY <1>1, <2>1, SubSeqProperties
  <2> QED BY <1>1, <2>2
<1> DEFINE h == [i \in 1..(Len(line) - k) |-> k + i]
<1> HIDE DEF t, u
<1>4. Len(t) = Len(line) - k /\ \A i \in 1..Len(t) : m[i] = h[i]
  <2>1. m \in [1..Len(t) -> Int] /\ Increasing(m, Len(t))
    BY <1>1, <1>2 DEF Picks, Increasing
  <2>2. h \in [1..(Len(line) - k) -> Int] /\ Increasing(h, Len(line) - k)
    BY <1>1 DEF Increasing
  <2>3. \A j \in 1..Len(t) : \E i \in 1..(Len(line) - k) : h[i] = m[j]
    <3> SUFFICES ASSUME NEW j \in 1..Len(t) PROVE \E i \in 1..(Len(line) - k) : h[i] = m[j]
      OBVIOUS
    <3>1. m[j] \in 1..Len(line) /\ ~(m[j] <= k)
      BY <1>2 DEF Picks
    <3>2. m[j] - k \in 1..(Len(line) - k) /\ h[m[j] - k] = m[j]
      BY <1>1, <3>1
    <3> QED BY <3>2
  <2>4. \A i \in 1..(Len(line) - k) : \E j \in 1..Len(t) : m[j] = h[i]
    BY <1>1, <1>2 DEF Picks
  <2>5. Len(line) - k \in Nat
    BY <1>1
  <2> HIDE DEF h
  <2> DEFINE n == Len(line) - k
  <2>6. n \in Nat /\ h \in [1..n -> Int] /\ Increasing(h, n)
    BY <2>2, <2>5
  <2>7. Covers(h, n, m, Len(t)) /\ Covers(m, Len(t), h, n)
    BY <2>3, <2>4 DEF Covers
  <2>8. Enumeration(m, Len(t)) /\ Enumeration(h, n)
    BY <1>1, <2>1, <2>6 DEF Enumeration
  <2> HIDE DEF n
  <2>9. Len(t) = n /\ \A i \in 1..Len(t) : m[i] = h[i]
    BY <2>7, <2>8, SameEnumeration
  <2> QED BY <2>9 DEF n
<1>5. \A i \in 1..Len(t) : t[i] = u[i]
  <2> SUFFICES ASSUME NEW i \in 1..Len(t) PROVE t[i] = u[i]
    OBVIOUS
  <2>1. t[i] = line[m[i]]
    BY <1>2 DEF Picks
  <2>2. m[i] = k + i /\ u[i] = line[k + i]
    BY <1>3, <1>4
  <2> QED BY <2>1, <2>2
<1> QED BY <1>1, <1>3, <1>4, <1>5, SeqEqual DEF t, u

(* Nobody leaves when none of those that leave is in the line.              *)
LEMMA WithoutNone ==
    ASSUME NEW R, NEW line \in Seq(R), NEW S, ToSet(line) \cap S = {}
    PROVE  Without(line, S) = line
<1>1. Len(line) \in Nat
  BY LenProperties
<1>2. \A i \in 1..Len(line) : line[i] \in S <=> i <= 0
  BY <1>1 DEF ToSet
<1>3. Without(line, S) = SubSeq(line, 1, Len(line))
  BY <1>1, <1>2, WithoutFirst
<1> QED BY <1>3, SubSeqFull
-----------------------------------------------------------------------------
(* The other things that happen to a line: a row joins it at the end or at  *)
(* the front, and the first leaves it.                                      *)
LEMMA JoinLine ==
    ASSUME NEW R, NEW line \in Seq(R), NEW r \in R
    PROVE  /\ Append(line, r) \in Seq(R)
           /\ ToSet(Append(line, r)) = ToSet(line) \cup {r}
           /\ IsInjective(line) /\ r \notin ToSet(line) => IsInjective(Append(line, r))
<1> DEFINE t == Append(line, r)
<1>1. /\ t \in Seq(R) /\ Len(t) = Len(line) + 1 /\ Len(line) \in Nat
      /\ \A i \in 1..Len(line) : t[i] = line[i]
      /\ t[Len(line) + 1] = r
      /\ DOMAIN t = 1..Len(t) /\ DOMAIN line = 1..Len(line)
  BY AppendProperties, LenProperties
<1> HIDE DEF t
<1>2. ToSet(t) = ToSet(line) \cup {r}
  <2>1. \A i \in 1..Len(t) : t[i] \in ToSet(line) \cup {r}
    BY <1>1 DEF ToSet
  <2>2. \A i \in 1..Len(line) : i \in 1..Len(t) /\ t[i] = line[i]
    BY <1>1
  <2>3. Len(line) + 1 \in 1..Len(t)
    BY <1>1
  <2> QED BY <1>1, <2>1, <2>2, <2>3 DEF ToSet
<1>3. IsInjective(line) /\ r \notin ToSet(line) => IsInjective(t)
  BY <1>1 DEF IsInjective, ToSet
<1> QED BY <1>1, <1>2, <1>3 DEF t

(* A row that goes back to the front.                                       *)
LEMMA RejoinLine ==
    ASSUME NEW R, NEW line \in Seq(R), NEW r \in R
    PROVE  /\ <<r>> \o line \in Seq(R)
           /\ Len(<<r>> \o line) = Len(line) + 1
           /\ (<<r>> \o line)[1] = r
           /\ \A i \in 2..(Len(line) + 1) : (<<r>> \o line)[i] = line[i - 1]
           /\ ToSet(<<r>> \o line) = ToSet(line) \cup {r}
           /\ IsInjective(line) /\ r \notin ToSet(line) => IsInjective(<<r>> \o line)
<1> DEFINE t == <<r>> \o line
<1>0. <<r>> \in Seq(R) /\ Len(<<r>>) = 1 /\ <<r>>[1] = r
  OBVIOUS
<1>1. /\ t \in Seq(R) /\ Len(t) = Len(<<r>>) + Len(line)
      /\ \A i \in 1..(Len(<<r>>) + Len(line)) :
            t[i] = IF i <= Len(<<r>>) THEN <<r>>[i] ELSE line[i - Len(<<r>>)]
  BY <1>0, ConcatProperties
<1>2. Len(line) \in Nat /\ DOMAIN line = 1..Len(line) /\ DOMAIN t = 1..Len(t)
  BY <1>1, LenProperties
<1> HIDE DEF t
<1>3. /\ Len(t) = Len(line) + 1 /\ t[1] = r
      /\ \A i \in 2..(Len(line) + 1) : t[i] = line[i - 1]
  BY <1>0, <1>1, <1>2
<1>4. ToSet(t) = ToSet(line) \cup {r}
  <2>1. \A i \in 1..Len(t) : i = 1 \/ (i \in 2..(Len(line) + 1) /\ i - 1 \in 1..Len(line))
    BY <1>2, <1>3
  <2>2. \A i \in 1..Len(t) : t[i] \in ToSet(line) \cup {r}
    BY <1>2, <1>3, <2>1 DEF ToSet
  <2>3. \A i \in 1..Len(line) : i + 1 \in 2..(Len(line) + 1) /\ t[i + 1] = line[i]
    BY <1>2, <1>3
  <2>4. \A i \in 2..(Len(line) + 1) : i \in 1..Len(t)
    BY <1>2, <1>3
  <2>5. \A i \in 1..Len(line) : line[i] \in ToSet(t)
    BY <1>2, <2>3, <2>4 DEF ToSet
  <2>6. r \in ToSet(t)
    BY <1>2, <1>3 DEF ToSet
  <2> QED BY <1>2, <2>2, <2>5, <2>6 DEF ToSet
<1>5. IsInjective(line) /\ r \notin ToSet(line) => IsInjective(t)
  <2> SUFFICES ASSUME IsInjective(line), r \notin ToSet(line),
                      NEW i \in 1..Len(t), NEW j \in 1..Len(t), t[i] = t[j]
               PROVE  i = j
    BY <1>2 DEF IsInjective
  <2>1. \A k \in 1..Len(t) : k # 1 => k - 1 \in 1..Len(line) /\ t[k] = line[k - 1]
    BY <1>2, <1>3
  <2>2. \A k \in 1..Len(t) : k # 1 => t[k] # r
    BY <1>2, <2>1 DEF ToSet
  <2>3. CASE i # 1 /\ j # 1
    BY <1>2, <2>1, <2>3 DEF IsInjective
  <2> QED BY <1>3, <2>2, <2>3
<1> QED BY <1>1, <1>3, <1>4, <1>5 DEF t

(* The first row, and the line behind it.                                   *)
LEMMA LeaveLine ==
    ASSUME NEW R, NEW line \in Seq(R), line # <<>>
    PROVE  /\ Head(line) = line[1] /\ Head(line) \in ToSet(line) /\ Head(line) \in R
           /\ Tail(line) \in Seq(R)
           /\ IsInjective(line) => /\ IsInjective(Tail(line))
                                   /\ ToSet(Tail(line)) = ToSet(line) \ {Head(line)}
<1> DEFINE t == Tail(line)
<1>1. /\ t \in Seq(R) /\ Len(t) = Len(line) - 1 /\ Head(line) \in R
      /\ \A i \in 1..Len(t) : t[i] = line[i + 1]
  BY HeadTailProperties
<1>2. /\ Len(line) \in Nat \ {0}
      /\ DOMAIN line = 1..Len(line) /\ DOMAIN t = 1..Len(t)
  BY <1>1, LenProperties, EmptySeq
<1>3. Head(line) = line[1]
  OBVIOUS
<1> HIDE DEF t
<1>4. Head(line) \in ToSet(line)
  BY <1>2, <1>3 DEF ToSet
<1>5. ASSUME IsInjective(line)
      PROVE  IsInjective(t) /\ ToSet(t) = ToSet(line) \ {Head(line)}
  <2>1. \A i \in 1..Len(t) : i + 1 \in 1..Len(line) /\ t[i] = line[i + 1] /\ i + 1 # 1
    BY <1>1, <1>2
  <2>2. IsInjective(t)
    <3> SUFFICES ASSUME NEW i \in 1..Len(t), NEW j \in 1..Len(t), t[i] = t[j] PROVE i = j
      BY <1>2 DEF IsInjective
    <3>1. i + 1 = j + 1
      BY <1>2, <1>5, <2>1 DEF IsInjective
    <3> QED BY <3>1
  <2>3. \A i \in 1..Len(t) : t[i] \in ToSet(line) \ {Head(line)}
    BY <1>2, <1>3, <1>5, <2>1 DEF ToSet, IsInjective
  <2>4. \A i \in 1..Len(line) : i # 1 => i - 1 \in 1..Len(t) /\ t[i - 1] = line[i]
    BY <1>1, <1>2
  <2>5. \A i \in 1..Len(line) : line[i] # Head(line) => line[i] \in ToSet(t)
    BY <1>2, <1>3, <2>4 DEF ToSet
  <2>6. ToSet(line) \ {Head(line)} \subseteq ToSet(t)
    BY <1>2, <2>5 DEF ToSet
  <2>7. ToSet(t) \subseteq ToSet(line) \ {Head(line)}
    BY <1>2, <2>3 DEF ToSet
  <2> QED BY <2>2, <2>6, <2>7
<1> QED BY <1>1, <1>3, <1>4, <1>5 DEF t

(* The empty line, and when a line is empty.                                *)
LEMMA EmptyLine ==
    ASSUME NEW R
    PROVE  /\ <<>> \in Seq(R) /\ ToSet(<<>>) = {} /\ IsInjective(<<>>)
           /\ \A line \in Seq(R) : ToSet(line) = {} => line = <<>>
<1>1. /\ <<>> \in Seq(R) /\ Len(<<>>) = 0
      /\ \A line \in Seq(R) : line # <<>> => Len(line) \in Nat \ {0}
  BY EmptySeq
<1>2. ToSet(<<>>) = {} /\ IsInjective(<<>>)
  BY DEF ToSet, IsInjective
<1>3. ASSUME NEW line \in Seq(R), line # <<>> PROVE ToSet(line) # {}
  <2>1. 1 \in DOMAIN line
    BY <1>1, <1>3, LenProperties
  <2> QED BY <2>1 DEF ToSet
<1> QED BY <1>1, <1>2, <1>3

-----------------------------------------------------------------------------
(***************************************************************************)
(* Who stands ahead of whom.                                               *)
(***************************************************************************)
Ahead(line, p, q) == \E i, j \in 1..Len(line) : i < j /\ line[i] = p /\ line[j] = q

(* Two selections of the same rows of a line are the same line.             *)
LEMMA OnePick ==
    ASSUME NEW R, NEW line, NEW S, NEW n \in Nat, NEW t \in Seq(R), NEW u \in Seq(R),
           NEW m, NEW h, Picks(t, line, m, n, S), Picks(u, line, h, n, S)
    PROVE  t = u
<1>1. Len(t) \in Nat /\ Len(u) \in Nat
  BY LenProperties
<1>2. /\ m \in [1..Len(t) -> Int] /\ Increasing(m, Len(t))
      /\ h \in [1..Len(u) -> Int] /\ Increasing(h, Len(u))
  BY <1>1 DEF Picks, Increasing
<1>3. Covers(h, Len(u), m, Len(t))
  BY DEF Covers, Picks
<1>4. Covers(m, Len(t), h, Len(u))
  BY DEF Covers, Picks
<1>5. Len(t) = Len(u) /\ \A k \in 1..Len(t) : m[k] = h[k]
  <2>1. Enumeration(m, Len(t)) /\ Enumeration(h, Len(u))
    BY <1>1, <1>2 DEF Enumeration
  <2> QED BY <1>3, <1>4, <2>1, SameEnumeration
<1>6. \A k \in 1..Len(t) : t[k] = u[k]
  BY <1>5 DEF Picks
<1> QED BY <1>5, <1>6, SeqEqual

(* Leaving twice is leaving at once.                                        *)
LEMMA WithoutTwice ==
    ASSUME NEW R, NEW line \in Seq(R), NEW S, NEW T
    PROVE  Without(Without(line, S), T) = Without(line, S \cup T)
<1> DEFINE t == Without(line, S)
           u == Without(t, T)
           v == Without(line, S \cup T)
           n == Len(line)
<1>1. t \in Seq(R) /\ n \in Nat
  BY WithoutPicks, LenProperties
<1>2. u \in Seq(R) /\ v \in Seq(R)
  BY <1>1, WithoutPicks
<1>3. PICK f : Picks(t, line, f, n, S)
  BY WithoutPicks
<1>4. PICK g : Picks(u, t, g, Len(t), T)
  BY <1>1, WithoutPicks
<1>5. PICK w : Picks(v, line, w, n, S \cup T)
  BY WithoutPicks
<1>6. Len(t) \in Nat /\ Len(u) \in Nat
  BY <1>1, <1>2, LenProperties
<1> HIDE DEF t, u, v, n
<1> DEFINE h == [k \in 1..Len(u) |-> f[g[k]]]
<1>7. \A k \in 1..Len(u) : g[k] \in 1..Len(t) /\ h[k] \in 1..n
  BY <1>3, <1>4 DEF Picks
<1>8. Picks(u, line, h, n, S \cup T)
  <2>1. h \in [1..Len(u) -> 1..n]
    BY <1>7
  <2>2. \A j, k \in 1..Len(u) : j < k => h[j] < h[k]
    BY <1>3, <1>4, <1>7 DEF Picks
  <2>3. \A k \in 1..Len(u) : u[k] = line[h[k]] /\ u[k] \notin S \cup T
    BY <1>3, <1>4, <1>7 DEF Picks
  <2>4. ASSUME NEW i \in 1..n, line[i] \notin S \cup T
        PROVE  \E k \in 1..Len(u) : h[k] = i
    <3>1. PICK j \in 1..Len(t) : f[j] = i
      BY <1>3, <2>4 DEF Picks
    <3>2. t[j] \notin T
      BY <1>3, <2>4, <3>1 DEF Picks
    <3>3. PICK k \in 1..Len(u) : g[k] = j
      BY <1>4, <3>2 DEF Picks
    <3> QED BY <3>1, <3>3
  <2> QED BY <2>1, <2>2, <2>3, <2>4 DEF Picks
<1>9. u = v
  BY <1>1, <1>2, <1>5, <1>8, OnePick
<1> QED BY <1>9 DEF t, u, v

(* Those who are left stay in their order.                                  *)
LEMMA AheadWithout ==
    ASSUME NEW R, NEW line \in Seq(R), NEW S, NEW p, NEW q, Ahead(Without(line, S), p, q)
    PROVE  Ahead(line, p, q)
<1> DEFINE t == Without(line, S)
<1>1. PICK m : Picks(t, line, m, Len(line), S)
  BY WithoutPicks
<1>2. PICK i \in 1..Len(t), j \in 1..Len(t) : i < j /\ t[i] = p /\ t[j] = q
  BY DEF Ahead
<1> HIDE DEF t
<1>3. /\ m[i] \in 1..Len(line) /\ m[j] \in 1..Len(line) /\ m[i] < m[j]
      /\ line[m[i]] = p /\ line[m[j]] = q
  BY <1>1, <1>2 DEF Picks
<1> QED BY <1>3 DEF Ahead

(* A row that joins stands behind everybody.                                *)
LEMMA AheadJoin ==
    ASSUME NEW R, NEW line \in Seq(R), NEW r \in R, NEW p, NEW q, Ahead(Append(line, r), p, q)
    PROVE  Ahead(line, p, q) \/ (p \in ToSet(line) /\ q = r)
<1> DEFINE t == Append(line, r)
<1>1. /\ t \in Seq(R) /\ Len(t) = Len(line) + 1 /\ Len(line) \in Nat
      /\ \A i \in 1..Len(line) : t[i] = line[i]
      /\ t[Len(line) + 1] = r /\ DOMAIN line = 1..Len(line)
  BY AppendProperties, LenProperties
<1>2. PICK i \in 1..Len(t), j \in 1..Len(t) : i < j /\ t[i] = p /\ t[j] = q
  BY DEF Ahead
<1> HIDE DEF t
<1>3. i \in 1..Len(line) /\ line[i] = p /\ p \in ToSet(line)
  BY <1>1, <1>2 DEF ToSet
<1>4. CASE j \in 1..Len(line)
  BY <1>1, <1>2, <1>3, <1>4 DEF Ahead
<1>5. CASE j \notin 1..Len(line)
  BY <1>1, <1>2, <1>3, <1>5
<1> QED BY <1>4, <1>5

(* A row that comes back to the front stands ahead of everybody.            *)
LEMMA AheadRejoin ==
    ASSUME NEW R, NEW line \in Seq(R), NEW r \in R, NEW p, NEW q, Ahead(<<r>> \o line, p, q)
    PROVE  Ahead(line, p, q) \/ (p = r /\ q \in ToSet(line))
<1> DEFINE t == <<r>> \o line
<1>1. /\ Len(t) = Len(line) + 1 /\ Len(line) \in Nat /\ t[1] = r
      /\ \A i \in 2..(Len(line) + 1) : t[i] = line[i - 1]
      /\ DOMAIN line = 1..Len(line)
  BY RejoinLine, LenProperties
<1>2. PICK i \in 1..Len(t), j \in 1..Len(t) : i < j /\ t[i] = p /\ t[j] = q
  BY DEF Ahead
<1> HIDE DEF t
<1>3. j - 1 \in 1..Len(line) /\ line[j - 1] = q /\ q \in ToSet(line)
  BY <1>1, <1>2 DEF ToSet
<1>4. CASE i = 1
  BY <1>1, <1>2, <1>3, <1>4
<1>5. CASE i # 1
  <2>1. i - 1 \in 1..Len(line) /\ line[i - 1] = p /\ i - 1 < j - 1
    BY <1>1, <1>2, <1>5
  <2> QED BY <1>3, <2>1 DEF Ahead
<1> QED BY <1>4, <1>5

(* The first row stands ahead of the rest, and the rest stay in order.      *)
LEMMA AheadLeave ==
    ASSUME NEW R, NEW line \in Seq(R), line # <<>>
    PROVE  /\ \A p, q : Ahead(Tail(line), p, q) => Ahead(line, p, q)
           /\ \A q \in ToSet(Tail(line)) : Ahead(line, Head(line), q)
<1> DEFINE t == Tail(line)
<1>1. /\ t \in Seq(R) /\ Len(t) = Len(line) - 1
      /\ \A i \in 1..Len(t) : t[i] = line[i + 1]
  BY HeadTailProperties
<1>2. /\ Len(line) \in Nat \ {0} /\ DOMAIN t = 1..Len(t)
  BY <1>1, LenProperties, EmptySeq
<1>3. Head(line) = line[1]
  OBVIOUS
<1> HIDE DEF t
<1>4. ASSUME NEW p, NEW q, Ahead(t, p, q) PROVE Ahead(line, p, q)
  <2>1. PICK i \in 1..Len(t), j \in 1..Len(t) : i < j /\ t[i] = p /\ t[j] = q
    BY <1>4 DEF Ahead
  <2>2. /\ i + 1 \in 1..Len(line) /\ j + 1 \in 1..Len(line) /\ i + 1 < j + 1
        /\ line[i + 1] = p /\ line[j + 1] = q
    BY <1>1, <1>2, <2>1
  <2> QED BY <2>2 DEF Ahead
<1>5. ASSUME NEW q \in ToSet(t) PROVE Ahead(line, Head(line), q)
  <2>1. PICK j \in 1..Len(t) : t[j] = q
    BY <1>2 DEF ToSet
  <2>2. 1 \in 1..Len(line) /\ j + 1 \in 1..Len(line) /\ 1 < j + 1 /\ line[j + 1] = q
    BY <1>1, <1>2, <2>1
  <2> QED BY <1>3, <2>2 DEF Ahead
<1> QED BY <1>4, <1>5 DEF t

(* The last row stands behind the others.                                   *)
LEMMA AheadLast ==
    ASSUME NEW R, NEW line \in Seq(R), line # <<>>
    PROVE  /\ Last(line) \in ToSet(line)
           /\ \A p \in ToSet(line) : p # Last(line) => Ahead(line, p, Last(line))
<1>1. Len(line) \in Nat \ {0} /\ DOMAIN line = 1..Len(line) /\ Last(line) = line[Len(line)]
  BY LenProperties, EmptySeq DEF Last
<1>2. Last(line) \in ToSet(line)
  BY <1>1 DEF ToSet
<1>3. ASSUME NEW p \in ToSet(line), p # Last(line) PROVE Ahead(line, p, Last(line))
  <2>1. PICK i \in 1..Len(line) : line[i] = p
    BY <1>1 DEF ToSet
  <2>2. i < Len(line) /\ Len(line) \in 1..Len(line)
    BY <1>1, <1>3, <2>1
  <2> QED BY <1>1, <2>1, <2>2 DEF Ahead
<1> QED BY <1>2, <1>3

(* Rows that never stand behind a row of the others are the first k.        *)
LEMMA FirstRows ==
    ASSUME NEW R, NEW line \in Seq(R), NEW S,
           \A p, q : Ahead(line, p, q) /\ q \in S => p \in S
    PROVE  \E k \in 0..Len(line) : \A i \in 1..Len(line) : line[i] \in S <=> i <= k
<1>0. Len(line) \in Nat
  BY LenProperties
<1> DEFINE T == {i \in 1..Len(line) : line[i] \notin S}
<1>1. CASE T = {}
  <2>1. Len(line) \in 0..Len(line) /\ \A i \in 1..Len(line) : line[i] \in S <=> i <= Len(line)
    BY <1>0, <1>1
  <2> QED BY <2>1
<1>2. CASE T # {}
  <2>1. T \subseteq Nat
    BY <1>0
  <2>2. PICK x \in T : \A y \in T : ~(<<y, x>> \in OpToRel(<, Nat))
    BY <1>2, <2>1, WFMin, NatLessThanWellFounded
  <2>3. x \in 1..Len(line) /\ line[x] \notin S /\ \A y \in T : ~(y < x)
    BY <2>1, <2>2 DEF OpToRel
  <2>4. \A i \in 1..Len(line) : i < x => line[i] \in S
    BY <2>3
  <2>5. \A i \in 1..Len(line) : x < i => line[i] \notin S
    <3> SUFFICES ASSUME NEW i \in 1..Len(line), x < i, line[i] \in S PROVE FALSE
      OBVIOUS
    <3>1. Ahead(line, line[x], line[i])
      BY <2>3 DEF Ahead
    <3> QED BY <2>3, <3>1
  <2>6. x - 1 \in 0..Len(line) /\ \A i \in 1..Len(line) : line[i] \in S <=> i <= x - 1
    <3> HIDE DEF T
    <3>1. x - 1 \in 0..Len(line)
      BY <1>0, <2>3
    <3>2. \A i \in 1..Len(line) : i < x \/ i = x \/ x < i
      BY <2>3
    <3> QED BY <1>0, <2>3, <2>4, <2>5, <3>1, <3>2
  <2> QED BY <2>6
<1> QED BY <1>1, <1>2

(* The first row that is left when the first k rows of a line are gone.     *)
LEMMA NextInLine ==
    ASSUME NEW R, NEW line \in Seq(R), NEW k \in 0..Len(line), NEW left,
           left = SubSeq(line, k + 1, Len(line))
    PROVE  /\ left = <<>> => k = Len(line)
           /\ left # <<>> => /\ k + 1 \in 1..Len(line) /\ Head(left) = line[k + 1]
                             /\ Tail(left) = SubSeq(line, k + 2, Len(line))
<1>0. Len(line) \in Nat /\ \A i \in 1..Len(line) : line[i] \in R
  BY LenProperties, ElementOfSeq
<1>1. /\ left \in Seq(R) /\ Len(left) = Len(line) - k
      /\ \A i \in 1..(Len(line) - k) : left[i] = line[k + i]
  <2>1. \A i \in (k + 1)..Len(line) : line[i] \in R
    BY <1>0
  <2>2. /\ left \in Seq(R)
        /\ Len(left) = IF k + 1 <= Len(line) THEN Len(line) - (k + 1) + 1 ELSE 0
        /\ \A i \in 1..(Len(line) - (k + 1) + 1) : left[i] = line[k + 1 + i - 1]
    BY <1>0, <2>1, SubSeqProperties
  <2> QED BY <1>0, <2>2
<1>2. left = <<>> => k = Len(line)
  <2>1. left = <<>> => Len(left) = 0
    BY EmptySeq
  <2> QED BY <1>0, <1>1, <2>1
<1>3. ASSUME left # <<>>
      PROVE  /\ k + 1 \in 1..Len(line) /\ Head(left) = line[k + 1]
             /\ Tail(left) = SubSeq(line, k + 2, Len(line))
  <2> DEFINE t == Tail(left)
             u == SubSeq(line, k + 2, Len(line))
  <2>1. k + 1 \in 1..Len(line)
    BY <1>0, <1>1, <1>3, EmptySeq
  <2>2. Head(left) = line[k + 1]
    <3>1. 1 \in 1..(Len(line) - k) /\ Head(left) = left[1]
      BY <1>0, <2>1
    <3> QED BY <1>1, <3>1
  <2>3. /\ t \in Seq(R) /\ Len(t) = Len(left) - 1
        /\ \A i \in 1..Len(t) : t[i] = left[i + 1]
    BY <1>1, <1>3, HeadTailProperties
  <2>4. /\ u \in Seq(R) /\ Len(u) = Len(line) - k - 1
        /\ \A i \in 1..(Len(line) - k - 1) : u[i] = line[k + 1 + i]
    <3>1. \A i \in (k + 2)..Len(line) : line[i] \in R
      BY <1>0
    <3>2. /\ u \in Seq(R)
          /\ Len(u) = IF k + 2 <= Len(line) THEN Len(line) - (k + 2) + 1 ELSE 0
          /\ \A i \in 1..(Len(line) - (k + 2) + 1) : u[i] = line[k + 2 + i - 1]
      BY <1>0, <2>1, <3>1, SubSeqProperties
    <3> QED BY <1>0, <2>1, <3>2
  <2> HIDE DEF t, u
  <2>5. \A i \in 1..Len(t) : t[i] = u[i]
    <3> SUFFICES ASSUME NEW i \in 1..Len(t) PROVE t[i] = u[i]
      OBVIOUS
    <3>1. i \in 1..(Len(line) - k - 1) /\ i + 1 \in 1..(Len(line) - k)
      BY <1>0, <1>1, <2>3
    <3>2. t[i] = line[k + (i + 1)] /\ u[i] = line[k + 1 + i]
      BY <1>1, <2>3, <2>4, <3>1
    <3> QED BY <3>1, <3>2
  <2>6. t = u
    BY <1>0, <1>1, <2>3, <2>4, <2>5, SeqEqual
  <2> QED BY <2>1, <2>2, <2>6 DEF t, u
<1> QED BY <1>2, <1>3

-----------------------------------------------------------------------------
(***************************************************************************)
(* Lines that are kept in the order of a score.                            *)
(***************************************************************************)
ByScore(line, S, score) ==
    /\ line \in Seq(S) /\ ToSet(line) = S
    /\ \A r \in S : score[r] \in Int
    /\ \A i, j \in 1..Len(line) : i < j => score[line[i]] < score[line[j]]

(* A line by score has everybody once: it counts them.                      *)
LEMMA ByScoreCounts ==
    ASSUME NEW S, NEW score, NEW line, ByScore(line, S, score)
    PROVE  /\ Len(line) \in Nat /\ line \in [1..Len(line) -> S]
           /\ IsInjective(line) /\ IsFiniteSet(S) /\ Cardinality(S) = Len(line)
<1>1. /\ Len(line) \in Nat /\ line \in [1..Len(line) -> S]
      /\ DOMAIN line = 1..Len(line)
  BY LenProperties DEF ByScore
<1>2. ASSUME NEW i \in 1..Len(line), NEW j \in 1..Len(line), line[i] = line[j]
      PROVE  i = j
  <2>1. line[i] \in S /\ score[line[i]] \in Int
    BY <1>1 DEF ByScore
  <2>2. ~(i < j) /\ ~(j < i)
    BY <1>2, <2>1 DEF ByScore
  <2> QED BY <1>1, <2>2
<1>3. IsInjective(line)
  BY <1>1, <1>2 DEF IsInjective
<1>4. \A r \in S : \E i \in 1..Len(line) : line[i] = r
  BY <1>1 DEF ByScore, ToSet
<1>5. line \in Bijection(1..Len(line), S)
  BY <1>1, <1>3, <1>4 DEF Bijection, Injection, Surjection
<1>6. ExistsBijection(1..Len(line), S)
  BY <1>5 DEF ExistsBijection
<1>7. Cardinality(S) = Len(line)
  BY <1>1, <1>6, FS_CountingElements
<1>8. IsFiniteSet(S)
  BY <1>1, <1>6, FS_NatBijection
<1> QED BY <1>1, <1>3, <1>7, <1>8

(* There is one line by score.                                              *)
LEMMA ArrangedIs ==
    ASSUME NEW S, NEW score, NEW line, ByScore(line, S, score)
    PROVE  Arranged(S, score) = line
<1> DEFINE n == Len(line)
           c == Arranged(S, score)
<1>1. /\ n \in Nat /\ line \in [1..n -> S] /\ IsInjective(line)
      /\ IsFiniteSet(S) /\ Cardinality(S) = n
  BY ByScoreCounts
<1>2. \A i, j \in 1..n : i < j => score[line[i]] < score[line[j]]
  BY DEF ByScore
<1>3. c \in [1..n -> S] /\ \A i, j \in 1..n : i < j => score[c[i]] < score[c[j]]
  BY <1>1, <1>2 DEF Arranged
<1> HIDE DEF n, c
<1> DEFINE f == [i \in 1..n |-> score[line[i]]]
           h == [i \in 1..n |-> score[c[i]]]
<1>4. \A r \in S : score[r] \in Int
  BY DEF ByScore
<1>5. f \in [1..n -> Int] /\ h \in [1..n -> Int]
  BY <1>1, <1>3, <1>4
<1>6. Increasing(f, n) /\ Increasing(h, n)
  BY <1>2, <1>3 DEF Increasing
<1>7. \A r \in S : \E i \in 1..n : line[i] = r
  BY LenProperties DEF ByScore, ToSet, n
<1>8. \A r \in S : \E i \in 1..n : c[i] = r
  <2>1. c \in Injection(1..n, S)
    <3>1. ASSUME NEW i \in 1..n, NEW j \in 1..n, c[i] = c[j] PROVE i = j
      <4>1. score[c[i]] \in Int
        BY <1>3, <1>4
      <4>2. ~(i < j) /\ ~(j < i)
        BY <1>3, <3>1, <4>1
      <4> QED BY <1>1, <4>2
    <3> QED BY <1>3, <3>1 DEF Injection, IsInjective
  <2>2. Cardinality(1..n) = n
    <3>1. 1 \in Int /\ n \in Int /\ (1 <= n \/ n = 0)
      BY <1>1
    <3> QED BY <1>1, <3>1, FS_Interval
  <2>3. c \in Surjection(1..n, S)
    BY <1>1, <2>1, <2>2, FS_Injection
  <2> QED BY <2>3 DEF Surjection
<1>9. Covers(h, n, f, n)
  BY <1>1, <1>8 DEF Covers
<1>10. Covers(f, n, h, n)
  BY <1>3, <1>7 DEF Covers
<1>11. Enumeration(f, n) /\ Enumeration(h, n)
  BY <1>1, <1>5, <1>6 DEF Enumeration
<1> HIDE DEF f, h
<1>12. \A k \in 1..n : f[k] = h[k]
  BY <1>9, <1>10, <1>11, SameEnumeration
<1>13. \A k \in 1..n : line[k] = c[k]
  <2> SUFFICES ASSUME NEW k \in 1..n PROVE line[k] = c[k]
    OBVIOUS
  <2>1. score[line[k]] = score[c[k]]
    BY <1>12 DEF f, h
  <2>2. PICK j \in 1..n : line[j] = c[k]
    BY <1>3, <1>7
  <2>3. score[line[k]] \in Int /\ score[line[j]] \in Int
    BY <1>1, <1>4
  <2>4. ~(k < j) /\ ~(j < k)
    BY <1>2, <2>1, <2>2, <2>3
  <2>5. k = j
    BY <1>1, <2>4
  <2> QED BY <2>2, <2>5
<1>14. line = c
  BY <1>1, <1>3, <1>13
<1> QED BY <1>14 DEF c

(* The line of nobody.                                                      *)
LEMMA ByScoreEmpty == ASSUME NEW score PROVE ByScore(<<>>, {}, score)
BY EmptyLine, EmptySeq DEF ByScore

(* Only the scores of those in the line matter.                             *)
LEMMA ByScoreSame ==
    ASSUME NEW S, NEW score, NEW line, ByScore(line, S, score),
           NEW other, \A r \in S : other[r] = score[r]
    PROVE  ByScore(line, S, other)
<1>1. \A i \in 1..Len(line) : line[i] \in S
  BY ByScoreCounts
<1> QED BY <1>1 DEF ByScore

(* Whoever has the largest score joins at the end.                          *)
LEMMA ByScoreJoin ==
    ASSUME NEW S, NEW score, NEW line, ByScore(line, S, score),
           NEW r, score[r] \in Int, \A q \in S : score[q] < score[r]
    PROVE  ByScore(Append(line, r), S \cup {r}, score)
<1> DEFINE T == S \cup {r}
           t == Append(line, r)
<1>1. Len(line) \in Nat /\ \A i \in 1..Len(line) : line[i] \in S
  BY ByScoreCounts
<1>2. line \in Seq(T)
  BY SeqMonotonic DEF ByScore
<1>3. t \in Seq(T) /\ ToSet(t) = T
  BY <1>2, JoinLine DEF ByScore
<1>4. /\ Len(t) = Len(line) + 1 /\ t[Len(line) + 1] = r
      /\ \A i \in 1..Len(line) : t[i] = line[i]
  BY <1>2, AppendProperties
<1> HIDE DEF t
<1>5. ASSUME NEW i \in 1..Len(t), NEW j \in 1..Len(t), i < j
      PROVE  score[t[i]] < score[t[j]]
  <2>1. i \in 1..Len(line)
    BY <1>1, <1>4, <1>5
  <2>2. CASE j \in 1..Len(line)
    BY <1>4, <1>5, <2>1, <2>2 DEF ByScore
  <2>3. CASE j \notin 1..Len(line)
    <3>1. j = Len(line) + 1
      BY <1>1, <1>4, <2>3
    <3> QED BY <1>1, <1>4, <2>1, <3>1
  <2> QED BY <2>2, <2>3
<1>6. \A q \in T : score[q] \in Int
  BY DEF ByScore
<1> QED BY <1>3, <1>5, <1>6 DEF ByScore, t

(* Whoever has the smallest score goes to the front.                        *)
LEMMA ByScoreRejoin ==
    ASSUME NEW S, NEW score, NEW line, ByScore(line, S, score),
           NEW r, score[r] \in Int, \A q \in S : score[r] < score[q]
    PROVE  ByScore(<<r>> \o line, S \cup {r}, score)
<1> DEFINE T == S \cup {r}
           t == <<r>> \o line
<1>1. Len(line) \in Nat /\ \A i \in 1..Len(line) : line[i] \in S
  BY ByScoreCounts
<1>2. line \in Seq(T)
  BY SeqMonotonic DEF ByScore
<1>3. /\ t \in Seq(T) /\ ToSet(t) = T
      /\ Len(t) = Len(line) + 1 /\ t[1] = r
      /\ \A i \in 2..(Len(line) + 1) : t[i] = line[i - 1]
  BY <1>2, RejoinLine DEF ByScore
<1> HIDE DEF t
<1>4. ASSUME NEW i \in 1..Len(t), NEW j \in 1..Len(t), i < j
      PROVE  score[t[i]] < score[t[j]]
  <2>1. j - 1 \in 1..Len(line) /\ t[j] = line[j - 1]
    BY <1>1, <1>3, <1>4
  <2>2. CASE i = 1
    BY <1>1, <1>3, <2>1, <2>2
  <2>3. CASE i # 1
    <3>1. i - 1 \in 1..Len(line) /\ t[i] = line[i - 1] /\ i - 1 < j - 1
      BY <1>1, <1>3, <1>4, <2>3
    <3> QED BY <2>1, <3>1 DEF ByScore
  <2> QED BY <2>2, <2>3
<1>5. \A q \in T : score[q] \in Int
  BY DEF ByScore
<1> QED BY <1>3, <1>4, <1>5 DEF ByScore, t

(* Those who are left are still a line by score.                            *)
LEMMA ByScoreWithout ==
    ASSUME NEW S, NEW score, NEW line, ByScore(line, S, score), NEW G
    PROVE  ByScore(Without(line, G), S \ G, score)
<1> DEFINE t == Without(line, G)
<1>1. /\ Len(line) \in Nat /\ line \in Seq(S) /\ ToSet(line) = S
      /\ \A i \in 1..Len(line) : line[i] \in S
  BY ByScoreCounts DEF ByScore
<1>2. t \in Seq(S) /\ ToSet(t) = S \ G
  BY <1>1, WithoutType
<1>3. PICK m : Picks(t, line, m, Len(line), G)
  BY <1>1, WithoutPicks
<1> HIDE DEF t
<1>4. Len(t) \in Nat /\ \A k \in 1..Len(t) : t[k] \in S \ G
  BY <1>2, LenProperties DEF ToSet
<1>5. t \in Seq(S \ G)
  <2>1. t \in [1..Len(t) -> S \ G]
    BY <1>2, <1>4, LenProperties
  <2> QED BY <1>4, <2>1, SeqDef
<1>6. ASSUME NEW i \in 1..Len(t), NEW j \in 1..Len(t), i < j
      PROVE  score[t[i]] < score[t[j]]
  <2>1. /\ m[i] \in 1..Len(line) /\ m[j] \in 1..Len(line) /\ m[i] < m[j]
        /\ t[i] = line[m[i]] /\ t[j] = line[m[j]]
    BY <1>3, <1>6 DEF Picks
  <2> QED BY <2>1 DEF ByScore
<1>7. \A r \in S \ G : score[r] \in Int
  BY DEF ByScore
<1> QED BY <1>2, <1>5, <1>6, <1>7 DEF ByScore, t

Below(S, score, r) == {q \in S : score[q] < score[r]}
UpTo(S, score, r)  == {q \in S : score[q] <= score[r]}
StandsAt(k, r, line, S, score) ==
    /\ k \in 1..Len(line) /\ line[k] = r
    /\ {line[i] : i \in 1..(k - 1)} = Below(S, score, r)
    /\ Without(line, UpTo(S, score, r)) = SubSeq(line, k + 1, Len(line))

(* Whoever has no larger score than a row of the line is the first part of  *)
(* the line, which that row ends.                                           *)
LEMMA ByScoreUpTo ==
    ASSUME NEW S, NEW score, NEW line, ByScore(line, S, score), NEW r \in S
    PROVE  \E k : StandsAt(k, r, line, S, score)
<1>1. /\ Len(line) \in Nat /\ line \in Seq(S) /\ ToSet(line) = S
      /\ DOMAIN line = 1..Len(line)
      /\ \A i \in 1..Len(line) : line[i] \in S
  BY ByScoreCounts, LenProperties DEF ByScore
<1>2. PICK k \in 1..Len(line) : line[k] = r
  BY <1>1 DEF ToSet
<1>3. \A i \in 1..Len(line) : score[line[i]] \in Int
  BY <1>1 DEF ByScore
<1>4. \A i \in 1..Len(line) : /\ i < k => score[line[i]] < score[r]
                              /\ k < i => score[r] < score[line[i]]
  BY <1>2 DEF ByScore
<1>5. \A i \in 1..Len(line) : score[line[i]] < score[r] <=> i < k
  BY <1>1, <1>2, <1>3, <1>4
<1>6. {line[i] : i \in 1..(k - 1)} = {q \in S : score[q] < score[r]}
  <2>1. \A i \in 1..(k - 1) : i \in 1..Len(line) /\ i < k
    BY <1>1
  <2>2. \A i \in 1..Len(line) : i < k => i \in 1..(k - 1)
    BY <1>1
  <2>3. \A q \in S : \E i \in 1..Len(line) : line[i] = q
    BY <1>1 DEF ToSet
  <2> QED BY <1>1, <1>5, <2>1, <2>2, <2>3
<1> DEFINE G == {q \in S : score[q] <= score[r]}
<1>7. \A i \in 1..Len(line) : line[i] \in G <=> i <= k
  <2>1. \A i \in 1..Len(line) : score[line[i]] <= score[r] <=> i <= k
    BY <1>1, <1>2, <1>3, <1>4
  <2> QED BY <1>1, <2>1
<1>8. Without(line, G) = SubSeq(line, k + 1, Len(line))
  <2>1. k \in 0..Len(line)
    BY <1>1
  <2> HIDE DEF G
  <2> QED BY <1>1, <1>7, <2>1, WithoutFirst
<1> QED BY <1>2, <1>6, <1>8 DEF Below, UpTo, StandsAt

(* Finitely many numbers have a bound.                                      *)
LEMMA NumbersBounded ==
    ASSUME NEW f, NEW n \in Nat, \A i \in 1..n : f[i] \in Nat
    PROVE  \E b \in Nat : \A i \in 1..n : f[i] <= b
<1> DEFINE D == {k \in Nat : k <= n => \E b \in Nat : \A i \in 1..k : f[i] <= b}
<1>1. 0 \in D
  <2>1. \A i \in 1..0 : f[i] <= 0
    OBVIOUS
  <2> QED BY <2>1
<1>2. ASSUME NEW k \in Nat, k \in D PROVE k + 1 \in D
  <2> SUFFICES ASSUME k + 1 <= n PROVE \E b \in Nat : \A i \in 1..(k + 1) : f[i] <= b
    OBVIOUS
  <2>1. PICK b \in Nat : \A i \in 1..k : f[i] <= b
    BY <1>2
  <2>2. f[k + 1] \in Nat
    OBVIOUS
  <2> DEFINE c == IF b <= f[k + 1] THEN f[k + 1] ELSE b
  <2>3. c \in Nat /\ b <= c /\ f[k + 1] <= c
    BY <2>2
  <2> HIDE DEF c
  <2>4. ASSUME NEW i \in 1..(k + 1) PROVE f[i] <= c
    <3>1. CASE i = k + 1
      BY <2>3, <3>1
    <3>2. CASE i # k + 1
      <4>1. i \in 1..k /\ f[i] \in Nat
        BY <3>2
      <4> QED BY <2>1, <2>3, <4>1
    <3> QED BY <3>1, <3>2
  <2> QED BY <2>3, <2>4
<1>3. \A k \in Nat : k \in D
  <2> HIDE DEF D
  <2> QED BY <1>1, <1>2, NatSets
<1> HIDE DEF D
<1>4. n \in D
  BY <1>3
<1> QED BY <1>4 DEF D

Lined(S, score) == \E line : ByScore(line, S, score)

(* Whatever set has a bounded score that tells its members apart, there is  *)
(* a line of it: those below a score are lined up, one score at a time.     *)
LEMMA ByScoreExists ==
    ASSUME NEW S, NEW score, \A r \in S : score[r] \in Nat,
           \A q, r \in S : score[q] = score[r] => q = r,
           NEW b \in Nat, \A r \in S : score[r] <= b
    PROVE  Lined(S, score)
<1> DEFINE Under(n) == {r \in S : score[r] < n}
           D == {n \in Nat : Lined(Under(n), score)}
<1>1. 0 \in D
  <2>1. Under(0) = {}
    OBVIOUS
  <2> QED BY <2>1, ByScoreEmpty DEF Lined
<1>2. ASSUME NEW n \in Nat, n \in D PROVE n + 1 \in D
  <2>1. PICK line : ByScore(line, Under(n), score)
    BY <1>2 DEF Lined
  <2>2. CASE \E r \in S : score[r] = n
    <3>1. PICK r \in S : score[r] = n
      BY <2>2
    <3>2. Under(n + 1) = Under(n) \cup {r}
      BY <3>1
    <3>3. \A q \in Under(n) : score[q] < score[r]
      BY <3>1
    <3>4. score[r] \in Int
      BY <3>1
    <3> HIDE DEF Under
    <3>5. ByScore(Append(line, r), Under(n) \cup {r}, score)
      BY <2>1, <3>3, <3>4, ByScoreJoin
    <3> QED BY <3>2, <3>5 DEF Lined
  <2>3. CASE ~\E r \in S : score[r] = n
    <3>1. Under(n + 1) = Under(n)
      BY <2>3
    <3>2. ByScore(line, Under(n + 1), score)
      BY <2>1, <3>1
    <3>3. Lined(Under(n + 1), score)
      BY <3>2 DEF Lined
    <3> QED BY <3>3
  <2> QED BY <2>2, <2>3
<1>3. \A n \in Nat : n \in D
  <2> HIDE DEF D
  <2> QED BY <1>1, <1>2, NatSets
<1>4. Under(b + 1) = S
  OBVIOUS
<1> QED BY <1>3, <1>4
-----------------------------------------------------------------------------
(* Who is served leaves the line with all before him.                       *)
LEMMA LeaveUpTo ==
    ASSUME NEW R, NEW s \in Seq(R), IsInjective(s), NEW k \in 1..Len(s)
    PROVE  LET t == SubSeq(s, k + 1, Len(s))
               gone == {s[i] : i \in 1..(k - 1)}
           IN  /\ t \in Seq(R) /\ IsInjective(t)
               /\ ToSet(t) \cup gone \subseteq ToSet(s) /\ ToSet(t) \cap gone = {}
               /\ s[k] \in ToSet(s) /\ s[k] \in R /\ s[k] \notin ToSet(t) \cup gone
<1> DEFINE t == SubSeq(s, k + 1, Len(s))
           gone == {s[i] : i \in 1..(k - 1)}
<1>0. /\ Len(s) \in Nat /\ k \in Nat /\ 1 <= k /\ k <= Len(s)
      /\ \A i \in 1..Len(s) : s[i] \in R /\ s[i] \in ToSet(s)
  BY LenProperties DEF ToSet
<1>1. \A i, j \in 1..Len(s) : s[i] = s[j] => i = j
  BY <1>0, LenProperties DEF IsInjective
<1>2. /\ t \in Seq(R) /\ Len(t) = Len(s) - k
      /\ \A i \in 1..(Len(s) - k) : t[i] = s[k + i]
  <2>1. CASE k = Len(s)
    <3>1. t = <<>> /\ Len(t) = 0
      BY <1>0, <2>1, SubSeqEmpty, EmptySeq
    <3> QED BY <1>0, <2>1, <3>1, EmptySeq
  <2>2. CASE k < Len(s)
    <3>1. k + 1 \in 1..Len(s) + 1 /\ Len(s) \in k..Len(s)
          /\ \A i \in (k + 1)..Len(s) : s[i] \in R
      BY <1>0, <2>2
    <3>2. /\ t \in Seq(R) /\ Len(t) = Len(s) - (k + 1) + 1
          /\ \A i \in 1..(Len(s) - (k + 1) + 1) : t[i] = s[(k + 1) + i - 1]
      BY <1>0, <3>1, SubSeqProperties
    <3>3. Len(s) - (k + 1) + 1 = Len(s) - k
      BY <1>0
    <3>4. ASSUME NEW i \in 1..(Len(s) - k) PROVE t[i] = s[k + i]
      <4>1. (k + 1) + i - 1 = k + i
        BY <1>0
      <4>2. t[i] = s[(k + 1) + i - 1]
        BY <3>2, <3>3
      <4> QED BY <4>1, <4>2
    <3> QED BY <3>2, <3>3, <3>4
  <2> QED BY <1>0, <2>1, <2>2
<1> HIDE DEF t
<1>3. \A i \in 1..Len(t) : k + i \in 1..Len(s) /\ k + i > k /\ t[i] = s[k + i]
  BY <1>0, <1>2
<1>4. \A i \in 1..(k - 1) : i \in 1..Len(s) /\ i < k
  BY <1>0
<1>5. DOMAIN t = 1..Len(t) /\ Len(t) \in Nat
  BY <1>2, LenProperties
<1>6. IsInjective(t)
  <2>1. ASSUME NEW i \in 1..Len(t), NEW j \in 1..Len(t), t[i] = t[j] PROVE i = j
    <3>1. k + i = k + j
      BY <1>1, <1>3, <2>1
    <3> QED BY <1>0, <1>5, <3>1
  <2> QED BY <1>5, <2>1 DEF IsInjective
<1>7. \A e \in ToSet(t) : \E i \in 1..Len(s) : i > k /\ e = s[i]
  BY <1>3, <1>5 DEF ToSet
<1>8. \A e \in gone : \E i \in 1..Len(s) : i < k /\ e = s[i]
  BY <1>4
<1> HIDE DEF gone
<1>9. /\ ToSet(t) \cup gone \subseteq ToSet(s)
  BY <1>0, <1>7, <1>8
<1>10. ASSUME NEW i \in 1..Len(s), NEW j \in 1..Len(s), i < j PROVE s[i] # s[j]
  BY <1>0, <1>1, <1>10
<1>11. ToSet(t) \cap gone = {}
  <2> SUFFICES ASSUME NEW e \in ToSet(t), e \in gone PROVE FALSE
    OBVIOUS
  <2>1. PICK i \in 1..Len(s) : i > k /\ e = s[i]
    BY <1>7
  <2>2. PICK j \in 1..Len(s) : j < k /\ e = s[j]
    BY <1>8
  <2>3. j < i
    BY <1>0, <2>1, <2>2
  <2> QED BY <1>10, <2>1, <2>2, <2>3
<1>12. s[k] \notin ToSet(t) \cup gone
  BY <1>1, <1>7, <1>8, <1>0
<1> QED BY <1>0, <1>2, <1>6, <1>9, <1>11, <1>12 DEF t, gone

(* Lines that grow at the end, and lines whose middle moves to the front.   *)
LEMMA JoinedLast ==
    ASSUME NEW R, NEW s \in Seq(R), NEW t \in Seq(R), NEW e \in R
    PROVE  s \o Append(t, e) = Append(s \o t, e)
<1>1. <<e>> \in Seq(R) /\ s \o t \in Seq(R)
  BY ConcatProperties
<1>2. Append(t, e) = t \o <<e>> /\ Append(s \o t, e) = (s \o t) \o <<e>>
  BY <1>1, AppendIsConcat
<1> QED BY <1>1, <1>2, ConcatAssociative

LEMMA HeadJoins ==
    ASSUME NEW R, NEW s \in Seq(R), NEW t \in Seq(R), t # <<>>
    PROVE  s \o t = Append(s, Head(t)) \o Tail(t)
<1>1. Head(t) \in R /\ Tail(t) \in Seq(R) /\ Len(Tail(t)) = Len(t) - 1
      /\ \A i \in 1..Len(Tail(t)) : Tail(t)[i] = t[i + 1]
  BY HeadTailProperties
<1>2. <<Head(t)>> \in Seq(R) /\ Append(s, Head(t)) = s \o <<Head(t)>>
  BY <1>1, AppendIsConcat
<1>3. t = <<Head(t)>> \o Tail(t)
  <2> DEFINE u == <<Head(t)>> \o Tail(t)
  <2>1. <<Head(t)>> \in Seq(R) /\ Len(<<Head(t)>>) = 1 /\ <<Head(t)>>[1] = Head(t)
    BY <1>1
  <2>2. Len(t) \in Nat \ {0} /\ Head(t) = t[1]
    BY EmptySeq, LenProperties
  <2>3. u \in Seq(R) /\ Len(u) = Len(t)
        /\ \A i \in 1..Len(t) : u[i] = IF i <= 1 THEN t[1] ELSE Tail(t)[i - 1]
    BY <1>1, <2>1, <2>2, ConcatProperties
  <2>4. \A i \in 1..Len(t) : u[i] = t[i]
    <3>1. ASSUME NEW i \in 1..Len(t), i > 1 PROVE Tail(t)[i - 1] = t[i]
      <4>1. i - 1 \in 1..Len(Tail(t)) /\ (i - 1) + 1 = i
        BY <1>1, <2>2, <3>1
      <4> QED BY <1>1, <4>1
    <3> QED BY <2>2, <2>3, <3>1
  <2> HIDE DEF u
  <2> QED BY <2>3, <2>4, SeqEqual DEF u
<1> QED BY <1>1, <1>2, <1>3, ConcatAssociative
=============================================================================
