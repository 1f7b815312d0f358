----------------------------- MODULE OrderFacts -----------------------------
(***************************************************************************)
(* What several proofs need: of numbers and orders, least and greatest     *)
(* elements, and that finite sets can be sorted; of day files, which       *)
(* events an append leaves safe.                                           *)
(***************************************************************************)
EXTENDS Naturals, DayFile, FiniteSetTheorems, WellFoundedInduction, TLAPS

\* A set of numbers has a smallest one ...
LEMMA Least ==
  ASSUME NEW S \in SUBSET Nat, S # {}
  PROVE  \E m \in S : \A n \in S : m <= n
<1> DEFINE R == OpToRel(<, Nat)
<1>1. \A m, n \in Nat : <<n, m>> \in R <=> n < m
  BY DEF OpToRel
<1>2. IsWellFoundedOn(R, Nat)
  BY NatLessThanWellFounded
<1> HIDE DEF R
<1>3. PICK m \in S : \A n \in S : ~(<<n, m>> \in R)
  BY <1>2, WFMin
<1>4. \A n \in S : ~(n < m) /\ n \in Nat /\ m \in Nat
  BY <1>1, <1>3
<1> QED
  BY <1>4

\* ... and a finite one a largest: the one fewest are larger than.
LEMMA Greatest ==
  ASSUME NEW S \in SUBSET Nat, S # {}, IsFiniteSet(S)
  PROVE  \E m \in S : \A n \in S : m >= n
<1> DEFINE Above(x) == {y \in S : y > x}
           Counts == {Cardinality(Above(x)) : x \in S}
<1>1. \A x \in S : IsFiniteSet(Above(x)) /\ Cardinality(Above(x)) \in Nat
  BY FS_Subset, FS_CardinalityType
<1>2. PICK m \in S : \A n \in S : Cardinality(Above(m)) <= Cardinality(Above(n))
  <2>1. Counts \in SUBSET Nat /\ Counts # {}
    BY <1>1
  <2>2. PICK c \in Counts : \A d \in Counts : c <= d
    BY <2>1, Least
  <2> QED
    BY <2>2
<1>3. ASSUME NEW n \in S, n > m
      PROVE  FALSE
  <2>1. Above(n) \in SUBSET Above(m) /\ n \in Above(m) /\ n \notin Above(n)
    <3>1. m \in Nat /\ n \in Nat /\ \A y \in S : y \in Nat
      OBVIOUS
    <3>2. \A y \in S : y > n => y > m
      BY <1>3, <3>1
    <3>3. Above(n) \subseteq Above(m)
      BY <3>2
    <3>4. n \in Above(m) /\ ~(n > n)
      BY <1>3, <3>1
    <3> QED
      BY <3>3, <3>4
  <2> HIDE DEF Above
  <2>2. Cardinality(Above(n)) <= Cardinality(Above(m)) /\ Cardinality(Above(n)) # Cardinality(Above(m))
    BY <1>1, <2>1, FS_Subset
  <2> QED
    BY <1>1, <1>2, <2>2
<1> QED
  BY <1>3

-----------------------------------------------------------------------------
\* An enumeration that says nothing twice says everything.
LEMMA NoRepeatIsOnto ==
  ASSUME NEW S, IsFiniteSet(S), NEW s \in [1 .. Cardinality(S) -> S],
         \A m, n \in 1 .. Cardinality(S) : m # n => s[m] # s[n]
  PROVE  S = {s[n] : n \in 1 .. Cardinality(S)}
<1>1. Cardinality(S) \in Nat
  BY FS_CardinalityType
<1>2. IsFiniteSet(1 .. Cardinality(S)) /\ Cardinality(1 .. Cardinality(S)) = Cardinality(S)
  BY <1>1, FS_Interval
<1>3. s \in Injection(1 .. Cardinality(S), S)
  BY DEF Injection, IsInjective
<1>4. s \in Surjection(1 .. Cardinality(S), S)
  BY <1>2, <1>3, FS_Injection
<1> QED
  BY <1>4 DEF Surjection

\* Any finite set can be sorted by a strict total order: an element comes at the
\* place that the number of those before it leaves.
LEMMA SortExists ==
  ASSUME NEW S, IsFiniteSet(S), NEW R,
         \A x \in S : <<x, x>> \notin R,
         \A x, y \in S : x # y => <<x, y>> \in R \/ <<y, x>> \in R,
         \A x, y, z \in S : <<x, y>> \in R /\ <<y, z>> \in R => <<x, z>> \in R
  PROVE  \E s \in [1 .. Cardinality(S) -> S] :
           \A m, n \in 1 .. Cardinality(S) : m < n => <<s[m], s[n]>> \in R
<1> DEFINE N == Cardinality(S)
           Below(x) == {y \in S : <<y, x>> \in R}
           rank == [x \in S |-> Cardinality(Below(x)) + 1]
<1>1. N \in Nat /\ IsFiniteSet(1 .. N) /\ Cardinality(1 .. N) = N
  BY FS_CardinalityType, FS_Interval
<1>2. \A x \in S : IsFiniteSet(Below(x)) /\ Cardinality(Below(x)) \in Nat
  BY FS_Subset, FS_CardinalityType
<1>3. \A x \in S : Cardinality(Below(x)) < N
  <2> TAKE x \in S
  <2>1. Below(x) \in SUBSET S /\ Below(x) # S
    OBVIOUS
  <2> HIDE DEF Below
  <2>2. Cardinality(Below(x)) <= N /\ Cardinality(Below(x)) # N
    BY <2>1, FS_Subset
  <2> QED
    BY <1>1, <1>2, <2>2
<1>4. ASSUME NEW x \in S, NEW y \in S, <<x, y>> \in R
      PROVE  Cardinality(Below(x)) < Cardinality(Below(y))
  <2>1. Below(x) \in SUBSET Below(y) /\ Below(x) # Below(y)
    BY <1>4
  <2> HIDE DEF Below
  <2>2. Cardinality(Below(x)) <= Cardinality(Below(y)) /\ Cardinality(Below(x)) # Cardinality(Below(y))
    BY <1>2, <2>1, FS_Subset
  <2> QED
    BY <1>2, <2>2
<1> HIDE DEF Below
<1>5. rank \in Injection(S, 1 .. N)
  <2>1. rank \in [S -> 1 .. N] /\ DOMAIN rank = S
    BY <1>1, <1>2, <1>3
  <2>2. \A x, y \in S : rank[x] = rank[y] => Cardinality(Below(x)) = Cardinality(Below(y))
    BY <1>2
  <2>3. ASSUME NEW x \in S, NEW y \in S, rank[x] = rank[y], x # y
        PROVE  FALSE
    <3>1. Cardinality(Below(x)) = Cardinality(Below(y)) /\ Cardinality(Below(x)) \in Nat
      BY <1>2, <2>2, <2>3
    <3>2. Cardinality(Below(x)) < Cardinality(Below(y)) \/ Cardinality(Below(y)) < Cardinality(Below(x))
      BY <1>4, <2>3
    <3> QED
      BY <3>1, <3>2
  <2> HIDE DEF rank, N
  <2> QED
    BY <2>1, <2>3 DEF Injection, IsInjective
<1>6. rank \in Surjection(S, 1 .. N)
  BY <1>1, <1>5, FS_Injection
<1>7. Surjection(S, 1 .. N) = {f \in [S -> 1 .. N] : \A n \in 1 .. N : \E x \in S : f[x] = n}
  BY DEF Surjection
<1> DEFINE s == [n \in 1 .. N |-> CHOOSE x \in S : rank[x] = n]
<1>8. \A n \in 1 .. N : s[n] \in S /\ rank[s[n]] = n
  BY <1>6, <1>7
<1>9. \A x \in S : rank[x] = Cardinality(Below(x)) + 1
  OBVIOUS
<1> HIDE DEF rank
<1>10. ASSUME NEW m \in 1 .. N, NEW n \in 1 .. N, m < n
      PROVE  <<s[m], s[n]>> \in R
  <2>1. s[m] # s[n]
    BY <1>1, <1>8, <1>10
  <2>2. ASSUME <<s[n], s[m]>> \in R
        PROVE  FALSE
    BY <1>1, <1>2, <1>4, <1>8, <1>9, <1>10, <2>2
  <2> QED
    BY <1>8, <2>1, <2>2
<1>11. s \in [1 .. N -> S]
  BY <1>8
<1> HIDE DEF s
<1> QED
  BY <1>10, <1>11

-----------------------------------------------------------------------------
(* Sorted numbers.                                                         *)

\* s is the numbers of S in ascending order.
Ascends(s, S) ==
  /\ s \in [1 .. Cardinality(S) -> S]
  /\ \A m, n \in 1 .. Cardinality(S) : m < n => s[m] < s[n]

\* Numbers can be sorted.
LEMMA AscentExists ==
  ASSUME NEW S \in SUBSET Nat, IsFiniteSet(S)
  PROVE  \E s \in [1 .. Cardinality(S) -> S] : Ascends(s, S)
<1> DEFINE R == {p \in S \X S : p[1] < p[2]}
<1>1. \A x, y \in S : <<x, y>> \in R <=> x < y
  OBVIOUS
<1>2. \A x, y, z \in S : ~(x < x) /\ (x # y => x < y \/ y < x) /\ (x < y /\ y < z => x < z)
  OBVIOUS
<1> HIDE DEF R
<1>3. PICK s \in [1 .. Cardinality(S) -> S] :
        \A m, n \in 1 .. Cardinality(S) : m < n => <<s[m], s[n]>> \in R
  BY <1>1, <1>2, SortExists
<1>4. Ascends(s, S)
  BY <1>1, <1>3 DEF Ascends
<1> QED
  BY <1>4

\* There is no more and no less in it than in the set.
LEMMA SortedHasAll ==
  ASSUME NEW S \in SUBSET Nat, IsFiniteSet(S), NEW s, Ascends(s, S)
  PROVE  \A x \in S : \E n \in 1 .. Cardinality(S) : s[n] = x
<1>1. Cardinality(S) \in Nat
  BY FS_CardinalityType
<1>2. s \in [1 .. Cardinality(S) -> S] /\ \A m, n \in 1 .. Cardinality(S) : m < n => s[m] < s[n]
  BY DEF Ascends
<1>3. \A n \in 1 .. Cardinality(S) : s[n] \in Nat
  BY <1>2
<1>4. \A m, n \in 1 .. Cardinality(S) : m # n => s[m] # s[n]
  BY <1>1, <1>2, <1>3
<1>5. S = {s[n] : n \in 1 .. Cardinality(S)}
  BY <1>2, <1>4, NoRepeatIsOnto
<1> QED
  BY <1>5

\* A number stands where those above it leave room to.
LEMMA PlaceOfNumber ==
  ASSUME NEW S \in SUBSET Nat, IsFiniteSet(S), NEW s, Ascends(s, S), NEW i \in 1 .. Cardinality(S)
  PROVE  Cardinality({y \in S : y > s[i]}) = Cardinality(S) - i
<1> DEFINE N == Cardinality(S)
           I == i + 1 .. N
           Above == {y \in S : y > s[i]}
           f == [j \in I |-> s[j]]
<1>1. N \in Nat
  BY FS_CardinalityType
<1>2. s \in [1 .. N -> S] /\ \A m, n \in 1 .. N : m < n => s[m] < s[n]
  BY DEF Ascends
<1>3. \A n \in 1 .. N : s[n] \in Nat
  BY <1>2
<1>4. \A x \in S : \E n \in 1 .. N : s[n] = x
  BY SortedHasAll
<1> HIDE DEF N
<1>5. IsFiniteSet(I) /\ Cardinality(I) = N - i
  BY <1>1, FS_Interval DEF N
<1>6. \A j \in 1 .. N : s[j] > s[i] <=> j > i
  BY <1>1, <1>2, <1>3 DEF N
<1>7. \A j \in I : j \in 1 .. N /\ s[j] \in Above
  BY <1>1, <1>2, <1>6 DEF N
<1>8. \A y \in Above : \E j \in I : s[j] = y
  BY <1>1, <1>4, <1>6 DEF N
<1>9. \A a, b \in I : s[a] = s[b] => a = b
  BY <1>1, <1>2, <1>3, <1>7
<1>10. f \in [I -> Above] /\ DOMAIN f = I /\ \A j \in I : f[j] = s[j]
  BY <1>7
<1> HIDE DEF f, I, Above
<1>11. f \in Surjection(I, Above) /\ f \in Injection(I, Above)
  BY <1>8, <1>9, <1>10 DEF Surjection, Injection, IsInjective
<1> QED
  BY <1>5, <1>11, FS_Surjection DEF Above, N

\* The numbers above some point, sorted, are the end of all of them, sorted.
LEMMA SortedEndsSorted ==
  ASSUME NEW S \in SUBSET Nat, IsFiniteSet(S), NEW T \in SUBSET S,
         \A x \in T, y \in S : x < y => y \in T,
         NEW s, Ascends(s, S), NEW t, Ascends(t, T)
  PROVE  /\ Cardinality(T) <= Cardinality(S)
         /\ \A i \in 1 .. Cardinality(T) : t[i] = s[Cardinality(S) - Cardinality(T) + i]
<1>1. /\ IsFiniteSet(T) /\ Cardinality(T) <= Cardinality(S)
      /\ Cardinality(S) \in Nat /\ Cardinality(T) \in Nat
  BY FS_Subset, FS_CardinalityType
<1>2. \A x \in S : \E n \in 1 .. Cardinality(S) : s[n] = x
  BY SortedHasAll
<1>3. ASSUME NEW i \in 1 .. Cardinality(T)
      PROVE  t[i] = s[Cardinality(S) - Cardinality(T) + i]
  <2>1. t[i] \in T
    BY DEF Ascends
  <2>2. PICK j \in 1 .. Cardinality(S) : s[j] = t[i]
    BY <1>2, <2>1
  <2>3. {y \in T : y > t[i]} = {y \in S : y > s[j]}
    BY <2>1, <2>2
  <2>4. Cardinality({y \in T : y > t[i]}) = Cardinality(T) - i
    BY <1>1, PlaceOfNumber
  <2>5. Cardinality({y \in S : y > s[j]}) = Cardinality(S) - j
    BY PlaceOfNumber
  <2>6. Cardinality(T) - i = Cardinality(S) - j
    BY <2>3, <2>4, <2>5
  <2>7. j = Cardinality(S) - Cardinality(T) + i
    BY <1>1, <2>6
  <2> QED
    BY <2>2, <2>7
<1> QED
  BY <1>1, <1>3

-----------------------------------------------------------------------------
(* Day files.  The events of an open line are not safe: what is appended   *)
(* next continues that line.                                               *)

DayFiles(G) ==
  {c \in [events : SUBSET G, open : BOOLEAN, last : SUBSET G] :
     c.last \subseteq c.events /\ (~c.open => c.last = {})}

Safe(c) == c.events \ c.last

\* A new file has nothing.
LEMMA EmptyDayFacts ==
  ASSUME NEW G
  PROVE  EmptyDay \in DayFiles(G) /\ EmptyDay.events = {}
BY DEF EmptyDay, DayFiles

\* An append of new events leaves what is safe safe, and no line open; to a file
\* without an open line all that is appended is safe.
LEMMA PutFacts ==
  ASSUME NEW G, NEW c \in DayFiles(G), NEW S \in SUBSET G, NEW first \in S, S \cap c.events = {}
  PROVE  /\ Put(c, S, first) \in DayFiles(G)
         /\ ~Put(c, S, first).open
         /\ Put(c, S, first).events \subseteq c.events \cup S
         /\ Safe(c) \subseteq Safe(Put(c, S, first))
         /\ ~c.open => Safe(Put(c, S, first)) = c.events \cup S
BY DEF DayFiles, Put, Safe

\* Nor does an interrupted append touch what is safe.
LEMMA InterruptedFacts ==
  ASSUME NEW G, NEW c \in DayFiles(G), NEW parts, NEW d \in Interrupted(c, parts),
         \A p \in parts : /\ p.events \in SUBSET G /\ p.events \cap c.events = {}
                          /\ p.first \in p.events /\ p.last \in p.events
  PROVE  /\ d \in DayFiles(G)
         /\ d = c \/ \E p \in parts : d.events \subseteq c.events \cup p.events
         /\ Safe(c) \subseteq Safe(d)
<1>1. CASE d = c
  BY <1>1
<1>2. ASSUME NEW p \in parts, d \in {Put(c, p.events, p.first)} \cup CutAt(Put(c, p.events, p.first), p.last)
      PROVE  /\ d \in DayFiles(G) /\ d.events \subseteq c.events \cup p.events
             /\ Safe(c) \subseteq Safe(d)
  <2>1. PICK q : q = Put(c, p.events, p.first)
    OBVIOUS
  <2>2. /\ q \in DayFiles(G) /\ ~q.open /\ q.last = {} /\ q.events \subseteq c.events \cup p.events
        /\ Safe(c) \subseteq q.events
    <3>1. p.events \in SUBSET G /\ p.first \in p.events /\ p.events \cap c.events = {}
      OBVIOUS
    <3>2. /\ Put(c, p.events, p.first) \in DayFiles(G) /\ ~Put(c, p.events, p.first).open
          /\ Put(c, p.events, p.first).events \subseteq c.events \cup p.events
          /\ Safe(c) \subseteq Safe(Put(c, p.events, p.first))
      <4>1. PICK S \in SUBSET G : S = p.events
        BY <3>1
      <4>2. PICK x \in S : x = p.first
        BY <3>1, <4>1
      <4>3. S \cap c.events = {}
        BY <3>1, <4>1
      <4>4. /\ Put(c, S, x) \in DayFiles(G) /\ ~Put(c, S, x).open
            /\ Put(c, S, x).events \subseteq c.events \cup S /\ Safe(c) \subseteq Safe(Put(c, S, x))
        BY <4>3, PutFacts
      <4> QED
        BY <4>1, <4>2, <4>4
    <3> QED
      BY <2>1, <3>2 DEF DayFiles, Safe
  <2>3. CASE d = q
    BY <2>2, <2>3 DEF Safe
  <2>4. CASE d \in CutAt(q, p.last)
    <3>1. d.events \subseteq q.events /\ d.last \subseteq {p.last} /\ q.events \ {p.last} \subseteq d.events
          /\ d \in DayFiles(G)
      <4>1. CASE d = [q EXCEPT !.open = TRUE, !.last = {p.last} \cap q.events]
        BY <2>2, <4>1 DEF DayFiles
      <4>2. CASE d = [events |-> q.events \ {p.last}, open |-> TRUE, last |-> {}]
        BY <2>2, <4>2 DEF DayFiles
      <4> QED
        BY <2>4, <4>1, <4>2 DEF CutAt
    <3>2. p.last \notin c.events
      BY <1>2
    <3> QED
      BY <2>2, <3>1, <3>2 DEF Safe
  <2> QED
    BY <1>2, <2>1, <2>3, <2>4
<1> QED
  BY <1>1, <1>2 DEF Interrupted

=============================================================================
