---------------------------- MODULE ReportProofs ----------------------------
(***************************************************************************)
(* Proofs about Report, for any events, prices, periods and lengths of the *)
(* log: sums over finite sets, what a summary says of its day, what a      *)
(* report says of its period.                                              *)
(***************************************************************************)
EXTENDS Report, OrderFacts

-----------------------------------------------------------------------------
\* Of sets of members of D there is one with fewest members.
LEMMA Fewest ==
  ASSUME NEW D, IsFiniteSet(D), NEW W \in SUBSET SUBSET D, W # {}
  PROVE  \E T \in W : /\ IsFiniteSet(T)
                      /\ \A x \in T : T \ {x} \notin W
<1> DEFINE Sizes == {Cardinality(T) : T \in W}
<1>1. \A T \in W : IsFiniteSet(T) /\ Cardinality(T) \in Nat
  BY FS_Subset, FS_CardinalityType
<1>2. Sizes \in SUBSET Nat /\ Sizes # {}
  BY <1>1
<1>3. PICK n \in Sizes : \A m \in Sizes : n <= m
  <2> HIDE DEF Sizes
  <2> QED
    BY <1>2, Least
<1>4. PICK T \in W : Cardinality(T) = n
  BY <1>3
<1>5. ASSUME NEW x \in T, T \ {x} \in W
      PROVE  FALSE
  <2>1. Cardinality(T \ {x}) = n - 1
    BY <1>1, <1>4, <1>5, FS_RemoveElement
  <2>2. n <= n - 1 /\ n \in Nat
    BY <1>1, <1>3, <1>4, <1>5, <2>1
  <2> QED
    BY <2>2
<1> QED
  BY <1>1, <1>4, <1>5

-----------------------------------------------------------------------------
(* Sums.                                                                   *)

\* One step of adding up f over the subsets of D.
AddUp(h, f, D) ==
  [s \in SUBSET D |-> IF s = {} THEN 0
                      ELSE LET x == CHOOSE x \in s : TRUE IN f[x] + h[s \ {x}]]

LEMMA SumIs ==
  ASSUME NEW f
  PROVE  SumFunction(f) = (CHOOSE h : h = AddUp(h, f, DOMAIN f))[DOMAIN f]
BY DEF SumFunction, SumFunctionOnSet, FoldFunctionOnSet, MapThenFoldSet, AddUp

\* What f adds up to over each set of members of D, however the members are chosen.
LEMMA SumsExist ==
  ASSUME NEW D, IsFiniteSet(D), NEW f
  PROVE  \E h : h = AddUp(h, f, D)
<1> DEFINE Small(n) == {s \in SUBSET D : Cardinality(s) <= n}
           First(s) == CHOOSE x \in s : TRUE
           Step(h, s) == IF s = {} THEN 0 ELSE f[First(s)] + h[s \ {First(s)}]
           Bad == {n \in Nat : ~\E h : \A s \in Small(n) : h[s] = Step(h, s)}
<1>1. \A s \in SUBSET D : IsFiniteSet(s) /\ Cardinality(s) \in Nat
  BY FS_Subset, FS_CardinalityType
<1>2. \A s \in SUBSET D : s # {} => /\ First(s) \in s /\ s \ {First(s)} \in SUBSET D
                                   /\ Cardinality(s \ {First(s)}) = Cardinality(s) - 1
  BY <1>1, FS_RemoveElement
<1>3. ASSUME Bad # {}
      PROVE  FALSE
  <2>1. PICK n \in Bad : \A m \in Bad : n <= m
    <3>1. Bad \in SUBSET Nat
      OBVIOUS
    <3> HIDE DEF Bad
    <3> QED
      BY <1>3, <3>1, Least
  <2>2. CASE n = 0
    <3>1. \A s \in Small(0) : s = {}
      BY <1>1, FS_EmptySet
    <3>2. \A s \in Small(0) : [t \in {{}} |-> 0][s] = Step([t \in {{}} |-> 0], s)
      BY <3>1
    <3>3. \E h : \A s \in Small(0) : h[s] = Step(h, s)
      <4> HIDE DEF Small, Step
      <4> QED
        BY <3>2
    <3>4. 0 \notin Bad
      BY <3>3
    <3> HIDE DEF Bad
    <3> QED
      BY <2>1, <2>2, <3>4
  <2>3. CASE n # 0
    <3>0. n \in Nat /\ n - 1 \in Nat /\ ~(n <= n - 1)
      BY <2>1, <2>3
    <3>1. n - 1 \in Nat /\ n - 1 \notin Bad
      <4> HIDE DEF Bad
      <4> QED
        BY <2>1, <3>0
    <3>2. PICK h : \A s \in Small(n - 1) : h[s] = Step(h, s)
      BY <3>1
    <3> DEFINE g == [s \in SUBSET D |-> Step(h, s)]
    <3>3. \A s \in Small(n - 1) : g[s] = h[s]
      BY <3>2
    <3>4. ASSUME NEW s \in Small(n), s # {}
          PROVE  g[s \ {First(s)}] = h[s \ {First(s)}]
      <4>1. s \ {First(s)} \in Small(n - 1)
        BY <1>1, <1>2, <2>1, <3>4
      <4> QED
        BY <3>3, <4>1
    <3>5. \A s \in SUBSET D : g[s] = Step(h, s)
      OBVIOUS
    <3> HIDE DEF g, First
    <3>6. \A s \in Small(n) : g[s] = Step(g, s)
      BY <3>4, <3>5
    <3>7. n \notin Bad
      BY <3>6
    <3> QED
      BY <2>1, <3>7
  <2> QED
    BY <2>2, <2>3
<1>4. Cardinality(D) \in Nat /\ Cardinality(D) \notin Bad
  BY <1>1, <1>3
<1>5. PICK h : \A s \in Small(Cardinality(D)) : h[s] = Step(h, s)
  BY <1>4
<1>6. \A s \in SUBSET D : s \in Small(Cardinality(D))
  BY FS_Subset
<1> DEFINE g == [s \in SUBSET D |-> h[s]]
<1>7. \A s \in SUBSET D : s # {} => g[s \ {First(s)}] = h[s \ {First(s)}]
  BY <1>2
<1>8. g = AddUp(g, f, D)
  <2>1. \A s \in SUBSET D : g[s] = Step(g, s)
    BY <1>5, <1>6, <1>7
  <2> QED
    BY <2>1 DEF AddUp
<1> HIDE DEF g
<1> QED
  BY <1>8

\* The sum of f over T.
SumOf(f, T) == SumFunction([x \in T |-> f[x]])

LEMMA SumsAre ==
  ASSUME NEW D, IsFiniteSet(D), NEW f, NEW h, h = AddUp(h, f, D), NEW T \in SUBSET D
  PROVE  SumOf(f, T) = h[T]
<1> DEFINE k == [x \in T |-> f[x]]
           First(s) == CHOOSE x \in s : TRUE
<1>1. IsFiniteSet(T) /\ DOMAIN k = T
  BY FS_Subset
<1>2. PICK g : g = AddUp(g, k, T) /\ SumOf(f, T) = g[T]
  <2> DEFINE g == CHOOSE g : g = AddUp(g, k, T)
  <2>1. \E g1 : g1 = AddUp(g1, k, T)
    BY <1>1, SumsExist
  <2>2. g = AddUp(g, k, T)
    BY <2>1
  <2>3. SumOf(f, T) = g[T]
    BY <1>1, SumIs DEF SumOf
  <2> HIDE DEF g, k
  <2> QED
    BY <2>2, <2>3
<1> DEFINE W == {s \in SUBSET T : g[s] # h[s]}
<1>3. ASSUME W # {}
      PROVE  FALSE
  <2>1. PICK s \in W : \A x \in s : s \ {x} \notin W
    <3>1. W \in SUBSET SUBSET T
      OBVIOUS
    <3> HIDE DEF W
    <3> QED
      BY <1>1, <1>3, <3>1, Fewest
  <2>2. s \in SUBSET T /\ s \in SUBSET D
    OBVIOUS
  <2>3. g[s] = IF s = {} THEN 0 ELSE k[First(s)] + g[s \ {First(s)}]
    BY <1>2, <2>2 DEF AddUp
  <2>4. h[s] = IF s = {} THEN 0 ELSE f[First(s)] + h[s \ {First(s)}]
    BY <2>2 DEF AddUp
  <2>5. s # {} => First(s) \in s
    OBVIOUS
  <2> HIDE DEF First
  <2>6. s # {} => k[First(s)] = f[First(s)] /\ g[s \ {First(s)}] = h[s \ {First(s)}]
    BY <2>1, <2>2, <2>5
  <2> QED
    BY <2>3, <2>4, <2>6
<1> HIDE DEF k
<1> QED
  BY <1>2, <1>3

\* Sums over finite sets, member by member.
LEMMA SumFacts ==
  ASSUME NEW D, IsFiniteSet(D), NEW f \in [D -> Int]
  PROVE  /\ SumOf(f, {}) = 0
         /\ \A T \in SUBSET D : SumOf(f, T) \in Int
         /\ \A T \in SUBSET D : \A x \in T : SumOf(f, T) = f[x] + SumOf(f, T \ {x})
<1> DEFINE First(s) == CHOOSE x \in s : TRUE
<1>1. PICK h : h = AddUp(h, f, D)
  BY SumsExist
<1>2. \A T \in SUBSET D : SumOf(f, T) = h[T]
  BY <1>1, SumsAre
<1>3. h[{}] = 0
  BY <1>1 DEF AddUp
<1>4. \A T \in SUBSET D : T # {} => /\ First(T) \in T /\ T \ {First(T)} \in SUBSET D
                                   /\ h[T] = f[First(T)] + h[T \ {First(T)}]
  BY <1>1 DEF AddUp
<1> HIDE DEF First
<1> DEFINE Odd == {T \in SUBSET D : h[T] \notin Int}
<1>5. ASSUME Odd # {}
      PROVE  FALSE
  <2>1. PICK T \in Odd : \A x \in T : T \ {x} \notin Odd
    <3>1. Odd \in SUBSET SUBSET D
      OBVIOUS
    <3> HIDE DEF Odd
    <3> QED
      BY <1>5, <3>1, Fewest
  <2>2. T \in SUBSET D /\ h[T] \notin Int
    BY <2>1
  <2>3. T # {} => h[T \ {First(T)}] \in Int /\ f[First(T)] \in Int
    BY <1>4, <2>1, <2>2
  <2> HIDE DEF Odd
  <2>4. ASSUME T # {}
        PROVE  h[T] \in Int
    <3>1. PICK n \in Int, m \in Int : n = f[First(T)] /\ m = h[T \ {First(T)}]
      BY <2>3, <2>4
    <3>2. h[T] = n + m
      BY <1>4, <2>2, <2>4, <3>1
    <3> QED
      BY <3>2
  <2> QED
    BY <1>3, <2>2, <2>4
<1>6. \A T \in SUBSET D : h[T] \in Int
  BY <1>5
<1> DEFINE Wrong == {T \in SUBSET D : \E x \in T : h[T] # f[x] + h[T \ {x}]}
<1>7. ASSUME Wrong # {}
      PROVE  FALSE
  <2>1. PICK T \in Wrong : \A x \in T : T \ {x} \notin Wrong
    <3>1. Wrong \in SUBSET SUBSET D
      OBVIOUS
    <3> HIDE DEF Wrong
    <3> QED
      BY <1>7, <3>1, Fewest
  <2>2. PICK x \in T : h[T] # f[x] + h[T \ {x}]
    BY <2>1
  <2>3. PICK c : c = First(T)
    OBVIOUS
  <2>4. c \in T /\ h[T] = f[c] + h[T \ {c}] /\ c # x
    BY <1>4, <2>1, <2>2, <2>3
  <2>5. /\ T \ {c} \in SUBSET D /\ T \ {x} \in SUBSET D
        /\ T \ {c} \notin Wrong /\ T \ {x} \notin Wrong
    BY <2>1, <2>2, <2>4
  <2>6. /\ h[T \ {c}] = f[x] + h[(T \ {c}) \ {x}]
        /\ h[T \ {x}] = f[c] + h[(T \ {x}) \ {c}]
    BY <2>2, <2>4, <2>5
  <2>7. (T \ {c}) \ {x} = (T \ {x}) \ {c} /\ (T \ {c}) \ {x} \in SUBSET D
    BY <2>5
  <2>8. f[x] \in Int /\ f[c] \in Int /\ h[(T \ {c}) \ {x}] \in Int
    BY <1>6, <2>1, <2>2, <2>4, <2>7
  <2>9. PICK fx, fc, ht, htc, htx, hu :
          /\ fx = f[x] /\ fc = f[c] /\ ht = h[T] /\ htc = h[T \ {c}] /\ htx = h[T \ {x}]
          /\ hu = h[(T \ {c}) \ {x}]
    OBVIOUS
  <2>10. ht # fx + htx /\ ht = fc + htc /\ htc = fx + hu /\ htx = fc + hu
    BY <2>2, <2>4, <2>6, <2>7, <2>9
  <2>11. fx \in Int /\ fc \in Int /\ hu \in Int
    BY <2>8, <2>9
  <2> QED
    BY <2>10, <2>11
<1> QED
  BY <1>2, <1>3, <1>6, <1>7

LEMMA SumSplit ==
  ASSUME NEW D, IsFiniteSet(D), NEW f \in [D -> Int], NEW T \in SUBSET D, NEW U \in SUBSET T
  PROVE  SumOf(f, T) = SumOf(f, U) + SumOf(f, T \ U)
<1> DEFINE Bad == {V \in SUBSET T : SumOf(f, T) # SumOf(f, V) + SumOf(f, T \ V)}
<1>1. ASSUME Bad # {}
      PROVE  FALSE
  <2>1. PICK V \in Bad : \A x \in V : V \ {x} \notin Bad
    <3>1. Bad \in SUBSET SUBSET D
      OBVIOUS
    <3> HIDE DEF Bad
    <3> QED
      BY <1>1, <3>1, Fewest
  <2>2. V \in SUBSET T /\ SumOf(f, T) # SumOf(f, V) + SumOf(f, T \ V)
    BY <2>1
  <2>3. PICK t \in Int : t = SumOf(f, T)
    BY SumFacts
  <2>4. CASE V = {}
    <3>1. T \ V = T /\ SumOf(f, V) = 0
      <4>1. SumOf(f, {}) = 0
        BY SumFacts
      <4> QED
        BY <2>4, <4>1
    <3>2. t # 0 + t
      BY <2>2, <2>3, <3>1
    <3> QED
      BY <3>2
  <2>5. CASE V # {}
    <3>1. PICK x \in V : TRUE
      BY <2>5
    <3> DEFINE A == V \ {x}
               B == T \ V
    <3>2. SumOf(f, T) = SumOf(f, A) + SumOf(f, T \ A)
      BY <2>1, <2>2, <3>1
    <3>3. A \in SUBSET D /\ B \in SUBSET D /\ T \ A \in SUBSET D /\ x \in T \ A /\ (T \ A) \ {x} = B /\ V \in SUBSET D
      BY <2>2, <3>1
    <3>4. SumOf(f, V) = f[x] + SumOf(f, A) /\ SumOf(f, T \ A) = f[x] + SumOf(f, B)
      BY <3>1, <3>3, SumFacts
    <3>5. PICK a \in Int, b \in Int, n \in Int : a = SumOf(f, A) /\ b = SumOf(f, B) /\ n = f[x]
      BY <3>3, SumFacts
    <3>6. SumOf(f, T) = a + (n + b) /\ SumOf(f, V) = n + a /\ SumOf(f, T \ V) = b
      BY <3>2, <3>4, <3>5
    <3>7. a + (n + b) = (n + a) + b
      OBVIOUS
    <3> QED
      BY <2>2, <3>6, <3>7
  <2> QED
    BY <2>4, <2>5
<1> QED
  BY <1>1

LEMMA SumZero ==
  ASSUME NEW D, IsFiniteSet(D), NEW f \in [D -> Int], NEW T \in SUBSET D, \A x \in T : f[x] = 0
  PROVE  SumOf(f, T) = 0
<1> DEFINE Bad == {V \in SUBSET T : SumOf(f, V) # 0}
<1>1. ASSUME Bad # {}
      PROVE  FALSE
  <2>1. PICK V \in Bad : \A x \in V : V \ {x} \notin Bad
    <3>1. Bad \in SUBSET SUBSET D
      OBVIOUS
    <3> HIDE DEF Bad
    <3> QED
      BY <1>1, <3>1, Fewest
  <2>2. V \in SUBSET T /\ V \in SUBSET D /\ SumOf(f, V) # 0
    BY <2>1
  <2>3. PICK x \in V : TRUE
    BY <2>2, SumFacts
  <2>4. SumOf(f, V) = f[x] + SumOf(f, V \ {x}) /\ f[x] = 0 /\ SumOf(f, V \ {x}) = 0
    BY <2>1, <2>2, <2>3, SumFacts
  <2> QED
    BY <2>2, <2>4
<1> QED
  BY <1>1

\* What is zero need not be added.
LEMMA SumSupport ==
  ASSUME NEW D, IsFiniteSet(D), NEW f \in [D -> Int], NEW T \in SUBSET D, NEW U \in SUBSET T,
         \A x \in T \ U : f[x] = 0
  PROVE  SumOf(f, T) = SumOf(f, U)
<1>1. SumOf(f, T) = SumOf(f, U) + SumOf(f, T \ U)
  BY SumSplit
<1>2. SumOf(f, T \ U) = 0
  <2>1. T \ U \in SUBSET D
    OBVIOUS
  <2> QED
    BY <2>1, SumZero
<1>3. SumOf(f, U) \in Int
  BY SumFacts
<1> QED
  BY <1>1, <1>2, <1>3

\* A sum over disjoint sets is the sum of the sums over each.
LEMMA SumOfSums ==
  ASSUME NEW D, IsFiniteSet(D), NEW f \in [D -> Int], NEW I, IsFiniteSet(I),
         NEW T \in [I -> SUBSET D], \A i, j \in I : i # j => T[i] \cap T[j] = {}
  PROVE  SumFunction([i \in I |-> SumOf(f, T[i])]) = SumOf(f, UNION {T[i] : i \in I})
<1> DEFINE k == [i \in I |-> SumOf(f, T[i])]
           All(J) == UNION {T[i] : i \in J}
           Bad == {J \in SUBSET I : SumOf(k, J) # SumOf(f, All(J))}
<1>1. k \in [I -> Int]
  BY SumFacts
<1>2. ASSUME Bad # {}
      PROVE  FALSE
  <2>1. PICK J \in Bad : \A x \in J : J \ {x} \notin Bad
    <3>1. Bad \in SUBSET SUBSET I
      OBVIOUS
    <3> HIDE DEF Bad
    <3> QED
      BY <1>2, <3>1, Fewest
  <2>2. J \in SUBSET I /\ SumOf(k, J) # SumOf(f, All(J))
    BY <2>1
  <2>3. CASE J = {}
    <3>1. All(J) = {}
      BY <2>3
    <3>2. SumOf(k, {}) = 0 /\ SumOf(f, {}) = 0
      <4> HIDE DEF k
      <4> QED
        BY <1>1, SumFacts
    <3> QED
      BY <2>2, <2>3, <3>1, <3>2
  <2>4. CASE J # {}
    <3>1. PICK x \in J : TRUE
      BY <2>4
    <3>2. SumOf(k, J \ {x}) = SumOf(f, All(J \ {x}))
      BY <2>1, <2>2, <3>1
    <3>3. k[x] = SumOf(f, T[x])
      BY <2>2, <3>1
    <3>4. SumOf(k, J) = k[x] + SumOf(k, J \ {x})
      <4> HIDE DEF k
      <4> QED
        BY <1>1, <2>2, <3>1, SumFacts
    <3>5. All(J) \in SUBSET D /\ T[x] \in SUBSET All(J) /\ All(J) \ T[x] = All(J \ {x})
      <4>1. \A i \in J : T[i] \in SUBSET D
        BY <2>2
      <4>2. \A i \in J : i # x => T[i] \cap T[x] = {}
        BY <2>2, <3>1
      <4> QED
        BY <3>1, <4>1, <4>2
    <3>6. SumOf(f, All(J)) = SumOf(f, T[x]) + SumOf(f, All(J) \ T[x])
      <4> HIDE DEF All
      <4> QED
        BY <3>5, SumSplit
    <3> HIDE DEF k, All
    <3> QED
      BY <2>2, <3>2, <3>3, <3>4, <3>5, <3>6
  <2> QED
    BY <2>3, <2>4
<1>3. SumOf(k, I) = SumOf(f, All(I))
  BY <1>2
<1>4. SumOf(k, I) = SumFunction(k)
  BY DEF SumOf
<1> QED
  BY <1>3, <1>4

\* It does not matter what the members are called.
LEMMA SumRenamed ==
  ASSUME NEW D, IsFiniteSet(D), NEW f \in [D -> Int], NEW I, IsFiniteSet(I),
         NEW name \in [I -> D], \A i, j \in I : name[i] = name[j] => i = j
  PROVE  SumFunction([i \in I |-> f[name[i]]]) = SumOf(f, {name[i] : i \in I})
<1> DEFINE T == [i \in I |-> {name[i]}]
<1>1. T \in [I -> SUBSET D] /\ \A i, j \in I : i # j => T[i] \cap T[j] = {}
  OBVIOUS
<1>2. \A x \in D : SumOf(f, {x}) = f[x]
  <2> SUFFICES ASSUME NEW x \in D PROVE SumOf(f, {x}) = f[x]
    OBVIOUS
  <2>1. {x} \in SUBSET D /\ {x} \ {x} = {} /\ f[x] \in Int
    OBVIOUS
  <2>2. SumOf(f, {x}) = f[x] + SumOf(f, {x} \ {x})
    BY <2>1, SumFacts
  <2> QED
    BY <2>1, <2>2, SumFacts
<1>3. UNION {T[i] : i \in I} = {name[i] : i \in I}
  OBVIOUS
<1>4. [i \in I |-> SumOf(f, T[i])] = [i \in I |-> f[name[i]]]
  <2>1. \A i \in I : SumOf(f, T[i]) = f[name[i]]
    BY <1>2
  <2> HIDE DEF T
  <2> QED
    BY <2>1
<1> HIDE DEF T
<1>5. SumFunction([i \in I |-> SumOf(f, T[i])]) = SumOf(f, UNION {T[i] : i \in I})
  BY <1>1, SumOfSums
<1> QED
  BY <1>3, <1>4, <1>5

LEMMA SumOfOnes ==
  ASSUME NEW D, IsFiniteSet(D), NEW T \in SUBSET D
  PROVE  SumOf([x \in D |-> 1], T) = Cardinality(T)
<1> DEFINE f == [x \in D |-> 1]
           Bad == {V \in SUBSET D : SumOf(f, V) # Cardinality(V)}
<1>0. f \in [D -> Int] /\ \A x \in D : f[x] = 1
  OBVIOUS
<1>1. ASSUME Bad # {}
      PROVE  FALSE
  <2>1. PICK V \in Bad : IsFiniteSet(V) /\ \A x \in V : V \ {x} \notin Bad
    <3>1. Bad \in SUBSET SUBSET D
      OBVIOUS
    <3> HIDE DEF Bad
    <3> QED
      BY <1>1, <3>1, Fewest
  <2>2. V \in SUBSET D /\ SumOf(f, V) # Cardinality(V)
    BY <2>1
  <2>3. PICK x \in V : TRUE
    <3> HIDE DEF f
    <3> QED
      BY <1>0, <2>2, SumFacts, FS_EmptySet
  <2>4. SumOf(f, V \ {x}) = Cardinality(V \ {x})
    BY <2>1, <2>2, <2>3
  <2>5. SumOf(f, V) = f[x] + SumOf(f, V \ {x}) /\ f[x] = 1
    <3> HIDE DEF f
    <3> QED
      BY <1>0, <2>2, <2>3, SumFacts
  <2>6. Cardinality(V \ {x}) = Cardinality(V) - 1 /\ Cardinality(V) \in Nat
    BY <2>1, <2>3, FS_RemoveElement, FS_CardinalityType
  <2> HIDE DEF f
  <2> QED
    BY <2>2, <2>4, <2>5, <2>6
<1> QED
  BY <1>1

\* Disjoint sets have together as many members as each has.
LEMMA SumOfSizes ==
  ASSUME NEW D, IsFiniteSet(D), NEW I, IsFiniteSet(I),
         NEW T \in [I -> SUBSET D], \A i, j \in I : i # j => T[i] \cap T[j] = {}
  PROVE  SumFunction([i \in I |-> Cardinality(T[i])]) = Cardinality(UNION {T[i] : i \in I})
<1> DEFINE f == [x \in D |-> 1]
<1>1. f \in [D -> Int]
  OBVIOUS
<1>2. \A U \in SUBSET D : SumOf(f, U) = Cardinality(U)
  BY SumOfOnes
<1> HIDE DEF f
<1>3. [i \in I |-> SumOf(f, T[i])] = [i \in I |-> Cardinality(T[i])]
  BY <1>2
<1>4. UNION {T[i] : i \in I} \in SUBSET D
  OBVIOUS
<1>5. SumFunction([i \in I |-> SumOf(f, T[i])]) = SumOf(f, UNION {T[i] : i \in I})
  BY <1>1, SumOfSums
<1> QED
  BY <1>2, <1>3, <1>4, <1>5

-----------------------------------------------------------------------------
(* Maps of numbers.                                                        *)

IsCounts(f) == \A n \in DOMAIN f : f[n] \in Int

LEMMA AtIs ==
  ASSUME NEW f, IsCounts(f), NEW n
  PROVE  At(f, n) \in Int
BY DEF At, IsCounts

LEMMA AddedTogether ==
  ASSUME NEW f, NEW g, IsCounts(f), IsCounts(g)
  PROVE  /\ IsCounts(f ++ g)
         /\ DOMAIN (f ++ g) = DOMAIN f \cup DOMAIN g
         /\ \A n : At(f ++ g, n) = At(f, n) + At(g, n)
<1>1. \A n : At(f, n) \in Int /\ At(g, n) \in Int
  BY AtIs
<1>2. \A n \in DOMAIN (f ++ g) : (f ++ g)[n] = At(f, n) + At(g, n)
  BY DEF ++
<1>3. DOMAIN (f ++ g) = DOMAIN f \cup DOMAIN g
  BY DEF ++
<1>4. ASSUME NEW n
      PROVE  At(f ++ g, n) = At(f, n) + At(g, n)
  <2>1. CASE n \in DOMAIN (f ++ g)
    BY <1>2, <2>1 DEF At
  <2>2. CASE n \notin DOMAIN (f ++ g)
    <3>1. At(f ++ g, n) = 0 /\ At(f, n) = 0 /\ At(g, n) = 0
      BY <1>3, <2>2 DEF At
    <3> QED
      BY <3>1
  <2> QED
    BY <2>1, <2>2
<1>5. IsCounts(f ++ g)
  <2>1. ASSUME NEW n \in DOMAIN (f ++ g)
        PROVE  (f ++ g)[n] \in Int
    <3>1. PICK a \in Int, b \in Int : a = At(f, n) /\ b = At(g, n)
      BY <1>1
    <3> QED
      BY <1>2, <3>1
  <2> QED
    BY <2>1 DEF IsCounts
<1> QED
  BY <1>3, <1>4, <1>5

LEMMA NoneAdded ==
  ASSUME NEW f, NEW g, IsCounts(f), IsCounts(g), NEW n, n \notin DOMAIN f, n \notin DOMAIN g
  PROVE  IsCounts(f ++ g) /\ n \notin DOMAIN (f ++ g)
<1>1. IsCounts(f ++ g) /\ DOMAIN (f ++ g) = DOMAIN f \cup DOMAIN g
  BY AddedTogether
<1> QED
  BY <1>1

LEMMA SumFunctionIs ==
  ASSUME NEW D, IsFiniteSet(D), NEW f \in [D -> Int]
  PROVE  SumFunction(f) = SumOf(f, D) /\ SumFunction(f) \in Int
<1>1. [x \in D |-> f[x]] = f
  OBVIOUS
<1>2. SumFunction(f) = SumOf(f, D)
  BY <1>1 DEF SumOf
<1> QED
  BY <1>2, SumFacts

\* Totals say of each name what the maps say of it together.
LEMMA TotalAt ==
  ASSUME NEW D, IsFiniteSet(D), NEW fs, DOMAIN fs = D, \A x \in D : IsCounts(fs[x]), NEW n
  PROVE  /\ At(Totals(fs), n) = SumFunction([x \in D |-> At(fs[x], n)])
         /\ At(Totals(fs), n) \in Int
<1> DEFINE f == [x \in D |-> At(fs[x], n)]
<1>1. f \in [D -> Int]
  BY AtIs
<1>2. DOMAIN Totals(fs) = UNION {DOMAIN fs[x] : x \in D}
  BY DEF Totals
<1>3. CASE n \in DOMAIN Totals(fs)
  <2>1. Totals(fs)[n] = SumFunction(f)
    BY <1>2, <1>3 DEF Totals
  <2> HIDE DEF f
  <2>2. SumFunction(f) \in Int
    BY <1>1, SumFunctionIs
  <2>3. At(Totals(fs), n) = SumFunction(f)
    BY <1>3, <2>1 DEF At
  <2>4. At(Totals(fs), n) = SumFunction(f) /\ At(Totals(fs), n) \in Int
    BY <2>2, <2>3
  <2> QED
    BY <2>4 DEF f
<1>4. CASE n \notin DOMAIN Totals(fs)
  <2>1. \A x \in D : f[x] = 0
    BY <1>2, <1>4 DEF At
  <2> HIDE DEF f
  <2>2. SumFunction(f) = SumOf(f, D)
    BY <1>1, SumFunctionIs
  <2>3. SumOf(f, D) = 0
    <3>1. D \in SUBSET D
      OBVIOUS
    <3> QED
      BY <1>1, <2>1, <3>1, SumZero
  <2>4. At(Totals(fs), n) = 0
    BY <1>4 DEF At
  <2>5. At(Totals(fs), n) = SumFunction(f) /\ At(Totals(fs), n) \in Int
    BY <2>2, <2>3, <2>4
  <2> QED
    BY <2>5 DEF f
<1> QED
  BY <1>3, <1>4

LEMMA TotalsAre ==
  ASSUME NEW D, IsFiniteSet(D), NEW fs, DOMAIN fs = D, \A x \in D : IsCounts(fs[x])
  PROVE  /\ IsCounts(Totals(fs))
         /\ DOMAIN Totals(fs) = UNION {DOMAIN fs[x] : x \in D}
<1>1. DOMAIN Totals(fs) = UNION {DOMAIN fs[x] : x \in D}
  BY DEF Totals
<1>2. ASSUME NEW n \in DOMAIN Totals(fs)
      PROVE  Totals(fs)[n] \in Int
  <2>1. At(Totals(fs), n) \in Int
    BY TotalAt
  <2> QED
    BY <2>1 DEF At
<1> QED
  BY <1>1, <1>2 DEF IsCounts

-----------------------------------------------------------------------------
(* What one event adds.                                                    *)

LEMMA CostIsCounts ==
  ASSUME NEW e \in Occurrences
  PROVE  IsCounts(Cost(e)) /\ DOMAIN Cost(e) \subseteq {"cost_usd", "cost_usd_estimated"}
<1>1. \A n \in DOMAIN e.attrs : e.attrs[n] \in Int
  BY OccurrencesAssumption
<1>2. Estimate(e) \in Int
  <2>1. CASE e.model = Missing
    BY <2>1 DEF Estimate
  <2>2. CASE e.model # Missing
    <3> DEFINE L == LookupPricing(e.model)
    <3>1. L \in SUBSET DOMAIN Prices /\ IsFiniteSet(L)
      <4>1. L \in SUBSET DOMAIN Prices
        BY DEF LookupPricing
      <4> QED
        BY <4>1, PricesAssumption, FS_Subset
    <3>2. ASSUME NEW p \in L
          PROVE  EstimateCost(p, e) \in Int
      <4> DEFINE f == [token \in Tokens |-> Prices[p][token] * TokenCount(e, token)]
      <4>1. \A token \in Tokens : Prices[p][token] \in Int /\ TokenCount(e, token) \in Int
        BY <1>1, <3>1, PricesAssumption DEF TokenCount
      <4>2. f \in [Tokens -> Int]
        BY <4>1
      <4>3. IsFiniteSet(Tokens)
        <5>1. Tokens = (({"input_tokens"} \cup {"output_tokens"}) \cup {"cache_read_tokens"}) \cup {"cache_creation_tokens"}
          BY DEF Tokens
        <5>2. IsFiniteSet({"input_tokens"} \cup {"output_tokens"})
          BY FS_Singleton, FS_AddElement
        <5>3. IsFiniteSet(({"input_tokens"} \cup {"output_tokens"}) \cup {"cache_read_tokens"})
          BY <5>2, FS_AddElement
        <5> QED
          BY <5>1, <5>3, FS_AddElement
      <4> HIDE DEF f
      <4>4. SumFunction(f) \in Int
        BY <4>2, <4>3, SumFunctionIs
      <4> QED
        BY <4>4 DEF EstimateCost, f
    <3>3. [p \in L |-> EstimateCost(p, e)] \in [L -> Int]
      BY <3>2
    <3> HIDE DEF L
    <3>4. SumFunction([p \in L |-> EstimateCost(p, e)]) \in Int
      BY <3>1, <3>3, SumFunctionIs
    <3> QED
      BY <2>2, <3>4 DEF Estimate, L
  <2> QED
    BY <2>1, <2>2
<1>3. CASE "cost_usd" \in DOMAIN e.attrs
  BY <1>1, <1>3 DEF Cost, Just, IsCounts
<1>4. CASE "cost_usd" \notin DOMAIN e.attrs /\ Estimate(e) > 0
  BY <1>2, <1>4 DEF Cost, IsCounts
<1>5. CASE "cost_usd" \notin DOMAIN e.attrs /\ ~(Estimate(e) > 0)
  BY <1>5 DEF Cost, Nothing, IsCounts
<1> QED
  BY <1>3, <1>4, <1>5

LEMMA DeltasAre ==
  ASSUME NEW e \in Occurrences
  PROVE  /\ IsCounts(MetricDeltas[e])
         /\ "sessions" \notin DOMAIN MetricDeltas[e]
<1> DEFINE counted == IF e.type \in DOMAIN CountedAs THEN Just(CountedAs[e.type], 1) ELSE Nothing
           flagged == IF e.flag /\ e.type \in DOMAIN FlaggedAs THEN Just(FlaggedAs[e.type], 1) ELSE Nothing
           amounts == [n \in AmountsOf(e.type) \cap DOMAIN e.attrs |-> e.attrs[n]]
<1>1. MetricDeltas[e] = counted ++ flagged ++ amounts ++ Cost(e)
  BY DEF MetricDeltas
<1>2. IsCounts(counted) /\ "sessions" \notin DOMAIN counted
  BY DEF CountedAs, Just, Nothing, IsCounts
<1>3. IsCounts(flagged) /\ "sessions" \notin DOMAIN flagged
  BY DEF FlaggedAs, Just, Nothing, IsCounts
<1>4. IsCounts(amounts) /\ "sessions" \notin DOMAIN amounts
  <2>1. "sessions" \notin AmountsOf(e.type)
    BY DEF AmountsOf, TokenMetrics, Tokens
  <2>2. \A n \in DOMAIN e.attrs : e.attrs[n] \in Int
    BY OccurrencesAssumption
  <2> QED
    BY <2>1, <2>2 DEF IsCounts
<1>5. IsCounts(Cost(e)) /\ "sessions" \notin DOMAIN Cost(e)
  BY CostIsCounts
<1> HIDE DEF counted, flagged, amounts
<1>6. IsCounts(counted ++ flagged) /\ "sessions" \notin DOMAIN (counted ++ flagged)
  BY <1>2, <1>3, NoneAdded
<1>7. PICK f : f = counted ++ flagged
  OBVIOUS
<1>8. IsCounts(f ++ amounts) /\ "sessions" \notin DOMAIN (f ++ amounts)
  BY <1>4, <1>6, <1>7, NoneAdded
<1>9. PICK g : g = f ++ amounts
  OBVIOUS
<1>10. IsCounts(g ++ Cost(e)) /\ "sessions" \notin DOMAIN (g ++ Cost(e))
  BY <1>5, <1>8, <1>9, NoneAdded
<1>11. MetricDeltas[e] = g ++ Cost(e)
  BY <1>1, <1>7, <1>9
<1> QED
  BY <1>10, <1>11

\* An event adds to the combined values, to its source's and to its model's.
LEMMA AddedAt ==
  ASSUME NEW e \in Occurrences
  PROVE  /\ IsCounts(Added[e])
         /\ \A m \in DOMAIN Added[e] : m[3] # "sessions" /\ (m[1] = "source" => m[2] = e.source)
         /\ \A name : At(Added[e], <<"combined", Missing, name>>) = Amount(e, name)
         /\ \A name, s : At(Added[e], <<"source", s, name>>) = IF e.source = s THEN Amount(e, name) ELSE 0
         /\ \A name \in ModelMetrics : \A model : model # Missing =>
              At(Added[e], <<"model", model, name>>) = IF e.model = model THEN Amount(e, name) ELSE 0
<1> DEFINE D == DOMAIN MetricDeltas[e]
<1>1. /\ DOMAIN Added[e] = UNION {Views(e, n) : n \in D}
      /\ \A m \in DOMAIN Added[e] : Added[e][m] = MetricDeltas[e][m[3]]
  BY DEF Added
<1>2. \A m, n : m \in Views(e, n) <=> \/ m = <<"combined", Missing, n>>
                                     \/ m = <<"source", e.source, n>>
                                     \/ (e.model # Missing /\ n \in ModelMetrics /\ m = <<"model", e.model, n>>)
  BY DEF Views
<1>3. \A m : m \in DOMAIN Added[e] <=> \E n \in D : m \in Views(e, n)
  BY <1>1
<1> HIDE DEF D
<1>4. \A m \in DOMAIN Added[e] : m[3] \in D
  BY <1>2, <1>3
<1>5. IsCounts(Added[e])
  BY <1>1, <1>4, DeltasAre DEF IsCounts, D
<1>6. \A m \in DOMAIN Added[e] : m[3] # "sessions" /\ (m[1] = "source" => m[2] = e.source)
  BY <1>2, <1>3, DeltasAre DEF D
<1>7. ASSUME NEW name
      PROVE  At(Added[e], <<"combined", Missing, name>>) = Amount(e, name)
  <2> DEFINE m == <<"combined", Missing, name>>
  <2>1. m \in DOMAIN Added[e] <=> name \in D
    BY <1>2, <1>3
  <2>2. m[3] = name
    OBVIOUS
  <2> HIDE DEF m
  <2>3. At(Added[e], m) = Amount(e, name)
    BY <1>1, <2>1, <2>2 DEF At, Amount, D
  <2> QED
    BY <2>3 DEF m
<1>8. ASSUME NEW name, NEW s
      PROVE  At(Added[e], <<"source", s, name>>) = IF e.source = s THEN Amount(e, name) ELSE 0
  <2> DEFINE m == <<"source", s, name>>
  <2>1. m \in DOMAIN Added[e] <=> name \in D /\ s = e.source
    BY <1>2, <1>3
  <2>2. m[3] = name
    OBVIOUS
  <2> HIDE DEF m
  <2>3. At(Added[e], m) = IF e.source = s THEN Amount(e, name) ELSE 0
    BY <1>1, <2>1, <2>2 DEF At, Amount, D
  <2> QED
    BY <2>3 DEF m
<1>9. ASSUME NEW name \in ModelMetrics, NEW model, model # Missing
      PROVE  At(Added[e], <<"model", model, name>>) = IF e.model = model THEN Amount(e, name) ELSE 0
  <2> DEFINE m == <<"model", model, name>>
  <2>1. m \in DOMAIN Added[e] <=> name \in D /\ model = e.model
    BY <1>2, <1>3, <1>9
  <2>2. m[3] = name
    OBVIOUS
  <2> HIDE DEF m
  <2>3. At(Added[e], m) = IF e.model = model THEN Amount(e, name) ELSE 0
    BY <1>1, <2>1, <2>2 DEF At, Amount, D
  <2> QED
    BY <2>3 DEF m
<1> QED
  BY <1>5, <1>6, <1>7, <1>8, <1>9

-----------------------------------------------------------------------------
(* Days and periods.                                                       *)

LEMMA DayBounds ==
  ASSUME NEW t \in Nat
  PROVE  /\ DayOf(t) \in Nat
         /\ DayOf(t) * DayTicks <= t
         /\ t < DayOf(t) * DayTicks + DayTicks
BY DayTicksAssumption DEF DayOf

LEMMA TimesOver ==
  ASSUME NEW m \in Nat, NEW n \in Nat
  PROVE  /\ m * DayTicks \in Nat
         /\ m <= n => m * DayTicks <= n * DayTicks
         /\ m < n => m * DayTicks + DayTicks <= n * DayTicks
<1>1. DayTicks \in Nat /\ DayTicks >= 1
  BY DayTicksAssumption
<1>2. m * DayTicks \in Nat
  BY <1>1
<1>3. ASSUME m <= n
      PROVE  m * DayTicks <= n * DayTicks
  <2>1. PICK k \in Nat : n = m + k
    <3>1. n - m \in Nat /\ n = m + (n - m)
      BY <1>3
    <3> QED
      BY <3>1
  <2>2. n * DayTicks = m * DayTicks + k * DayTicks /\ k * DayTicks \in Nat
    BY <1>1, <2>1
  <2> QED
    BY <1>2, <2>2
<1>4. ASSUME m < n
      PROVE  m * DayTicks + DayTicks <= n * DayTicks
  <2>1. PICK k \in Nat : n = m + k + 1
    <3>1. n - m - 1 \in Nat /\ n = m + (n - m - 1) + 1
      BY <1>4
    <3> QED
      BY <3>1
  <2>2. n * DayTicks = m * DayTicks + k * DayTicks + DayTicks /\ k * DayTicks \in Nat
    BY <1>1, <2>1
  <2> QED
    BY <1>1, <1>2, <2>2
<1> QED
  BY <1>2, <1>3, <1>4

\* Whether a time is before a midnight is decided by its day.
LEMMA SinceMidnight ==
  ASSUME NEW t \in Nat, NEW k \in Nat
  PROVE  /\ t >= k * DayTicks <=> DayOf(t) >= k
         /\ t >= k * DayTicks <=> DayOf(t) * DayTicks >= k * DayTicks
<1>1. PICK d \in Nat : d = DayOf(t)
  BY DayBounds
<1>2. PICK a \in Nat, b \in Nat : a = d * DayTicks /\ b = k * DayTicks
  BY <1>1, TimesOver
<1>3. /\ a <= t /\ t < a + DayTicks
  BY <1>1, <1>2, DayBounds
<1>4. (k <= d => b <= a) /\ (d < k => a + DayTicks <= b)
  BY <1>1, <1>2, TimesOver
<1>5. DayTicks \in Nat /\ DayTicks >= 1
  BY DayTicksAssumption
<1>6. CASE k <= d
  <2>1. t >= b /\ d >= k /\ a >= b
    BY <1>3, <1>4, <1>6
  <2> QED
    BY <1>1, <1>2, <2>1
<1>7. CASE d < k
  <2>1. ~(t >= b) /\ ~(d >= k) /\ ~(a >= b)
    BY <1>3, <1>4, <1>5, <1>7
  <2> QED
    BY <1>1, <1>2, <2>1
<1> QED
  BY <1>6, <1>7

LEMMA Midnights ==
  ASSUME NEW t \in Nat, t % DayTicks = 0
  PROVE  \E k \in Nat : t = k * DayTicks
<1>1. t = DayTicks * (t \div DayTicks) + (t % DayTicks) /\ t \div DayTicks \in Nat
  BY DayTicksAssumption
<1>2. PICK k \in Nat : k = t \div DayTicks
  BY <1>1
<1>3. t = DayTicks * k
  <2>1. t = DayTicks * k + 0
    BY <1>1, <1>2
  <2>2. DayTicks * k \in Nat
    BY DayTicksAssumption
  <2> QED
    BY <2>1, <2>2
<1> QED
  BY <1>3, DayTicksAssumption

\* A period of whole days has all of a day or nothing.
LEMMA WholeDays ==
  ASSUME NEW p \in Periods, Aligned(p), NEW t \in Nat
  PROVE  Contains(p, t) <=> Contains(p, DayOf(t) * DayTicks)
<1>1. PICK j \in Nat, k \in Nat : p.start = j * DayTicks /\ p.end = k * DayTicks
  BY PeriodsAssumption, Midnights DEF Aligned
<1>2. PICK a \in Nat, s \in Nat, e \in Nat : a = DayOf(t) * DayTicks /\ s = p.start /\ e = p.end
  BY <1>1, DayBounds, TimesOver
<1>3. (t >= s <=> a >= s) /\ (t >= e <=> a >= e)
  BY <1>1, <1>2, SinceMidnight
<1>4. (t < e <=> ~(t >= e)) /\ (a < e <=> ~(a >= e))
  BY <1>2
<1> QED
  BY <1>2, <1>3, <1>4 DEF Contains

-----------------------------------------------------------------------------
(* What a summary says of its day.                                         *)

\* Events, numbered in the order they came.
IsList(E) ==
  /\ DOMAIN E \in SUBSET Nat /\ IsFiniteSet(DOMAIN E)
  /\ \A n \in DOMAIN E : E[n] \in Occurrences

Counted(E, day) == {n \in OnDay(E, day) : ~IsSnapshot(E[n])}

OfSource(E, day, s) == {n \in OnDay(E, day) : E[n].source = s}

LEMMA DaysAreFinite ==
  ASSUME NEW E, IsList(E), NEW day
  PROVE  /\ OnDay(E, day) \in SUBSET DOMAIN E /\ IsFiniteSet(OnDay(E, day))
         /\ Counted(E, day) \in SUBSET OnDay(E, day) /\ IsFiniteSet(Counted(E, day))
         /\ \A s : OfSource(E, day, s) \in SUBSET OnDay(E, day) /\ IsFiniteSet(OfSource(E, day, s))
<1>1. OnDay(E, day) \in SUBSET DOMAIN E
  BY DEF OnDay
<1>2. IsFiniteSet(OnDay(E, day))
  BY <1>1, FS_Subset DEF IsList
<1>3. Counted(E, day) \in SUBSET OnDay(E, day) /\ \A s : OfSource(E, day, s) \in SUBSET OnDay(E, day)
  BY DEF Counted, OfSource
<1> QED
  BY <1>1, <1>2, <1>3, FS_Subset

DayAdds(E, day, m) == SumFunction([n \in Counted(E, day) |-> At(Added[E[n]], m)])

LEMMA SummaryIs ==
  ASSUME NEW E, IsList(E), NEW day, NEW b, b = BuildDaily(E, day)
  PROVE  /\ b.date = day * DayTicks
         /\ IsCounts(b.totals)
         /\ DOMAIN b.totals = UNION {DOMAIN Added[E[n]] : n \in Counted(E, day)}
         /\ \A m : At(b.totals, m) = DayAdds(E, day, m)
         /\ b.snapshots = Cardinality(OnDay(E, day) \ Counted(E, day)) /\ b.snapshots \in Nat
         /\ b.sessions = {<<E[n].source, E[n].session>> :
                            n \in {k \in Counted(E, day) : E[k].session # Missing /\ IsSessionScoped(E[k])}}
         /\ DOMAIN b.sources = {E[n].source : n \in OnDay(E, day)}
         /\ \A s \in DOMAIN b.sources : b.sources[s] = Observed(E, OfSource(E, day, s))
<1> DEFINE S == {n \in OnDay(E, day) : ~IsSnapshot(E[n])}
<1>1. b = [date |-> day * DayTicks,
           totals |-> Totals([n \in S |-> Added[E[n]]]),
           snapshots |-> Cardinality(OnDay(E, day) \ S),
           sessions |-> {<<E[n].source, E[n].session>> :
                           n \in {k \in S : E[k].session # Missing /\ IsSessionScoped(E[k])}},
           sources |-> [s \in {E[n].source : n \in OnDay(E, day)} |->
                          Observed(E, {n \in OnDay(E, day) : E[n].source = s})]]
  BY DEF BuildDaily, Summarized
<1>2. S = Counted(E, day)
  BY DEF Counted
<1> HIDE DEF S
<1>3. IsFiniteSet(S) /\ \A n \in S : IsCounts(Added[E[n]])
  <2>1. \A n \in S : E[n] \in Occurrences
    BY <1>2, DaysAreFinite DEF IsList
  <2> QED
    BY <1>2, <2>1, DaysAreFinite, AddedAt
<1>4. b.totals = Totals([n \in S |-> Added[E[n]]])
  BY <1>1
<1> DEFINE fs == [n \in S |-> Added[E[n]]]
<1>5. /\ IsCounts(Totals(fs))
      /\ DOMAIN Totals(fs) = UNION {DOMAIN fs[n] : n \in S}
      /\ \A m : At(Totals(fs), m) = SumFunction([n \in S |-> At(fs[n], m)])
  <2>1. DOMAIN fs = S /\ \A n \in S : IsCounts(fs[n])
    BY <1>3
  <2> HIDE DEF fs
  <2>2. IsCounts(Totals(fs)) /\ DOMAIN Totals(fs) = UNION {DOMAIN fs[n] : n \in S}
    BY <1>3, <2>1, TotalsAre
  <2>3. \A m : At(Totals(fs), m) = SumFunction([n \in S |-> At(fs[n], m)])
    BY <1>3, <2>1, TotalAt
  <2> QED
    BY <2>2, <2>3
<1>6. UNION {DOMAIN fs[n] : n \in S} = UNION {DOMAIN Added[E[n]] : n \in S}
  OBVIOUS
<1>7. \A m : [n \in S |-> At(fs[n], m)] = [n \in S |-> At(Added[E[n]], m)]
  OBVIOUS
<1>8. /\ IsCounts(b.totals)
      /\ DOMAIN b.totals = UNION {DOMAIN Added[E[n]] : n \in S}
      /\ \A m : At(b.totals, m) = SumFunction([n \in S |-> At(Added[E[n]], m)])
  <2> HIDE DEF fs
  <2>1. b.totals = Totals(fs)
    BY <1>4 DEF fs
  <2> QED
    BY <1>5, <1>6, <1>7, <2>1
<1>9. Cardinality(OnDay(E, day) \ S) \in Nat
  <2>1. IsFiniteSet(OnDay(E, day) \ S)
    BY DaysAreFinite, FS_Difference
  <2> QED
    BY <2>1, FS_CardinalityType
<1>10. \A s : {n \in OnDay(E, day) : E[n].source = s} = OfSource(E, day, s)
  BY DEF OfSource
<1>11. /\ b.date = day * DayTicks
       /\ b.snapshots = Cardinality(OnDay(E, day) \ S)
       /\ b.sessions = {<<E[n].source, E[n].session>> :
                           n \in {k \in S : E[k].session # Missing /\ IsSessionScoped(E[k])}}
       /\ DOMAIN b.sources = {E[n].source : n \in OnDay(E, day)}
       /\ \A s \in DOMAIN b.sources : b.sources[s] = Observed(E, {n \in OnDay(E, day) : E[n].source = s})
  BY <1>1
<1> QED
  BY <1>2, <1>8, <1>9, <1>10, <1>11 DEF DayAdds

LEMMA DateIs ==
  ASSUME NEW E, NEW day
  PROVE  BuildDaily(E, day).date = day * DayTicks
BY DEF BuildDaily

LEMMA SessionsAre ==
  ASSUME NEW E, NEW day
  PROVE  BuildDaily(E, day).sessions =
           {<<E[n].source, E[n].session>> :
              n \in {k \in Counted(E, day) : E[k].session # Missing /\ IsSessionScoped(E[k])}}
BY DEF BuildDaily, Summarized, Counted

LEMMA SourcesAre ==
  ASSUME NEW E, NEW day
  PROVE  /\ DOMAIN BuildDaily(E, day).sources = {E[n].source : n \in OnDay(E, day)}
         /\ \A s \in DOMAIN BuildDaily(E, day).sources :
              /\ BuildDaily(E, day).sources[s] = Observed(E, OfSource(E, day, s))
              /\ BuildDaily(E, day).sources[s].count = Cardinality(OfSource(E, day, s))
<1> DEFINE V == {E[n].source : n \in OnDay(E, day)}
<1>1. BuildDaily(E, day).sources = [s \in V |-> Observed(E, {n \in OnDay(E, day) : E[n].source = s})]
  BY DEF BuildDaily, Summarized
<1>2. \A s : {n \in OnDay(E, day) : E[n].source = s} = OfSource(E, day, s)
  BY DEF OfSource
<1>3. BuildDaily(E, day).sources = [s \in V |-> Observed(E, OfSource(E, day, s))]
  BY <1>1, <1>2
<1>4. \A s : Observed(E, OfSource(E, day, s)).count = Cardinality(OfSource(E, day, s))
  BY DEF Observed
<1> QED
  BY <1>3, <1>4

\* The totals of a day are amounts.
LEMMA CountsOfDay ==
  ASSUME NEW E, IsList(E), NEW day
  PROVE  IsCounts(BuildDaily(E, day).totals)
BY SummaryIs

\* A summary is made of the events of its day only.
LEMMA SameDaySameSummary ==
  ASSUME NEW E, NEW F, NEW day, IsList(E), IsList(F),
         OnDay(E, day) = OnDay(F, day), \A n \in OnDay(E, day) : E[n] = F[n]
  PROVE  BuildDaily(E, day) = BuildDaily(F, day)
<1> DEFINE T == OnDay(E, day)
           S == {n \in T : ~IsSnapshot(E[n])}
<1>1. S = {n \in OnDay(F, day) : ~IsSnapshot(F[n])} /\ T = OnDay(F, day)
  OBVIOUS
<1>2. [n \in S |-> Added[E[n]]] = [n \in S |-> Added[F[n]]]
  OBVIOUS
<1>3. {<<E[n].source, E[n].session>> : n \in {k \in S : E[k].session # Missing /\ IsSessionScoped(E[k])}}
       = {<<F[n].source, F[n].session>> : n \in {k \in S : F[k].session # Missing /\ IsSessionScoped(F[k])}}
  OBVIOUS
<1>4. {E[n].source : n \in T} = {F[n].source : n \in T}
  OBVIOUS
<1>5. \A s : {n \in T : E[n].source = s} = {n \in T : F[n].source = s}
  OBVIOUS
<1>6. ASSUME NEW s \in {E[n].source : n \in T}
      PROVE  Observed(E, {n \in T : E[n].source = s}) = Observed(F, {n \in T : F[n].source = s})
  <2> DEFINE U == {n \in T : E[n].source = s}
  <2>1. U \in SUBSET Nat /\ U # {} /\ U \in SUBSET T
    BY <1>6 DEF OnDay, IsList
  <2>2. \E m \in U : \A n \in U : m <= n
    BY <2>1, Least
  <2>3. Min(U) \in U
    BY <2>2 DEF Min
  <2>4. E[Min(U)].version = F[Min(U)].version
    BY <2>1, <2>3
  <2>5. /\ {E[n].mode : n \in U} = {F[n].mode : n \in U}
        /\ {E[n].confidence : n \in U} = {F[n].confidence : n \in U}
    BY <2>1
  <2> HIDE DEF U
  <2>6. Observed(E, U) = Observed(F, U)
    BY <2>4, <2>5 DEF Observed
  <2>7. {n \in T : F[n].source = s} = U
    BY <1>5 DEF U
  <2> QED
    BY <2>6, <2>7 DEF U
<1> DEFINE V == {E[n].source : n \in T}
<1>7. [s \in V |-> Observed(E, {n \in T : E[n].source = s})] = [s \in V |-> Observed(F, {n \in T : F[n].source = s})]
  BY <1>6
<1>8. BuildDaily(E, day) =
        [date |-> day * DayTicks,
         totals |-> Totals([n \in S |-> Added[E[n]]]),
         snapshots |-> Cardinality(T \ S),
         sessions |-> {<<E[n].source, E[n].session>> :
                         n \in {k \in S : E[k].session # Missing /\ IsSessionScoped(E[k])}},
         sources |-> [s \in V |-> Observed(E, {n \in T : E[n].source = s})]]
  BY DEF BuildDaily, Summarized
<1>9. BuildDaily(F, day) =
        [date |-> day * DayTicks,
         totals |-> Totals([n \in S |-> Added[F[n]]]),
         snapshots |-> Cardinality(T \ S),
         sessions |-> {<<F[n].source, F[n].session>> :
                         n \in {k \in S : F[k].session # Missing /\ IsSessionScoped(F[k])}},
         sources |-> [s \in V |-> Observed(F, {n \in T : F[n].source = s})]]
  <2>1. V = {F[n].source : n \in T}
    BY <1>4
  <2> HIDE DEF V, S, T
  <2> QED
    BY <1>1, <2>1 DEF BuildDaily, Summarized
<1> HIDE DEF V, S, T
<1> QED
  BY <1>2, <1>3, <1>7, <1>8, <1>9

-----------------------------------------------------------------------------
(* A report is made of the summaries of certain days; where they stand in  *)
(* the list only shows in the versions it gives sources.                   *)

Summaries(E, D) == [d \in D |-> BuildDaily(E, d)]

\* At the places S of ds are the summaries of the days D, each once.
Lists(name, ds, S, E, D) ==
  /\ IsFiniteSet(S) /\ IsFiniteSet(D)
  /\ name \in [S -> D]
  /\ \A i, j \in S : name[i] = name[j] => i = j
  /\ \A d \in D : \E i \in S : name[i] = d
  /\ \A i \in S : ds[i] = BuildDaily(E, name[i])

LEMMA SumRelisted ==
  ASSUME NEW name, NEW S, NEW D, IsFiniteSet(S), IsFiniteSet(D), name \in [S -> D],
         \A i, j \in S : name[i] = name[j] => i = j,
         \A d \in D : \E i \in S : name[i] = d,
         NEW f \in [D -> Int], NEW g, DOMAIN g = S, g = [i \in S |-> g[i]],
         \A i \in S : g[i] = f[name[i]]
  PROVE  SumFunction(g) = SumFunction(f)
<1>1. g = [i \in S |-> f[name[i]]]
  OBVIOUS
<1>2. {name[i] : i \in S} = D
  OBVIOUS
<1>3. SumFunction([i \in S |-> f[name[i]]]) = SumOf(f, {name[i] : i \in S})
  BY SumRenamed
<1>4. SumFunction(f) = SumOf(f, D)
  BY SumFunctionIs
<1> QED
  BY <1>1, <1>2, <1>3, <1>4

LEMMA TotalsRelisted ==
  ASSUME NEW E, IsList(E), NEW ds, NEW S, NEW D, NEW name, Lists(name, ds, S, E, D)
  PROVE  Totals([i \in S |-> ds[i].totals]) = Totals([d \in D |-> Summaries(E, D)[d].totals])
<1> DEFINE fs == [i \in S |-> ds[i].totals]
           gs == [d \in D |-> Summaries(E, D)[d].totals]
<1>1. \A d \in D : gs[d] = BuildDaily(E, d).totals /\ IsCounts(gs[d])
  BY SummaryIs DEF Summaries
<1>2. \A i \in S : name[i] \in D /\ fs[i] = gs[name[i]]
  BY <1>1 DEF Lists
<1>3. \A i \in S : IsCounts(fs[i])
  BY <1>1, <1>2
<1>4. DOMAIN fs = S /\ DOMAIN gs = D
  OBVIOUS
<1> HIDE DEF fs, gs
<1>5. UNION {DOMAIN fs[i] : i \in S} = UNION {DOMAIN gs[d] : d \in D}
  BY <1>2 DEF Lists
<1>6. ASSUME NEW n
      PROVE  SumFunction([i \in S |-> At(fs[i], n)]) = SumFunction([d \in D |-> At(gs[d], n)])
  <2> DEFINE f == [d \in D |-> At(gs[d], n)]
             g == [i \in S |-> At(fs[i], n)]
  <2>1. f \in [D -> Int]
    BY <1>1, AtIs
  <2>2. DOMAIN g = S /\ g = [i \in S |-> g[i]]
    OBVIOUS
  <2>3. \A i \in S : g[i] = f[name[i]]
    BY <1>2
  <2> HIDE DEF f, g
  <2>4. SumFunction(g) = SumFunction(f)
    BY <2>1, <2>2, <2>3, SumRelisted DEF Lists
  <2> QED
    BY <2>4 DEF f, g
<1> DEFINE N == UNION {DOMAIN gs[d] : d \in D}
<1>7. Totals(fs) = [n \in N |-> SumFunction([i \in S |-> At(fs[i], n)])]
  BY <1>4, <1>5 DEF Totals
<1>8. Totals(gs) = [n \in N |-> SumFunction([d \in D |-> At(gs[d], n)])]
  BY <1>4 DEF Totals
<1>9. Totals(fs) = Totals(gs)
  <2> HIDE DEF N
  <2> QED
    BY <1>6, <1>7, <1>8
<1> QED
  BY <1>9 DEF fs, gs

LEMMA SessionsRelisted ==
  ASSUME NEW E, IsList(E), NEW ds, NEW S, NEW D, NEW name, Lists(name, ds, S, E, D)
  PROVE  SessionCounts(ds, S) = SessionCounts(Summaries(E, D), D)
<1>1. UNION {ds[i].sessions : i \in S} = UNION {Summaries(E, D)[d].sessions : d \in D}
  <2>1. \A d \in D : Summaries(E, D)[d] = BuildDaily(E, d)
    BY DEF Summaries
  <2>2. \A i \in S : name[i] \in D /\ ds[i].sessions = Summaries(E, D)[name[i]].sessions
    BY <2>1 DEF Lists
  <2>3. \A d \in D : \E i \in S : name[i] = d
    BY DEF Lists
  <2> QED
    BY <2>2, <2>3
<1> QED
  BY <1>1 DEF SessionCounts

LEMMA VersionAside ==
  ASSUME NEW v, NEW w, NEW c, NEW m, NEW k
  PROVE  [[version |-> v, count |-> c, modes |-> m, confidence |-> k] EXCEPT !.version = Missing]
           = [[version |-> w, count |-> c, modes |-> m, confidence |-> k] EXCEPT !.version = Missing]
OBVIOUS

\* Sources that may differ in their versions only.
Alike(a, b) ==
  /\ DOMAIN a = DOMAIN b
  /\ \A s \in DOMAIN a : /\ a[s].count = b[s].count /\ a[s].confidence = b[s].confidence
                        /\ [a[s] EXCEPT !.version = Missing] = [b[s] EXCEPT !.version = Missing]

LEMMA SourcesRelisted ==
  ASSUME NEW E, IsList(E), NEW ds, NEW S, NEW D, NEW name, Lists(name, ds, S, E, D),
         NEW a, a = MergeAll(ds, S), NEW b, b = MergeAll(Summaries(E, D), D)
  PROVE  Alike(a, b)
<1> DEFINE es == Summaries(E, D)
           S1(s) == {i \in S : s \in DOMAIN ds[i].sources}
           D1(s) == {d \in D : s \in DOMAIN es[d].sources}
           V == UNION {DOMAIN es[d].sources : d \in D}
<1>1. \A d \in D : es[d] = BuildDaily(E, d)
  BY DEF Summaries
<1>2. \A i \in S : name[i] \in D /\ ds[i] = es[name[i]]
  BY <1>1 DEF Lists
<1>3. \A d \in D : \E i \in S : name[i] = d
  BY DEF Lists
<1>4. IsFiniteSet(S) /\ IsFiniteSet(D) /\ \A i, j \in S : name[i] = name[j] => i = j
  BY DEF Lists
<1> HIDE DEF es
<1>5. UNION {DOMAIN ds[i].sources : i \in S} = V
  BY <1>2, <1>3
<1>7. /\ MergeAll(ds, S) = [s \in V |-> Merge(ds, S1(s), s)]
      /\ MergeAll(es, D) = [s \in V |-> Merge(es, D1(s), s)]
  BY <1>5 DEF MergeAll
<1>8. ASSUME NEW s \in V
      PROVE  LET c == Merge(ds, S1(s), s)
                 e == Merge(es, D1(s), s)
             IN /\ c.count = e.count /\ c.confidence = e.confidence
                /\ [c EXCEPT !.version = Missing] = [e EXCEPT !.version = Missing]
  <2> DEFINE f == [d \in D1(s) |-> es[d].sources[s].count]
             g == [i \in S1(s) |-> ds[i].sources[s].count]
             part == [i \in S1(s) |-> name[i]]
  <2>1. /\ part \in [S1(s) -> D1(s)]
        /\ \A i, j \in S1(s) : part[i] = part[j] => i = j
        /\ \A d \in D1(s) : \E i \in S1(s) : part[i] = d
        /\ \A i \in S1(s) : ds[i] = es[part[i]]
    BY <1>2, <1>3, <1>4
  <2>2. IsFiniteSet(S1(s)) /\ IsFiniteSet(D1(s))
    <3>1. S1(s) \in SUBSET S /\ D1(s) \in SUBSET D
      OBVIOUS
    <3> HIDE DEF S1, D1
    <3> QED
      BY <1>4, <3>1, FS_Subset
  <2>3. f \in [D1(s) -> Int]
    <3>1. ASSUME NEW d \in D1(s)
          PROVE  es[d].sources[s].count \in Int
      <4>1. d \in D /\ s \in DOMAIN es[d].sources /\ es[d] = BuildDaily(E, d)
        BY <1>1
      <4>2. es[d].sources[s].count = Cardinality(OfSource(E, d, s))
        BY <4>1, SourcesAre
      <4>3. IsFiniteSet(OfSource(E, d, s))
        BY DaysAreFinite
      <4>4. Cardinality(OfSource(E, d, s)) \in Nat
        BY <4>3, FS_CardinalityType
      <4> QED
        BY <4>2, <4>4
    <3> QED
      BY <3>1
  <2>4. DOMAIN g = S1(s) /\ g = [i \in S1(s) |-> g[i]] /\ \A i \in S1(s) : g[i] = f[part[i]]
    BY <2>1
  <2>6. /\ {ds[i].sources[s].modes : i \in S1(s)} = {es[d].sources[s].modes : d \in D1(s)}
        /\ {ds[i].sources[s].confidence : i \in S1(s)} = {es[d].sources[s].confidence : d \in D1(s)}
    <3> HIDE DEF S1, D1, part
    <3>1. ASSUME NEW i \in S1(s)
          PROVE  part[i] \in D1(s) /\ ds[i] = es[part[i]]
      BY <2>1
    <3>2. ASSUME NEW d \in D1(s)
          PROVE  \E i \in S1(s) : ds[i] = es[d]
      BY <2>1
    <3> QED
      BY <3>1, <3>2
  <2> HIDE DEF S1, D1, f, g, part
  <2>7. SumFunction(g) = SumFunction(f)
    BY <2>1, <2>2, <2>3, <2>4, SumRelisted
  <2>8. PICK U, W : U = S1(s) /\ W = D1(s)
    OBVIOUS
  <2>9. SumFunction([i \in U |-> ds[i].sources[s].count]) = SumFunction([d \in W |-> es[d].sources[s].count])
    BY <2>7, <2>8 DEF f, g
  <2>10. /\ UNION {ds[i].sources[s].modes : i \in U} = UNION {es[d].sources[s].modes : d \in W}
         /\ Min({ds[i].sources[s].confidence : i \in U}) = Min({es[d].sources[s].confidence : d \in W})
    BY <2>6, <2>8
  <2>11. PICK v, w, n, m, k :
           /\ Merge(ds, U, s) = [version |-> v, count |-> n, modes |-> m, confidence |-> k]
           /\ Merge(es, W, s) = [version |-> w, count |-> n, modes |-> m, confidence |-> k]
    BY <2>9, <2>10 DEF Merge
  <2>12. PICK c, e : c = Merge(ds, U, s) /\ e = Merge(es, W, s)
    OBVIOUS
  <2>13. c.count = e.count /\ c.confidence = e.confidence
    BY <2>11, <2>12
  <2>14. [c EXCEPT !.version = Missing] = [e EXCEPT !.version = Missing]
    BY <2>11, <2>12, VersionAside
  <2> QED
    BY <2>8, <2>12, <2>13, <2>14
<1>9. \A s \in V : LET c == Merge(ds, S1(s), s)
                       e == Merge(es, D1(s), s)
                   IN /\ c.count = e.count /\ c.confidence = e.confidence
                      /\ [c EXCEPT !.version = Missing] = [e EXCEPT !.version = Missing]
  BY <1>8
<1> HIDE DEF S1, D1, V
<1>10. \A s \in V : MergeAll(ds, S)[s] = Merge(ds, S1(s), s) /\ MergeAll(es, D)[s] = Merge(es, D1(s), s)
  BY <1>7
<1>11. DOMAIN MergeAll(ds, S) = V /\ DOMAIN MergeAll(es, D) = V
  BY <1>7
<1> QED
  BY <1>9, <1>10, <1>11 DEF es, Alike

\* What a summary counts for a source is of a source it has.
LEMMA SummaryIsWhole ==
  ASSUME NEW E, IsList(E), NEW day, NEW b, b = BuildDaily(E, day)
  PROVE  /\ \A m \in DOMAIN b.totals : m[3] # "sessions" /\ (m[1] = "source" => m[2] \in DOMAIN b.sources)
         /\ \A x \in b.sessions : x[1] \in DOMAIN b.sources
         /\ IsFiniteSet(DOMAIN b.sources) /\ IsFiniteSet(b.sessions)
<1>1. \A n \in OnDay(E, day) : E[n] \in Occurrences
  BY DaysAreFinite DEF IsList
<1>2. \A n \in Counted(E, day) : n \in OnDay(E, day)
  BY DaysAreFinite
<1>3. DOMAIN b.sources = {E[n].source : n \in OnDay(E, day)}
  BY SourcesAre
<1>4. DOMAIN b.totals = UNION {DOMAIN Added[E[n]] : n \in Counted(E, day)}
  BY SummaryIs
<1>5. ASSUME NEW m \in DOMAIN b.totals
      PROVE  m[3] # "sessions" /\ (m[1] = "source" => m[2] \in DOMAIN b.sources)
  <2>1. PICK n \in Counted(E, day) : m \in DOMAIN Added[E[n]]
    BY <1>4
  <2>2. n \in OnDay(E, day) /\ E[n] \in Occurrences
    BY <1>1, <1>2
  <2>3. m[3] # "sessions" /\ (m[1] = "source" => m[2] = E[n].source)
    BY <2>1, <2>2, AddedAt
  <2> QED
    BY <1>3, <2>2, <2>3
<1> DEFINE K == {k \in Counted(E, day) : E[k].session # Missing /\ IsSessionScoped(E[k])}
<1>6. b.sessions = {<<E[n].source, E[n].session>> : n \in K}
  BY SummaryIs
<1>7. IsFiniteSet(K) /\ K \in SUBSET OnDay(E, day)
  <2>1. K \in SUBSET Counted(E, day)
    OBVIOUS
  <2> HIDE DEF K
  <2> QED
    BY <1>2, <2>1, DaysAreFinite, FS_Subset
<1> HIDE DEF K
<1>8. \A x \in b.sessions : x[1] \in DOMAIN b.sources
  BY <1>3, <1>6, <1>7
<1>9. IsFiniteSet(DOMAIN b.sources)
  <2> DEFINE f == [n \in OnDay(E, day) |-> E[n].source]
  <2>1. f \in Surjection(OnDay(E, day), {E[n].source : n \in OnDay(E, day)})
    BY DEF Surjection
  <2> QED
    BY <1>3, <2>1, DaysAreFinite, FS_Surjection
<1>10. IsFiniteSet(b.sessions)
  <2> DEFINE f == [n \in K |-> <<E[n].source, E[n].session>>]
  <2>1. f \in Surjection(K, {<<E[n].source, E[n].session>> : n \in K})
    BY DEF Surjection
  <2> QED
    BY <1>6, <1>7, <2>1, FS_Surjection
<1> QED
  BY <1>5, <1>8, <1>9, <1>10

AllSessions(ds, S) == UNION {ds[i].sessions : i \in S}

LEMMA JustIs ==
  ASSUME NEW k, NEW n \in Int
  PROVE  IsCounts(Just(k, n)) /\ DOMAIN Just(k, n) = {k} /\ At(Just(k, n), k) = n
BY DEF IsCounts, Just, At

\* f counts the sessions X.
CountsSessions(f, X) ==
  /\ IsCounts(f)
  /\ \A m \in DOMAIN f : m[3] = "sessions" /\ (m[1] = "source" => \E x \in X : m[2] = x[1])
  /\ At(f, <<"combined", Missing, "sessions">>) = Cardinality({x[2] : x \in X})
  /\ \A s : At(f, <<"source", s, "sessions">>) = Cardinality({x \in X : x[1] = s})

LEMMA SessionCountsAre ==
  ASSUME NEW ds, NEW S, NEW X, X = AllSessions(ds, S), IsFiniteSet(X)
  PROVE  CountsSessions(SessionCounts(ds, S), X)
<1> DEFINE c == <<"combined", Missing, "sessions">>
           all == IF X = {} THEN Nothing ELSE Just(c, Cardinality({x[2] : x \in X}))
           G == {<<"source", x[1], "sessions">> : x \in X}
           each == [m \in G |-> Cardinality({x \in X : x[1] = m[2]})]
<1>1. SessionCounts(ds, S) = all ++ each
  BY DEF SessionCounts, AllSessions
<1>2. \A s : Cardinality({x \in X : x[1] = s}) \in Nat
  <2>1. ASSUME NEW s
        PROVE  Cardinality({x \in X : x[1] = s}) \in Nat
    <3>1. {x \in X : x[1] = s} \in SUBSET X
      OBVIOUS
    <3> QED
      BY <3>1, FS_Subset, FS_CardinalityType
  <2> QED
    BY <2>1
<1>3. Cardinality({x[2] : x \in X}) \in Nat
  <2> DEFINE f == [x \in X |-> x[2]]
  <2>1. f \in Surjection(X, {x[2] : x \in X})
    BY DEF Surjection
  <2>2. IsFiniteSet({x[2] : x \in X})
    BY <2>1, FS_Surjection
  <2> QED
    BY <2>2, FS_CardinalityType
<1>4. IsCounts(all) /\ DOMAIN all \subseteq {c}
  <2>1. PICK n, k : n \in Nat /\ n = Cardinality({x[2] : x \in X}) /\ k = c
    BY <1>3
  <2>2. IsCounts(Just(k, n)) /\ DOMAIN Just(k, n) = {k}
    <3>1. n \in Int
      BY <2>1
    <3> QED
      BY <3>1, JustIs
  <2>3. IsCounts(Nothing) /\ DOMAIN Nothing = {}
    BY DEF IsCounts, Nothing
  <2> QED
    BY <2>1, <2>2, <2>3
<1>5. IsCounts(each) /\ DOMAIN each = G
  <2>1. \A m \in G : each[m] = Cardinality({x \in X : x[1] = m[2]})
    OBVIOUS
  <2>2. \A m \in G : each[m] \in Nat
    BY <1>2, <2>1
  <2>3. DOMAIN each = G
    OBVIOUS
  <2> HIDE DEF each, G
  <2> QED
    BY <2>2, <2>3 DEF IsCounts
<1>6. At(all, c) = Cardinality({x[2] : x \in X})
  <2>1. CASE X = {}
    <3>1. {x[2] : x \in X} = {} /\ all = Nothing
      BY <2>1
    <3>2. At(all, c) = 0
      BY <3>1 DEF At, Nothing
    <3> QED
      BY <3>1, <3>2, FS_EmptySet
  <2>2. CASE X # {}
    BY <2>2 DEF At, Just
  <2> QED
    BY <2>1, <2>2
<1>7. ASSUME NEW s
      PROVE  At(each, <<"source", s, "sessions">>) = Cardinality({x \in X : x[1] = s})
  <2> DEFINE m == <<"source", s, "sessions">>
  <2>1. m[2] = s /\ (m \in G <=> \E x \in X : x[1] = s)
    OBVIOUS
  <2>2. CASE m \in G
    BY <1>5, <2>1, <2>2 DEF At
  <2>3. CASE m \notin G
    <3>1. {x \in X : x[1] = s} = {}
      BY <2>1, <2>3
    <3>2. At(each, m) = 0
      BY <1>5, <2>3 DEF At
    <3> QED
      BY <3>1, <3>2, FS_EmptySet
  <2> QED
    BY <2>2, <2>3
<1>8. c \notin G /\ \A s : <<"source", s, "sessions">> # c
  OBVIOUS
<1> HIDE DEF all, each
<1>9. /\ IsCounts(all ++ each) /\ DOMAIN (all ++ each) = DOMAIN all \cup DOMAIN each
      /\ \A m : At(all ++ each, m) = At(all, m) + At(each, m)
  BY <1>4, <1>5, AddedTogether
<1>10. At(each, c) = 0 /\ \A s : At(all, <<"source", s, "sessions">>) = 0
  BY <1>4, <1>5, <1>8 DEF At
<1>11. At(all ++ each, c) = Cardinality({x[2] : x \in X})
  BY <1>3, <1>6, <1>9, <1>10
<1>12. ASSUME NEW s
       PROVE  At(all ++ each, <<"source", s, "sessions">>) = Cardinality({x \in X : x[1] = s})
  <2>1. PICK m, n : m = <<"source", s, "sessions">> /\ n = Cardinality({x \in X : x[1] = s})
    OBVIOUS
  <2>2. n \in Nat /\ At(each, m) = n /\ At(all, m) = 0
    BY <1>2, <1>7, <1>10, <2>1
  <2>3. At(all ++ each, m) = At(all, m) + At(each, m)
    BY <1>9
  <2>4. At(all ++ each, m) = n
    BY <2>2, <2>3
  <2> QED
    BY <2>1, <2>4
<1>13. \A m \in DOMAIN (all ++ each) : m[3] = "sessions" /\ (m[1] = "source" => \E x \in X : m[2] = x[1])
  <2>1. \A m \in DOMAIN (all ++ each) : m = c \/ \E x \in X : m = <<"source", x[1], "sessions">>
    BY <1>4, <1>5, <1>9
  <2> QED
    BY <2>1
<1> QED
  BY <1>1, <1>9, <1>11, <1>12, <1>13 DEF CountsSessions

\* A rollup, from the sources src, the totals tot, the snapshots n and the coverage c.
Combined(src, tot, n, c) ==
  [values |-> [m \in Reported(DOMAIN tot) |-> tot[m]],
   confidence |-> [m \in Reported(DOMAIN tot) |->
                     IF m[1] = "source" THEN src[m[2]].confidence
                     ELSE Min({src[s].confidence : s \in DOMAIN src})],
   sources |-> src, coverage |-> c, snapshots |-> n]

LEMMA RollupIs ==
  ASSUME NEW ds, NEW p
  PROVE  Rollup(ds, p) =
           Combined(MergeAll(ds, Dated(ds, p)),
                    Totals([i \in Dated(ds, p) |-> ds[i].totals]) ++ SessionCounts(ds, Dated(ds, p)),
                    SumFunction([i \in Dated(ds, p) |-> ds[i].snapshots]),
                    Coverage(Cardinality(Dated(ds, p)), p))
BY DEF Rollup, Combined

LEMMA SourcesAside ==
  ASSUME NEW val, NEW conf, NEW src, NEW c, NEW n,
         NEW a, a = [values |-> val, confidence |-> conf, sources |-> src, coverage |-> c, snapshots |-> n]
  PROVE  [a EXCEPT !.sources = Unversioned(@)]
           = [values |-> val, confidence |-> conf, sources |-> Unversioned(src), coverage |-> c, snapshots |-> n]
OBVIOUS

\* The versions of the sources aside, it does not matter which of two the sources are.
LEMMA CombinedAlike ==
  ASSUME NEW src, NEW esrc, NEW tot, NEW n, NEW c, Alike(src, esrc),
         \A m \in DOMAIN tot : m[1] = "source" => m[2] \in DOMAIN esrc,
         NEW a, a = Combined(src, tot, n, c), NEW b, b = Combined(esrc, tot, n, c)
  PROVE  /\ a.values = b.values /\ a.sources = src /\ b.sources = esrc
         /\ [a EXCEPT !.sources = Unversioned(@)] = [b EXCEPT !.sources = Unversioned(@)]
<1>0. /\ DOMAIN src = DOMAIN esrc
      /\ \A s \in DOMAIN src : /\ src[s].confidence = esrc[s].confidence
                               /\ [src[s] EXCEPT !.version = Missing] = [esrc[s] EXCEPT !.version = Missing]
  BY DEF Alike
<1>1. PICK R : R = Reported(DOMAIN tot)
  OBVIOUS
<1>2. \A m \in R : m[1] = "source" => m[2] \in DOMAIN esrc
  BY <1>1 DEF Reported
<1>3. {src[s].confidence : s \in DOMAIN src} = {esrc[s].confidence : s \in DOMAIN esrc}
  BY <1>0
<1>4. PICK least : /\ least = Min({src[s].confidence : s \in DOMAIN src})
                   /\ least = Min({esrc[s].confidence : s \in DOMAIN esrc})
  BY <1>3
<1>5. [m \in R |-> IF m[1] = "source" THEN src[m[2]].confidence ELSE least]
       = [m \in R |-> IF m[1] = "source" THEN esrc[m[2]].confidence ELSE least]
  BY <1>0, <1>2
<1>6. PICK val, conf :
        /\ val = [m \in R |-> tot[m]]
        /\ conf = [m \in R |-> IF m[1] = "source" THEN src[m[2]].confidence ELSE least]
        /\ conf = [m \in R |-> IF m[1] = "source" THEN esrc[m[2]].confidence ELSE least]
  BY <1>5
<1>7. a = [values |-> val, confidence |-> conf, sources |-> src, coverage |-> c, snapshots |-> n]
  BY <1>1, <1>4, <1>6 DEF Combined
<1>8. b = [values |-> val, confidence |-> conf, sources |-> esrc, coverage |-> c, snapshots |-> n]
  BY <1>1, <1>4, <1>6 DEF Combined
<1>9. PICK u : u = Unversioned(src) /\ u = Unversioned(esrc)
  BY <1>0 DEF Unversioned
<1>10. [a EXCEPT !.sources = Unversioned(@)]
         = [values |-> val, confidence |-> conf, sources |-> Unversioned(src), coverage |-> c, snapshots |-> n]
  BY <1>7, SourcesAside
<1>11. [b EXCEPT !.sources = Unversioned(@)]
         = [values |-> val, confidence |-> conf, sources |-> Unversioned(esrc), coverage |-> c, snapshots |-> n]
  BY <1>8, SourcesAside
<1> QED
  BY <1>7, <1>8, <1>9, <1>10, <1>11

LEMMA SnapshotsRelisted ==
  ASSUME NEW E, IsList(E), NEW ds, NEW S, NEW D, NEW name, Lists(name, ds, S, E, D)
  PROVE  /\ SumFunction([i \in S |-> ds[i].snapshots]) = SumFunction([d \in D |-> Summaries(E, D)[d].snapshots])
         /\ Cardinality(S) = Cardinality(D)
<1> DEFINE f == [d \in D |-> Summaries(E, D)[d].snapshots]
           g == [i \in S |-> ds[i].snapshots]
<1>1. \A d \in D : f[d] = BuildDaily(E, d).snapshots
  BY DEF Summaries
<1>2. f \in [D -> Int]
  <2>1. \A d \in D : BuildDaily(E, d).snapshots \in Nat
    BY SummaryIs
  <2>2. \A d \in D : f[d] \in Int
    BY <1>1, <2>1
  <2> QED
    BY <2>2
<1>3. DOMAIN g = S /\ g = [i \in S |-> g[i]]
  OBVIOUS
<1>4. \A i \in S : g[i] = f[name[i]]
  BY <1>1 DEF Lists
<1> HIDE DEF f, g
<1>5. SumFunction(g) = SumFunction(f)
  BY <1>2, <1>3, <1>4, SumRelisted DEF Lists
<1>6. Cardinality(S) = Cardinality(D)
  <2>1. name \in Bijection(S, D)
    <3>1. name \in Injection(S, D)
      BY DEF Lists, Injection, IsInjective
    <3>2. name \in Surjection(S, D)
      BY DEF Lists, Surjection
    <3> QED
      BY <3>1, <3>2 DEF Bijection
  <2> QED
    BY <2>1, FS_Bijection DEF Lists, ExistsBijection
<1> QED
  BY <1>5, <1>6 DEF f, g

LEMMA SessionsAreFinite ==
  ASSUME NEW E, IsList(E), NEW D, IsFiniteSet(D), NEW es, es = Summaries(E, D)
  PROVE  IsFiniteSet(AllSessions(es, D))
<1>1. \A d \in D : IsFiniteSet(es[d].sessions)
  <2>1. \A d \in D : es[d] = BuildDaily(E, d)
    BY DEF Summaries
  <2> QED
    BY <2>1, SummaryIsWhole
<1> DEFINE f == [d \in D |-> es[d].sessions]
           W == {es[d].sessions : d \in D}
<1>2. f \in Surjection(D, W)
  BY DEF Surjection
<1>3. IsFiniteSet(W) /\ \A x \in W : IsFiniteSet(x)
  BY <1>1, <1>2, FS_Surjection
<1> HIDE DEF W
<1>4. IsFiniteSet(UNION W)
  BY <1>3, FS_UNION
<1> QED
  BY <1>4 DEF W, AllSessions

\* What the summaries of the days D add up to is counted of sources they have.
LEMMA TotalsAreWhole ==
  ASSUME NEW E, IsList(E), NEW D, IsFiniteSet(D), NEW es, es = Summaries(E, D),
         NEW tot, tot = Totals([d \in D |-> es[d].totals]) ++ SessionCounts(es, D)
  PROVE  /\ IsCounts(Totals([d \in D |-> es[d].totals])) /\ IsCounts(SessionCounts(es, D))
         /\ \A m \in DOMAIN Totals([d \in D |-> es[d].totals]) : m[3] # "sessions"
         /\ \A m \in DOMAIN tot : m[1] = "source" => m[2] \in DOMAIN MergeAll(es, D)
<1>1. \A d \in D : es[d] = BuildDaily(E, d)
  BY DEF Summaries
<1> DEFINE fs == [d \in D |-> es[d].totals]
           X == UNION {es[d].sessions : d \in D}
           V == UNION {DOMAIN es[d].sources : d \in D}
<1>2. \A d \in D : IsCounts(fs[d]) /\ \A m \in DOMAIN fs[d] : m[3] # "sessions" /\ (m[1] = "source" => m[2] \in V)
  <2>1. ASSUME NEW d \in D
        PROVE  /\ IsCounts(es[d].totals)
               /\ \A m \in DOMAIN es[d].totals : m[3] # "sessions" /\ (m[1] = "source" => m[2] \in DOMAIN es[d].sources)
    <3>1. PICK b : b = BuildDaily(E, d) /\ b = es[d]
      BY <1>1
    <3>2. IsCounts(b.totals)
      BY <3>1, CountsOfDay
    <3>3. \A m \in DOMAIN b.totals : m[3] # "sessions" /\ (m[1] = "source" => m[2] \in DOMAIN b.sources)
      BY <3>1, SummaryIsWhole
    <3> QED
      BY <3>1, <3>2, <3>3
  <2> QED
    BY <2>1
<1>3. DOMAIN MergeAll(es, D) = V
  BY DEF MergeAll
<1>4. IsFiniteSet(X)
  BY SessionsAreFinite DEF AllSessions
<1>5. \A x \in X : x[1] \in V
  BY <1>1, SummaryIsWhole
<1>6. DOMAIN fs = D
  OBVIOUS
<1> HIDE DEF fs, V
<1>7. IsCounts(Totals(fs)) /\ DOMAIN Totals(fs) = UNION {DOMAIN fs[d] : d \in D}
  BY <1>2, <1>6, TotalsAre
<1>8. \A m \in DOMAIN Totals(fs) : m[3] # "sessions" /\ (m[1] = "source" => m[2] \in V)
  BY <1>2, <1>7
<1>9. /\ IsCounts(SessionCounts(es, D))
      /\ \A m \in DOMAIN SessionCounts(es, D) : m[3] = "sessions" /\ (m[1] = "source" => \E x \in X : m[2] = x[1])
  <2>1. PICK Y : Y = X
    OBVIOUS
  <2>2. Y = AllSessions(es, D) /\ IsFiniteSet(Y)
    BY <1>4, <2>1 DEF AllSessions
  <2> HIDE DEF X
  <2>3. CountsSessions(SessionCounts(es, D), Y)
    BY <2>2, SessionCountsAre
  <2> QED
    BY <2>1, <2>3 DEF CountsSessions
<1>10. \A m \in DOMAIN SessionCounts(es, D) : m[1] = "source" => m[2] \in V
  BY <1>5, <1>9
<1>11. DOMAIN tot = DOMAIN Totals(fs) \cup DOMAIN SessionCounts(es, D)
  BY <1>7, <1>9, AddedTogether DEF fs
<1>12. \A m \in DOMAIN tot : m[1] = "source" => m[2] \in V
  BY <1>8, <1>10, <1>11
<1> QED
  BY <1>3, <1>7, <1>8, <1>9, <1>12 DEF fs

\* Reports that may differ in the versions of their sources only.
SameReport(a, b) ==
  /\ a.values = b.values
  /\ Alike(a.sources, b.sources)
  /\ [a EXCEPT !.sources = Unversioned(@)] = [b EXCEPT !.sources = Unversioned(@)]

LEMMA RollupRelisted ==
  ASSUME NEW E, IsList(E), NEW ds, NEW p, NEW D, NEW name, Lists(name, ds, Dated(ds, p), E, D),
         \A d \in D : Contains(p, d * DayTicks),
         NEW a, a = Rollup(ds, p), NEW b, b = Rollup(Summaries(E, D), p)
  PROVE  SameReport(a, b)
<1>1. PICK S, es : S = Dated(ds, p) /\ es = Summaries(E, D)
  OBVIOUS
<1>2. IsFiniteSet(D) /\ Lists(name, ds, S, E, D)
  BY <1>1 DEF Lists
<1>3. D = Dated(es, p)
  <2>1. DOMAIN es = D /\ \A d \in D : es[d] = BuildDaily(E, d)
    BY <1>1 DEF Summaries
  <2>2. \A d \in D : es[d].date = d * DayTicks
    BY <2>1, DateIs
  <2> QED
    BY <2>1, <2>2 DEF Dated
<1>4. PICK tot : tot = Totals([d \in D |-> es[d].totals]) ++ SessionCounts(es, D)
  OBVIOUS
<1>5. tot = Totals([i \in S |-> ds[i].totals]) ++ SessionCounts(ds, S)
  BY <1>1, <1>2, <1>4, TotalsRelisted, SessionsRelisted
<1>6. PICK src, esrc : src = MergeAll(ds, S) /\ esrc = MergeAll(es, D)
  OBVIOUS
<1>7. Alike(src, esrc)
  BY <1>1, <1>2, <1>6, SourcesRelisted
<1>8. PICK c, n : /\ c = Coverage(Cardinality(S), p) /\ c = Coverage(Cardinality(D), p)
                  /\ n = SumFunction([i \in S |-> ds[i].snapshots])
                  /\ n = SumFunction([d \in D |-> es[d].snapshots])
  BY <1>1, <1>2, SnapshotsRelisted
<1>9. \A m \in DOMAIN tot : m[1] = "source" => m[2] \in DOMAIN esrc
  BY <1>1, <1>2, <1>4, <1>6, TotalsAreWhole
<1>10. a = Combined(src, tot, n, c)
  BY <1>1, <1>5, <1>6, <1>8, RollupIs
<1>11. b = Combined(esrc, tot, n, c)
  BY <1>1, <1>3, <1>4, <1>6, <1>8, RollupIs
<1> QED
  BY <1>7, <1>9, <1>10, <1>11, CombinedAlike DEF SameReport

-----------------------------------------------------------------------------
(* A period of whole days, and the summaries of its days.                  *)

\* The days D are of the period, and all the days of the period with events are in D.
Covers(E, D, p) ==
  /\ IsFiniteSet(D) /\ D \in SUBSET Nat
  /\ DaysWithin(E, p) \subseteq D
  /\ \A d \in D : Contains(p, d * DayTicks)

CountedOf(E, p) == {k \in Within(E, p) : ~IsSnapshot(E[k])}

LEMMA DaysTogether ==
  ASSUME NEW E, IsList(E), NEW p \in Periods, Aligned(p), NEW D, Covers(E, D, p)
  PROVE  /\ UNION {OnDay(E, d) : d \in D} = Within(E, p)
         /\ UNION {Counted(E, d) : d \in D} = CountedOf(E, p)
         /\ \A s : UNION {OfSource(E, d, s) : d \in D} = {n \in Within(E, p) : E[n].source = s}
         /\ \A d1, d2 \in D : d1 # d2 => OnDay(E, d1) \cap OnDay(E, d2) = {}
<1>1. \A n \in DOMAIN E : E[n].time \in Nat
  BY OccurrencesAssumption DEF IsList
<1>2. \A n \in DOMAIN E : Contains(p, E[n].time) <=> Contains(p, DayOf(E[n].time) * DayTicks)
  BY <1>1, WholeDays
<1>3. ASSUME NEW n
      PROVE  n \in Within(E, p) <=> \E d \in D : n \in OnDay(E, d)
  <2>1. n \in Within(E, p) <=> n \in DOMAIN E /\ Contains(p, E[n].time)
    BY DEF Within
  <2>2. \A d : n \in OnDay(E, d) <=> n \in DOMAIN E /\ DayOf(E[n].time) = d
    BY DEF OnDay
  <2>3. ASSUME n \in Within(E, p)
        PROVE  \E d \in D : n \in OnDay(E, d)
    <3>1. DayOf(E[n].time) \in D
      BY <2>3 DEF Covers, DaysWithin
    <3> QED
      BY <2>1, <2>2, <2>3, <3>1
  <2>4. ASSUME NEW d \in D, n \in OnDay(E, d)
        PROVE  n \in Within(E, p)
    <3>1. n \in DOMAIN E /\ DayOf(E[n].time) = d /\ Contains(p, d * DayTicks)
      BY <2>2, <2>4 DEF Covers
    <3> QED
      BY <1>2, <2>1, <3>1
  <2> QED
    BY <2>3, <2>4
<1>4. UNION {OnDay(E, d) : d \in D} = Within(E, p)
  BY <1>3
<1>5. UNION {Counted(E, d) : d \in D} = CountedOf(E, p)
  BY <1>3 DEF Counted, CountedOf
<1>6. \A s : UNION {OfSource(E, d, s) : d \in D} = {n \in Within(E, p) : E[n].source = s}
  BY <1>3 DEF OfSource
<1>7. \A d1, d2 \in D : d1 # d2 => OnDay(E, d1) \cap OnDay(E, d2) = {}
  BY DEF OnDay
<1> QED
  BY <1>4, <1>5, <1>6, <1>7

\* What the events of the period add to a metric.
AddedTo(E, m) == [n \in DOMAIN E |-> At(Added[E[n]], m)]

LEMMA TotalsTogether ==
  ASSUME NEW E, IsList(E), NEW p \in Periods, Aligned(p), NEW D, Covers(E, D, p),
         NEW es, es = Summaries(E, D), NEW m
  PROVE  /\ At(Totals([d \in D |-> es[d].totals]), m) = SumOf(AddedTo(E, m), CountedOf(E, p))
         /\ AddedTo(E, m) \in [DOMAIN E -> Int]
         /\ CountedOf(E, p) \in SUBSET DOMAIN E
<1> DEFINE g == AddedTo(E, m)
           T == [d \in D |-> Counted(E, d)]
           fs == [d \in D |-> es[d].totals]
<1>1. IsFiniteSet(D) /\ IsFiniteSet(DOMAIN E)
  BY DEF Covers, IsList
<1>2. g \in [DOMAIN E -> Int]
  <2>1. \A n \in DOMAIN E : At(Added[E[n]], m) \in Int
    BY AddedAt, AtIs DEF IsList
  <2> QED
    BY <2>1 DEF AddedTo
<1>3. \A d \in D : es[d] = BuildDaily(E, d)
  BY DEF Summaries
<1>4. ASSUME NEW d \in D
      PROVE  /\ IsCounts(fs[d])
             /\ At(fs[d], m) = SumOf(g, T[d])
  <2>1. PICK b : b = BuildDaily(E, d) /\ b = es[d]
    BY <1>3
  <2>2. At(b.totals, m) = DayAdds(E, d, m)
    BY <2>1, SummaryIs
  <2>6. IsCounts(b.totals)
    BY <2>1, CountsOfDay
  <2>3. PICK C : C = Counted(E, d) /\ C \in SUBSET DOMAIN E
    BY DaysAreFinite
  <2>4. [n \in C |-> At(Added[E[n]], m)] = [n \in C |-> g[n]]
    BY <2>3 DEF AddedTo
  <2>5. SumOf(g, C) = SumFunction([n \in C |-> g[n]])
    BY DEF SumOf
  <2> QED
    BY <2>1, <2>2, <2>3, <2>4, <2>5, <2>6 DEF DayAdds
<1>5. T \in [D -> SUBSET DOMAIN E]
  BY DaysAreFinite
<1>6. \A d1, d2 \in D : d1 # d2 => T[d1] \cap T[d2] = {}
  BY DEF Counted, OnDay
<1>7. UNION {T[d] : d \in D} = CountedOf(E, p)
  <2>1. UNION {T[d] : d \in D} = UNION {Counted(E, d) : d \in D}
    OBVIOUS
  <2> QED
    BY <2>1, DaysTogether
<1>8. DOMAIN fs = D
  OBVIOUS
<1> HIDE DEF g, T, fs
<1>9. At(Totals(fs), m) = SumFunction([d \in D |-> At(fs[d], m)])
  BY <1>1, <1>4, <1>8, TotalAt
<1>10. [d \in D |-> At(fs[d], m)] = [d \in D |-> SumOf(g, T[d])]
  BY <1>4
<1>11. SumFunction([d \in D |-> SumOf(g, T[d])]) = SumOf(g, UNION {T[d] : d \in D})
  BY <1>1, <1>2, <1>5, <1>6, SumOfSums
<1>12. At(Totals(fs), m) = SumOf(g, CountedOf(E, p))
  BY <1>7, <1>9, <1>10, <1>11
<1>13. CountedOf(E, p) \in SUBSET DOMAIN E
  BY DEF CountedOf, Within
<1> QED
  BY <1>2, <1>12, <1>13 DEF fs, g

LEMMA RollupOfDays ==
  ASSUME NEW E, IsList(E), NEW p, NEW D, Covers(E, D, p), NEW es, es = Summaries(E, D)
  PROVE  Dated(es, p) = D /\ \A d \in D : es[d] = BuildDaily(E, d)
<1>1. DOMAIN es = D /\ \A d \in D : es[d] = BuildDaily(E, d)
  BY DEF Summaries
<1>2. \A d \in D : es[d].date = d * DayTicks
  BY <1>1, DateIs
<1> QED
  BY <1>1, <1>2 DEF Dated, Covers

\* A rollup says of a metric what the events add to it, and counts sessions apart.
LEMMA ValuesAre ==
  ASSUME NEW E, IsList(E), NEW p \in Periods, Aligned(p), NEW D, Covers(E, D, p),
         NEW es, es = Summaries(E, D), NEW r, r = Rollup(es, p),
         NEW m, ~(m[1] = "combined" /\ m[3] = "tasks")
  PROVE  /\ m[3] # "sessions" => At(r.values, m) = SumOf(AddedTo(E, m), CountedOf(E, p))
         /\ m[3] = "sessions" => At(r.values, m) = At(SessionCounts(es, D), m)
<1>1. Dated(es, p) = D /\ IsFiniteSet(D)
  <2>1. Dated(es, p) = D
    BY RollupOfDays
  <2> QED
    BY <2>1 DEF Covers
<1>2. PICK f, g : f = Totals([d \in D |-> es[d].totals]) /\ g = SessionCounts(es, D)
  OBVIOUS
<1>3. PICK tot, src, n, c : tot = f ++ g /\ r = Combined(src, tot, n, c)
  BY <1>1, <1>2, RollupIs
<1>4. r.values = [k \in Reported(DOMAIN tot) |-> tot[k]]
  BY <1>3 DEF Combined
<1>5. IsCounts(f) /\ IsCounts(g) /\ \A k \in DOMAIN f : k[3] # "sessions"
  BY <1>1, <1>2, TotalsAreWhole
<1>6. At(tot, m) = At(f, m) + At(g, m) /\ At(f, m) \in Int /\ At(g, m) \in Int
  BY <1>3, <1>5, AddedTogether, AtIs
<1>7. m \in Reported(DOMAIN tot) <=> m \in DOMAIN tot
  BY DEF Reported
<1>8. At(r.values, m) = At(tot, m)
  BY <1>4, <1>7 DEF At
<1>9. \A k \in DOMAIN g : k[3] = "sessions"
  <2>1. PICK X : X = AllSessions(es, D)
    OBVIOUS
  <2>2. IsFiniteSet(X)
    BY <1>1, <2>1, SessionsAreFinite
  <2>3. CountsSessions(g, X)
    BY <1>2, <2>1, <2>2, SessionCountsAre
  <2> QED
    BY <2>3 DEF CountsSessions
<1>10. CASE m[3] # "sessions"
  <2>1. At(g, m) = 0
    BY <1>9, <1>10 DEF At
  <2>2. At(f, m) = SumOf(AddedTo(E, m), CountedOf(E, p))
    BY <1>2, TotalsTogether
  <2>3. At(r.values, m) = At(f, m)
    BY <1>6, <1>8, <2>1
  <2> QED
    BY <1>10, <2>2, <2>3
<1>11. CASE m[3] = "sessions"
  <2>1. At(f, m) = 0
    BY <1>5, <1>11 DEF At
  <2>2. At(r.values, m) = At(g, m)
    BY <1>6, <1>8, <2>1
  <2> QED
    BY <1>2, <1>11, <2>2
<1> QED
  BY <1>10, <1>11

\* The sum of a metric over the events at indices S, snapshots aside.
SumIn(E, S, name) == SumFunction([n \in {k \in S : ~IsSnapshot(E[k])} |-> Amount(E[n], name)])

\* Of a metric that only the events at indices S add to, a rollup says what they add.
LEMMA ValueIs ==
  ASSUME NEW E, IsList(E), NEW p \in Periods, Aligned(p), NEW D, Covers(E, D, p),
         NEW r, r = Rollup(Summaries(E, D), p), NEW name, name # "sessions",
         NEW m, m[3] = name, ~(m[1] = "combined" /\ name = "tasks"),
         NEW S \in SUBSET Within(E, p),
         \A n \in DOMAIN E : n \in S => At(Added[E[n]], m) = Amount(E[n], name),
         \A n \in Within(E, p) \ S : At(Added[E[n]], m) = 0
  PROVE  At(r.values, m) = SumIn(E, S, name)
<1>1. PICK es : es = Summaries(E, D)
  OBVIOUS
<1>2. PICK g, C : g = AddedTo(E, m) /\ C = CountedOf(E, p)
  OBVIOUS
<1>3. At(r.values, m) = SumOf(g, C)
  BY <1>1, <1>2, ValuesAre
<1>4. g \in [DOMAIN E -> Int] /\ C \in SUBSET DOMAIN E /\ IsFiniteSet(DOMAIN E)
  BY <1>1, <1>2, TotalsTogether DEF IsList
<1>5. PICK U : U = {k \in S : ~IsSnapshot(E[k])}
  OBVIOUS
<1>6. U \in SUBSET C /\ U \in SUBSET S
  BY <1>2, <1>5 DEF CountedOf
<1>7. \A n \in DOMAIN E : g[n] = At(Added[E[n]], m)
  BY <1>2 DEF AddedTo
<1>8. \A n \in C \ U : g[n] = 0
  <2>1. \A n \in C \ U : n \in Within(E, p) \ S
    BY <1>2, <1>5 DEF CountedOf
  <2> QED
    BY <1>4, <1>7, <2>1
<1>9. SumOf(g, C) = SumOf(g, U)
  BY <1>4, <1>6, <1>8, SumSupport
<1>10. \A n \in U : g[n] = Amount(E[n], name)
  BY <1>4, <1>6, <1>7
<1>11. [n \in U |-> g[n]] = [n \in U |-> Amount(E[n], name)]
  BY <1>10
<1>12. SumIn(E, S, name) = SumFunction([n \in U |-> Amount(E[n], name)])
  BY <1>5 DEF SumIn
<1>13. SumOf(g, U) = SumFunction([n \in U |-> g[n]])
  BY DEF SumOf
<1> QED
  BY <1>3, <1>9, <1>11, <1>12, <1>13

SourceIs(E, p, r, s, name) ==
  At(r.values, <<"source", s, name>>) = SumIn(E, {n \in Within(E, p) : E[n].source = s}, name)

ModelIs(E, p, r, model, name) ==
  At(r.values, <<"model", model, name>>) = SumIn(E, {n \in Within(E, p) : E[n].model = model}, name)

LEMMA MetricsAreExact ==
  ASSUME NEW E, IsList(E), NEW p \in Periods, Aligned(p), NEW D, Covers(E, D, p),
         NEW r, r = Rollup(Summaries(E, D), p), NEW name, name # "sessions"
  PROVE  /\ name # "tasks" =>
              At(r.values, <<"combined", Missing, name>>) = SumIn(E, Within(E, p), name)
         /\ \A s : SourceIs(E, p, r, s, name)
         /\ name \in ModelMetrics => \A model : model # Missing => ModelIs(E, p, r, model, name)
<1>1. \A n \in DOMAIN E : E[n] \in Occurrences
  BY DEF IsList
<1>2. Within(E, p) \in SUBSET DOMAIN E
  BY DEF Within
<1>3. ASSUME name # "tasks"
      PROVE  At(r.values, <<"combined", Missing, name>>) = SumIn(E, Within(E, p), name)
  <2>1. PICK m, S : m = <<"combined", Missing, name>> /\ S = Within(E, p)
    OBVIOUS
  <2>2. m[3] = name /\ ~(m[1] = "combined" /\ name = "tasks")
    BY <1>3, <2>1
  <2>3. \A n \in DOMAIN E : n \in S => At(Added[E[n]], m) = Amount(E[n], name)
    BY <1>1, <2>1, AddedAt
  <2>4. S \in SUBSET Within(E, p) /\ \A n \in Within(E, p) \ S : At(Added[E[n]], m) = 0
    BY <2>1
  <2>5. At(r.values, m) = SumIn(E, S, name)
    BY <2>2, <2>3, <2>4, ValueIs
  <2> QED
    BY <2>1, <2>5
<1>4. ASSUME NEW s
      PROVE  At(r.values, <<"source", s, name>>) = SumIn(E, {n \in Within(E, p) : E[n].source = s}, name)
  <2>1. PICK m, S : m = <<"source", s, name>> /\ S = {n \in Within(E, p) : E[n].source = s}
    OBVIOUS
  <2>2. m[3] = name /\ ~(m[1] = "combined" /\ name = "tasks")
    BY <2>1
  <2>3. \A n \in DOMAIN E : At(Added[E[n]], m) = IF E[n].source = s THEN Amount(E[n], name) ELSE 0
    BY <1>1, <2>1, AddedAt
  <2>4. \A n \in DOMAIN E : n \in S => At(Added[E[n]], m) = Amount(E[n], name)
    BY <2>1, <2>3
  <2>5. S \in SUBSET Within(E, p) /\ \A n \in Within(E, p) \ S : At(Added[E[n]], m) = 0
    BY <1>2, <2>1, <2>3
  <2>6. At(r.values, m) = SumIn(E, S, name)
    BY <2>2, <2>4, <2>5, ValueIs
  <2> QED
    BY <2>1, <2>6
<1>5. ASSUME name \in ModelMetrics, NEW model, model # Missing
      PROVE  At(r.values, <<"model", model, name>>) = SumIn(E, {n \in Within(E, p) : E[n].model = model}, name)
  <2>1. PICK m, S : m = <<"model", model, name>> /\ S = {n \in Within(E, p) : E[n].model = model}
    OBVIOUS
  <2>2. m[3] = name /\ ~(m[1] = "combined" /\ name = "tasks")
    BY <2>1
  <2>3. \A n \in DOMAIN E : At(Added[E[n]], m) = IF E[n].model = model THEN Amount(E[n], name) ELSE 0
    BY <1>1, <1>5, <2>1, AddedAt
  <2>4. \A n \in DOMAIN E : n \in S => At(Added[E[n]], m) = Amount(E[n], name)
    BY <2>1, <2>3
  <2>5. S \in SUBSET Within(E, p) /\ \A n \in Within(E, p) \ S : At(Added[E[n]], m) = 0
    BY <1>2, <2>1, <2>3
  <2>6. At(r.values, m) = SumIn(E, S, name)
    BY <2>2, <2>4, <2>5, ValueIs
  <2> QED
    BY <2>1, <2>6
<1> QED
  BY <1>3, <1>4, <1>5 DEF SourceIs, ModelIs

LEMMA SameSize ==
  ASSUME NEW S, NEW T, IsFiniteSet(S), NEW f \in [S -> T],
         \A x, y \in S : f[x] = f[y] => x = y, \A y \in T : \E x \in S : f[x] = y
  PROVE  Cardinality(S) = Cardinality(T)
<1>1. f \in Injection(S, T)
  BY DEF Injection, IsInjective
<1>2. f \in Surjection(S, T)
  BY DEF Surjection
<1>3. f \in Bijection(S, T)
  BY <1>1, <1>2 DEF Bijection
<1> QED
  BY <1>3, FS_Bijection DEF ExistsBijection

\* The sessions of the events at indices S.
SessionsIn(E, S) ==
  {E[n].session : n \in {k \in S : E[k].session # Missing /\ IsSessionScoped(E[k])}}

\* A session that events of several days have is counted once.
LEMMA SessionsAreExact ==
  ASSUME NEW E, IsList(E), NEW p \in Periods, Aligned(p), NEW D, Covers(E, D, p),
         NEW r, r = Rollup(Summaries(E, D), p)
  PROVE  /\ At(r.values, <<"combined", Missing, "sessions">>) = Cardinality(SessionsIn(E, Within(E, p)))
         /\ \A s : At(r.values, <<"source", s, "sessions">>)
                     = Cardinality(SessionsIn(E, {n \in Within(E, p) : E[n].source = s}))
<1>1. PICK es, X, g : es = Summaries(E, D) /\ X = AllSessions(es, D) /\ g = SessionCounts(es, D)
  OBVIOUS
<1>2. \A d \in D : es[d] = BuildDaily(E, d)
  BY <1>1, RollupOfDays
<1>3. IsFiniteSet(X)
  <2>1. IsFiniteSet(D)
    BY DEF Covers
  <2> QED
    BY <1>1, <2>1, SessionsAreFinite
<1>4. CountsSessions(g, X)
  BY <1>1, <1>3, SessionCountsAre
<1> DEFINE Scoped(T) == {k \in T : E[k].session # Missing /\ IsSessionScoped(E[k])}
           W == Within(E, p)
<1>5. \A k \in W : IsSessionScoped(E[k]) => ~IsSnapshot(E[k])
  BY DEF IsSessionScoped, IsSnapshot
<1>6. X = {<<E[n].source, E[n].session>> : n \in Scoped(W)}
  <2>1. \A d \in D : es[d].sessions = {<<E[n].source, E[n].session>> : n \in Scoped(Counted(E, d))}
    <3>1. ASSUME NEW d \in D
          PROVE  es[d].sessions = {<<E[n].source, E[n].session>> : n \in Scoped(Counted(E, d))}
      <4>1. BuildDaily(E, d).sessions = {<<E[n].source, E[n].session>> : n \in Scoped(Counted(E, d))}
        BY SessionsAre
      <4> QED
        BY <1>2, <4>1
    <3> QED
      BY <3>1
  <2>2. UNION {Counted(E, d) : d \in D} = CountedOf(E, p)
    BY DaysTogether
  <2>3. Scoped(CountedOf(E, p)) = Scoped(W)
    BY <1>5 DEF CountedOf
  <2>4. \A n : n \in Scoped(W) <=> \E d \in D : n \in Scoped(Counted(E, d))
    <3>1. \A n : n \in CountedOf(E, p) <=> \E d \in D : n \in Counted(E, d)
      BY <2>2
    <3>2. \A n, T : n \in Scoped(T) <=> n \in T /\ E[n].session # Missing /\ IsSessionScoped(E[n])
      OBVIOUS
    <3> HIDE DEF Scoped, W
    <3> QED
      BY <2>3, <3>1, <3>2
  <2>5. X = UNION {es[d].sessions : d \in D}
    BY <1>1 DEF AllSessions
  <2> HIDE DEF Scoped, W
  <2>6. \A x : x \in X <=> \E d \in D : x \in es[d].sessions
    BY <2>5
  <2>7. \A x : x \in X <=> \E n \in Scoped(W) : x = <<E[n].source, E[n].session>>
    BY <2>1, <2>4, <2>6
  <2> QED
    BY <2>7
<1>7. SessionsIn(E, W) = {x[2] : x \in X}
  <2>1. SessionsIn(E, W) = {E[n].session : n \in Scoped(W)}
    BY DEF SessionsIn
  <2> HIDE DEF Scoped, W
  <2>2. \A n \in Scoped(W) : <<E[n].source, E[n].session>> \in X /\ <<E[n].source, E[n].session>>[2] = E[n].session
    BY <1>6
  <2>3. \A x \in X : \E n \in Scoped(W) : x[2] = E[n].session
    BY <1>6
  <2> QED
    BY <2>1, <2>2, <2>3
<1>8. ASSUME NEW s
      PROVE  Cardinality({x \in X : x[1] = s}) = Cardinality(SessionsIn(E, {n \in W : E[n].source = s}))
  <2> DEFINE Y == {x \in X : x[1] = s}
             Z == SessionsIn(E, {n \in W : E[n].source = s})
             f == [x \in Y |-> x[2]]
  <2>1. Z = {E[n].session : n \in {k \in Scoped(W) : E[k].source = s}}
    BY DEF SessionsIn
  <2> HIDE DEF Scoped, W, Z
  <2>2. \A x \in Y : x = <<s, x[2]>> /\ x[2] \in Z
    BY <1>6, <2>1
  <2>3. \A y \in Z : <<s, y>> \in Y
    BY <1>6, <2>1
  <2>4. IsFiniteSet(Y)
    BY <1>3, FS_Subset
  <2> HIDE DEF Y
  <2>5. f \in [Y -> Z] /\ \A x \in Y : f[x] = x[2]
    BY <2>2
  <2> HIDE DEF f
  <2>6. \A x, y \in Y : f[x] = f[y] => x = y
    BY <2>2, <2>5
  <2>7. \A y \in Z : \E x \in Y : f[x] = y
    BY <2>3, <2>5
  <2>8. Cardinality(Y) = Cardinality(Z)
    BY <2>4, <2>5, <2>6, <2>7, SameSize
  <2> QED
    BY <2>8 DEF Y, Z
<1>9. ASSUME NEW m, m[3] = "sessions"
      PROVE  At(r.values, m) = At(g, m)
  BY <1>1, <1>9, ValuesAre
<1>10. At(r.values, <<"combined", Missing, "sessions">>) = Cardinality({x[2] : x \in X})
  <2>1. PICK m : m = <<"combined", Missing, "sessions">>
    OBVIOUS
  <2>2. m[3] = "sessions"
    BY <2>1
  <2>3. At(g, m) = Cardinality({x[2] : x \in X})
    BY <1>4, <2>1 DEF CountsSessions
  <2> QED
    BY <1>9, <2>1, <2>2, <2>3
<1>11. ASSUME NEW s
       PROVE  At(r.values, <<"source", s, "sessions">>) = Cardinality({x \in X : x[1] = s})
  <2>1. PICK m : m = <<"source", s, "sessions">>
    OBVIOUS
  <2>2. m[3] = "sessions"
    BY <2>1
  <2>3. At(g, m) = Cardinality({x \in X : x[1] = s})
    BY <1>4, <2>1 DEF CountsSessions
  <2> QED
    BY <1>9, <2>1, <2>2, <2>3
<1> QED
  BY <1>7, <1>8, <1>10, <1>11

\* Every event of the period, snapshots included, counts for its source.
LEMMA SourceCountsAreExact ==
  ASSUME NEW E, IsList(E), NEW p \in Periods, Aligned(p), NEW D, Covers(E, D, p),
         NEW r, r = Rollup(Summaries(E, D), p), NEW s \in DOMAIN r.sources
  PROVE  r.sources[s].count = Cardinality({n \in Within(E, p) : E[n].source = s})
<1>1. PICK es : es = Summaries(E, D)
  OBVIOUS
<1>2. Dated(es, p) = D /\ \A d \in D : es[d] = BuildDaily(E, d)
  BY <1>1, RollupOfDays
<1>3. r.sources = MergeAll(es, D)
  <2>1. PICK src, tot, n, c : src = MergeAll(es, D) /\ r = Combined(src, tot, n, c)
    BY <1>1, <1>2, RollupIs
  <2> QED
    BY <2>1 DEF Combined
<1> DEFINE D1 == {d \in D : s \in DOMAIN es[d].sources}
           T == [d \in D1 |-> OfSource(E, d, s)]
<1>4. r.sources[s] = Merge(es, D1, s)
  BY <1>3 DEF MergeAll
<1>5. r.sources[s].count = SumFunction([d \in D1 |-> es[d].sources[s].count])
  BY <1>4 DEF Merge
<1>6. \A d \in D1 : es[d].sources[s].count = Cardinality(OfSource(E, d, s))
  BY <1>2, SourcesAre
<1>7. \A d \in D : d \notin D1 => OfSource(E, d, s) = {}
  <2>1. ASSUME NEW d \in D, d \notin D1, OfSource(E, d, s) # {}
        PROVE  FALSE
    <3>1. PICK n \in OnDay(E, d) : E[n].source = s
      BY <2>1 DEF OfSource
    <3>2. s \in DOMAIN BuildDaily(E, d).sources
      BY <3>1, SourcesAre
    <3> QED
      BY <1>2, <2>1, <3>2
  <2> QED
    BY <2>1
<1>8. IsFiniteSet(D1) /\ IsFiniteSet(DOMAIN E)
  <2>1. IsFiniteSet(D) /\ D1 \in SUBSET D
    BY DEF Covers
  <2> HIDE DEF D1
  <2> QED
    BY <2>1, FS_Subset DEF IsList
<1>9. T \in [D1 -> SUBSET DOMAIN E] /\ \A d1, d2 \in D1 : d1 # d2 => T[d1] \cap T[d2] = {}
  <2>1. \A d : OfSource(E, d, s) \in SUBSET DOMAIN E
    BY DEF OfSource, OnDay
  <2>2. \A d1, d2 : d1 # d2 => OfSource(E, d1, s) \cap OfSource(E, d2, s) = {}
    BY DEF OfSource, OnDay
  <2> HIDE DEF D1
  <2> QED
    BY <2>1, <2>2
<1>10. [d \in D1 |-> es[d].sources[s].count] = [d \in D1 |-> Cardinality(T[d])]
  <2>1. \A d \in D1 : T[d] = OfSource(E, d, s)
    OBVIOUS
  <2> HIDE DEF D1, T
  <2> QED
    BY <1>6, <2>1
<1>11. UNION {T[d] : d \in D1} = {n \in Within(E, p) : E[n].source = s}
  <2>1. UNION {OfSource(E, d, s) : d \in D} = {n \in Within(E, p) : E[n].source = s}
    BY DaysTogether
  <2>2. \A d \in D1 : T[d] = OfSource(E, d, s) /\ d \in D
    OBVIOUS
  <2> HIDE DEF D1, T
  <2>3. UNION {T[d] : d \in D1} = UNION {OfSource(E, d, s) : d \in D}
    BY <1>7, <2>2
  <2> QED
    BY <2>1, <2>3
<1> HIDE DEF D1, T
<1>12. SumFunction([d \in D1 |-> Cardinality(T[d])]) = Cardinality(UNION {T[d] : d \in D1})
  BY <1>8, <1>9, SumOfSizes
<1> QED
  BY <1>5, <1>10, <1>11, <1>12

-----------------------------------------------------------------------------
(* What a report is made of.                                               *)

LEMMA DaysWithinAre ==
  ASSUME NEW E, IsList(E), NEW p \in Periods, Aligned(p)
  PROVE  /\ Covers(E, DaysWithin(E, p), p)
         /\ \A d : Contains(p, d * DayTicks) /\ d \notin DaysWithin(E, p) => OnDay(E, d) = {}
<1>1. \A n \in DOMAIN E : E[n].time \in Nat
  BY OccurrencesAssumption DEF IsList
<1>2. \A n \in DOMAIN E : Contains(p, E[n].time) <=> Contains(p, DayOf(E[n].time) * DayTicks)
  BY <1>1, WholeDays
<1>3. Within(E, p) \in SUBSET DOMAIN E /\ \A n \in Within(E, p) : Contains(p, E[n].time)
  BY DEF Within
<1>4. IsFiniteSet(DaysWithin(E, p))
  <2> DEFINE f == [n \in Within(E, p) |-> DayOf(E[n].time)]
  <2>1. f \in Surjection(Within(E, p), DaysWithin(E, p))
    BY DEF Surjection, DaysWithin
  <2>2. IsFiniteSet(Within(E, p))
    BY <1>3, FS_Subset DEF IsList
  <2> QED
    BY <2>1, <2>2, FS_Surjection
<1>5. DaysWithin(E, p) \in SUBSET Nat
  BY <1>1, <1>3, DayBounds DEF DaysWithin
<1>6. \A d \in DaysWithin(E, p) : Contains(p, d * DayTicks)
  BY <1>2, <1>3 DEF DaysWithin
<1>7. Covers(E, DaysWithin(E, p), p)
  BY <1>4, <1>5, <1>6 DEF Covers
<1>8. ASSUME NEW d, Contains(p, d * DayTicks), d \notin DaysWithin(E, p), NEW n \in OnDay(E, d)
      PROVE  FALSE
  <2>1. n \in DOMAIN E /\ DayOf(E[n].time) = d
    BY <1>8 DEF OnDay
  <2>2. n \in Within(E, p)
    BY <1>2, <1>8, <2>1 DEF Within
  <2> QED
    BY <1>8, <2>1, <2>2 DEF DaysWithin
<1> QED
  BY <1>7, <1>8

\* The days of an order, each once.
LEMMA OrdersAre ==
  ASSUME NEW D, IsFiniteSet(D), NEW order \in Orders(D)
  PROVE  /\ IsFiniteSet(DOMAIN order) /\ order \in [DOMAIN order -> D]
         /\ \A i, j \in DOMAIN order : order[i] = order[j] => i = j
         /\ \A d \in D : \E i \in DOMAIN order : order[i] = d
<1>1. Cardinality(D) \in Nat
  BY FS_CardinalityType
<1>2. PICK N : N = 1 .. Cardinality(D)
  OBVIOUS
<1>3. order \in [N -> D] /\ IsInjective(order) /\ \A d \in D : \E i \in N : order[i] = d
  BY <1>2 DEF Orders, Bijection, Injection, Surjection
<1>4. DOMAIN order = N
  BY <1>3
<1>5. IsFiniteSet(N)
  BY <1>1, <1>2, FS_Interval
<1> QED
  BY <1>3, <1>4, <1>5 DEF IsInjective

LEMMA BucketIsWhole ==
  ASSUME NEW E, IsList(E), NEW p \in Periods, Aligned(p), NEW d, Contains(p, d * DayTicks)
  PROVE  BuildDaily(Bucket(E, p, d), d) = BuildDaily(E, d)
<1>1. PICK B : B = Bucket(E, p, d)
  OBVIOUS
<1>2. /\ DOMAIN B = {n \in Within(E, p) : DayOf(E[n].time) = d}
      /\ \A n \in DOMAIN B : B[n] = E[n]
  BY <1>1 DEF Bucket, Restrict
<1>3. DOMAIN B \in SUBSET DOMAIN E
  BY <1>2 DEF Within
<1>4. IsList(B)
  <2>1. IsFiniteSet(DOMAIN B)
    BY <1>3, FS_Subset DEF IsList
  <2> QED
    BY <1>2, <1>3, <2>1 DEF IsList
<1>5. OnDay(B, d) = DOMAIN B
  BY <1>2 DEF OnDay
<1>6. OnDay(E, d) = DOMAIN B
  <2>1. \A n \in DOMAIN E : E[n].time \in Nat
    BY OccurrencesAssumption DEF IsList
  <2>2. \A n \in DOMAIN E : DayOf(E[n].time) = d => Contains(p, E[n].time)
    BY <2>1, WholeDays
  <2> QED
    BY <1>2, <2>2 DEF OnDay, Within
<1> QED
  BY <1>1, <1>2, <1>4, <1>5, <1>6, SameDaySameSummary

\* Build rolls up the summaries of the days with events.
LEMMA BuildIs ==
  ASSUME NEW E, IsList(E), NEW p \in Periods, Aligned(p), NEW order \in Orders(DaysWithin(E, p))
  PROVE  \E ds, name : /\ Build(E, p, order) = Rollup(ds, p)
                       /\ Lists(name, ds, Dated(ds, p), E, DaysWithin(E, p))
<1>1. PICK D : D = DaysWithin(E, p)
  OBVIOUS
<1>2. IsFiniteSet(D) /\ \A d \in D : Contains(p, d * DayTicks)
  BY <1>1, DaysWithinAre DEF Covers
<1>3. /\ IsFiniteSet(DOMAIN order) /\ order \in [DOMAIN order -> D]
      /\ \A i, j \in DOMAIN order : order[i] = order[j] => i = j
      /\ \A d \in D : \E i \in DOMAIN order : order[i] = d
  BY <1>1, <1>2, OrdersAre
<1>4. PICK ds : ds = [i \in DOMAIN order |-> BuildDaily(Bucket(E, p, order[i]), order[i])]
  OBVIOUS
<1>5. Build(E, p, order) = Rollup(ds, p)
  BY <1>4 DEF Build
<1>6. DOMAIN ds = DOMAIN order /\ \A i \in DOMAIN order : ds[i] = BuildDaily(Bucket(E, p, order[i]), order[i])
  BY <1>4
<1>7. \A i \in DOMAIN order : Contains(p, order[i] * DayTicks)
  BY <1>2, <1>3
<1>8. \A i \in DOMAIN order : ds[i] = BuildDaily(E, order[i])
  BY <1>6, <1>7, BucketIsWhole
<1>9. Dated(ds, p) = DOMAIN order
  <2>1. \A i \in DOMAIN order : ds[i].date = order[i] * DayTicks
    BY <1>8, DateIs
  <2> QED
    BY <1>6, <1>7, <2>1 DEF Dated
<1>10. Lists(order, ds, Dated(ds, p), E, D)
  BY <1>2, <1>3, <1>8, <1>9 DEF Lists
<1> QED
  BY <1>1, <1>5, <1>10

-----------------------------------------------------------------------------
(* The inductive invariant: a summary that is kept was made of the events  *)
(* there were then, a report of what there is now.                         *)

Remembered ==
  /\ IsFiniteSet(CachedDays) /\ CachedDays \subseteq Days
  /\ \A d \in CachedDays : \E k \in 0 .. Len(log) : cache[d] = BuildDaily(SubSeq(log, 1, k), d)

Reporting ==
  \/ report = NoReport
  \/ /\ report.period \in Periods
     /\ report.by = "build"
     /\ \E order \in Orders(DaysWithin(log, report.period)) : report.is = Build(log, report.period, order)
  \/ /\ report.period \in Periods
     /\ report.by = "rollup"
     /\ \E order \in Orders(CachedDays) :
          report.is = Rollup([i \in DOMAIN order |-> cache[order[i]]], report.period)

Inv ==
  /\ log \in Seq(Occurrences) /\ Len(log) <= MaxEvents
  /\ Remembered
  /\ Reporting

LEMMA LogIsList ==
  ASSUME NEW L \in Seq(Occurrences), NEW k \in 0 .. Len(L)
  PROVE  /\ IsList(L) /\ IsList(SubSeq(L, 1, k))
         /\ DOMAIN SubSeq(L, 1, k) \subseteq DOMAIN L
         /\ \A n \in DOMAIN SubSeq(L, 1, k) : SubSeq(L, 1, k)[n] = L[n]
<1>1. Len(L) \in Nat /\ k \in Nat /\ k <= Len(L)
  OBVIOUS
<1>2. DOMAIN L = 1 .. Len(L) /\ \A n \in DOMAIN L : L[n] \in Occurrences
  OBVIOUS
<1>3. /\ SubSeq(L, 1, k) \in Seq(Occurrences) /\ Len(SubSeq(L, 1, k)) = k
      /\ \A n \in 1 .. k : SubSeq(L, 1, k)[n] = L[n]
  BY <1>1
<1>4. DOMAIN SubSeq(L, 1, k) = 1 .. k
  BY <1>3
<1>5. IsFiniteSet(1 .. Len(L)) /\ IsFiniteSet(1 .. k)
  BY <1>1, FS_Interval
<1> QED
  BY <1>1, <1>2, <1>3, <1>4, <1>5 DEF IsList

LEMMA InvInit == Init => Inv
<1> SUFFICES ASSUME Init PROVE Inv
  OBVIOUS
<1>1. CachedDays = {}
  BY DEF Init, Nothing, CachedDays
<1>2. Remembered
  BY <1>1, FS_EmptySet DEF Remembered
<1>3. log \in Seq(Occurrences) /\ Len(log) <= MaxEvents
  BY MaxEventsAssumption DEF Init
<1> QED
  BY <1>2, <1>3 DEF Inv, Init, Reporting

LEMMA InvNext == Inv /\ [Next]_vars => Inv'
<1> SUFFICES ASSUME Inv, [Next]_vars PROVE Inv'
  OBVIOUS
<1>0. /\ log \in Seq(Occurrences) /\ Len(log) <= MaxEvents /\ Len(log) \in Nat
      /\ IsFiniteSet(CachedDays) /\ CachedDays \subseteq Days
      /\ \A d \in CachedDays : \E k \in 0 .. Len(log) : cache[d] = BuildDaily(SubSeq(log, 1, k), d)
      /\ Reporting
  BY DEF Inv, Remembered
<1>1. ASSUME NEW e \in Occurrences, Store(e)
      PROVE  Inv'
  <2>1. log' = Append(log, e) /\ Len(log) < MaxEvents /\ cache' = cache /\ report' = NoReport
    BY <1>1 DEF Store
  <2>2. log' \in Seq(Occurrences) /\ Len(log') = Len(log) + 1 /\ Len(log') <= MaxEvents
    BY <1>0, <2>1, MaxEventsAssumption
  <2>3. CachedDays' = CachedDays
    BY <2>1 DEF CachedDays
  <2>4. ASSUME NEW d \in CachedDays
        PROVE  \E k \in 0 .. Len(log') : cache'[d] = BuildDaily(SubSeq(log', 1, k), d)
    <3>1. PICK k \in 0 .. Len(log) : cache[d] = BuildDaily(SubSeq(log, 1, k), d)
      BY <1>0
    <3>2. SubSeq(log', 1, k) = SubSeq(log, 1, k)
      <4>1. \A n \in 1 .. k : Append(log, e)[n] = log[n]
        BY <1>0
      <4>2. k \in Nat /\ k <= Len(log) /\ k <= Len(log')
        BY <1>0, <2>2
      <4>3. SubSeq(log, 1, k) = [n \in 1 .. k |-> log[n]]
        BY <1>0, <4>2
      <4>4. SubSeq(log', 1, k) = [n \in 1 .. k |-> log'[n]]
        BY <2>2, <4>2
      <4> QED
        BY <2>1, <4>1, <4>3, <4>4
    <3>3. k \in 0 .. Len(log')
      BY <1>0, <2>2
    <3> QED
      BY <2>1, <3>1, <3>2, <3>3
  <2>5. Remembered'
    BY <1>0, <2>3, <2>4 DEF Remembered
  <2>6. Reporting'
    BY <2>1 DEF Reporting
  <2> QED
    BY <2>2, <2>5, <2>6 DEF Inv
<1>2. ASSUME NEW day \in Days, Summarize(day)
      PROVE  Inv'
  <2>1. /\ cache' = [c \in CachedDays \cup {day} |-> IF c = day THEN BuildDaily(log, day) ELSE cache[c]]
        /\ log' = log /\ report' = NoReport
    BY <1>2 DEF Summarize
  <2>2. CachedDays' = CachedDays \cup {day}
    BY <2>1 DEF CachedDays
  <2>3. IsFiniteSet(CachedDays') /\ CachedDays' \subseteq Days
    BY <1>0, <2>2, FS_AddElement
  <2>4. ASSUME NEW d \in CachedDays'
        PROVE  \E k \in 0 .. Len(log) : cache'[d] = BuildDaily(SubSeq(log, 1, k), d)
    <3>1. CASE d = day
      <4>1. SubSeq(log, 1, Len(log)) = log /\ Len(log) \in 0 .. Len(log)
        BY <1>0
      <4>2. cache'[d] = BuildDaily(log, d)
        BY <2>1, <2>2, <3>1
      <4> QED
        BY <4>1, <4>2
    <3>2. CASE d # day
      <4>1. d \in CachedDays /\ cache'[d] = cache[d]
        BY <2>1, <2>2, <2>4, <3>2
      <4> QED
        BY <1>0, <4>1
    <3> QED
      BY <3>1, <3>2
  <2>5. Remembered'
    BY <2>1, <2>3, <2>4 DEF Remembered
  <2>6. Reporting'
    BY <2>1 DEF Reporting
  <2> QED
    BY <1>0, <2>1, <2>5, <2>6 DEF Inv
<1>3. ASSUME NEW p \in Periods, BuildReport(p)
      PROVE  Inv'
  <2>1. PICK order \in Orders(DaysWithin(log, p)) :
          report' = [by |-> "build", period |-> p, is |-> Build(log, p, order)]
    BY <1>3 DEF BuildReport
  <2>2. log' = log /\ cache' = cache
    BY <1>3 DEF BuildReport
  <2>3. /\ report'.period = p /\ report'.by = "build" /\ report'.is = Build(log, p, order)
    BY <2>1
  <2>4. Reporting'
    BY <2>2, <2>3 DEF Reporting
  <2>5. Remembered'
    BY <1>0, <2>2 DEF Remembered, CachedDays
  <2> QED
    BY <1>0, <2>2, <2>4, <2>5 DEF Inv
<1>4. ASSUME NEW p \in Periods, RollUp(p)
      PROVE  Inv'
  <2>1. PICK order \in Orders(CachedDays) :
          report' = [by |-> "rollup", period |-> p, is |-> Rollup([i \in DOMAIN order |-> cache[order[i]]], p)]
    BY <1>4 DEF RollUp
  <2>2. log' = log /\ cache' = cache /\ CachedDays' = CachedDays
    BY <1>4 DEF RollUp, CachedDays
  <2>3. /\ report'.period = p /\ report'.by = "rollup"
        /\ report'.is = Rollup([i \in DOMAIN order |-> cache[order[i]]], p)
    BY <2>1
  <2>4. Reporting'
    BY <2>2, <2>3 DEF Reporting
  <2>5. Remembered'
    BY <1>0, <2>2 DEF Remembered
  <2> QED
    BY <1>0, <2>2, <2>4, <2>5 DEF Inv
<1>5. CASE UNCHANGED vars
  <2>1. log' = log /\ cache' = cache /\ report' = report /\ CachedDays' = CachedDays
    BY <1>5 DEF vars, CachedDays
  <2>2. Reporting'
    BY <1>0, <2>1 DEF Reporting
  <2>3. Remembered'
    BY <1>0, <2>1 DEF Remembered
  <2> QED
    BY <1>0, <2>1, <2>2, <2>3 DEF Inv
<1> QED
  BY <1>1, <1>2, <1>3, <1>4, <1>5 DEF Next

\* A summary that is kept is of its day as it was, a report of what there is now.
THEOREM ReportInvariant == Spec => []Inv
<1> QED
  BY InvInit, InvNext, PTL DEF Spec

-----------------------------------------------------------------------------
(* Types.                                                                  *)

LEMMA MinOf ==
  ASSUME NEW m \in Nat, NEW n \in Nat
  PROVE  Min({m, n}) \in Nat /\ Min({m, n}) <= n
<1>1. {m, n} \in SUBSET Nat /\ {m, n} # {}
  OBVIOUS
<1>2. \E x \in {m, n} : \A y \in {m, n} : x <= y
  BY <1>1, Least
<1>3. Min({m, n}) \in {m, n} /\ \A y \in {m, n} : Min({m, n}) <= y
  BY <1>2 DEF Min
<1> QED
  BY <1>3

LEMMA CoverageIs ==
  ASSUME NEW p \in Periods, NEW n \in Nat
  PROVE  Coverage(n, p)[1] <= Coverage(n, p)[2]
<1> DEFINE W == {d \in DayOf(p.start) .. DayOf(p.end) : d * DayTicks < p.end}
<1>1. ExpectedDays(p) \in Nat
  <2>1. CASE p.start = ZeroTime \/ p.end = ZeroTime
    BY <2>1 DEF ExpectedDays
  <2>2. CASE ~(p.start = ZeroTime \/ p.end = ZeroTime)
    <3>1. DayOf(p.start) \in Nat /\ DayOf(p.end) \in Nat
      BY PeriodsAssumption, DayBounds
    <3>2. IsFiniteSet(DayOf(p.start) .. DayOf(p.end)) /\ W \in SUBSET (DayOf(p.start) .. DayOf(p.end))
      BY <3>1, FS_Interval
    <3> HIDE DEF W
    <3>3. Cardinality(W) \in Nat
      BY <3>2, FS_Subset, FS_CardinalityType
    <3> QED
      BY <2>2, <3>3 DEF ExpectedDays, W
  <2> QED
    BY <2>1, <2>2
<1>2. CASE ExpectedDays(p) = 0
  BY <1>2 DEF Coverage
<1>3. CASE ExpectedDays(p) # 0
  <2>1. PICK e \in Nat : e = ExpectedDays(p)
    BY <1>1
  <2>2. PICK m : m = Min({n, e}) /\ m <= e
    BY MinOf
  <2>3. Coverage(n, p) = <<m, e>>
    BY <1>3, <2>1, <2>2 DEF Coverage
  <2> QED
    BY <2>2, <2>3
<1> QED
  BY <1>2, <1>3

\* A snapshot is an event of its source.
LEMMA SnapshotsAreCounted ==
  ASSUME NEW E, IsList(E), NEW day, NEW b, b = BuildDaily(E, day)
  PROVE  b.snapshots <= SumFunction([s \in DOMAIN b.sources |-> b.sources[s].count])
<1> DEFINE T == [s \in DOMAIN b.sources |-> OfSource(E, day, s)]
<1>1. /\ OnDay(E, day) \in SUBSET DOMAIN E /\ IsFiniteSet(OnDay(E, day)) /\ IsFiniteSet(DOMAIN E)
      /\ \A s : OfSource(E, day, s) \in SUBSET OnDay(E, day)
  BY DaysAreFinite DEF IsList
<1>2. IsFiniteSet(DOMAIN b.sources)
  BY SummaryIsWhole
<1>3. /\ DOMAIN b.sources = {E[n].source : n \in OnDay(E, day)}
      /\ \A s \in DOMAIN b.sources : b.sources[s].count = Cardinality(OfSource(E, day, s))
  BY SourcesAre
<1>4. T \in [DOMAIN b.sources -> SUBSET OnDay(E, day)]
  BY <1>1
<1>5. \A s1, s2 \in DOMAIN b.sources : s1 # s2 => T[s1] \cap T[s2] = {}
  BY DEF OfSource
<1>6. UNION {T[s] : s \in DOMAIN b.sources} = OnDay(E, day)
  <2>1. \A n \in OnDay(E, day) : E[n].source \in DOMAIN b.sources /\ n \in T[E[n].source]
    BY <1>3 DEF OfSource
  <2> QED
    BY <1>4, <2>1
<1>7. [s \in DOMAIN b.sources |-> b.sources[s].count] = [s \in DOMAIN b.sources |-> Cardinality(T[s])]
  BY <1>3
<1> HIDE DEF T
<1>8. SumFunction([s \in DOMAIN b.sources |-> Cardinality(T[s])]) = Cardinality(OnDay(E, day))
  BY <1>1, <1>2, <1>4, <1>5, <1>6, SumOfSizes
<1>9. b.snapshots = Cardinality(OnDay(E, day) \ Counted(E, day))
  BY SummaryIs
<1>10. Cardinality(OnDay(E, day) \ Counted(E, day)) <= Cardinality(OnDay(E, day))
  <2>1. OnDay(E, day) \ Counted(E, day) \in SUBSET OnDay(E, day)
    OBVIOUS
  <2> QED
    BY <1>1, <2>1, FS_Subset
<1> QED
  BY <1>7, <1>8, <1>9, <1>10

LEMMA CoverageOfRollup ==
  ASSUME NEW ds, NEW p \in Periods, IsFiniteSet(DOMAIN ds)
  PROVE  Rollup(ds, p).coverage[1] <= Rollup(ds, p).coverage[2]
<1>1. PICK src, tot, n, c : /\ c = Coverage(Cardinality(Dated(ds, p)), p)
                            /\ Rollup(ds, p) = Combined(src, tot, n, c)
  BY RollupIs
<1>2. Rollup(ds, p).coverage = c
  BY <1>1 DEF Combined
<1>3. Cardinality(Dated(ds, p)) \in Nat
  <2>1. Dated(ds, p) \in SUBSET DOMAIN ds
    BY DEF Dated
  <2> QED
    BY <2>1, FS_Subset, FS_CardinalityType
<1> QED
  BY <1>1, <1>2, <1>3, CoverageIs

LEMMA TypesAre == Inv => TypeOK
<1> SUFFICES ASSUME Inv PROVE TypeOK
  OBVIOUS
<1>0. /\ log \in Seq(Occurrences) /\ Len(log) <= MaxEvents
      /\ IsFiniteSet(CachedDays) /\ CachedDays \subseteq Days
      /\ \A d \in CachedDays : \E k \in 0 .. Len(log) : cache[d] = BuildDaily(SubSeq(log, 1, k), d)
      /\ Reporting
  BY DEF Inv, Remembered
<1>1. ASSUME NEW d \in CachedDays
      PROVE  /\ cache[d].date = d * DayTicks
             /\ \A m \in DOMAIN cache[d].totals : m[1] = "source" => m[2] \in DOMAIN cache[d].sources
             /\ \A x \in cache[d].sessions : x[1] \in DOMAIN cache[d].sources
             /\ cache[d].snapshots <=
                  SumFunction([s \in DOMAIN cache[d].sources |-> cache[d].sources[s].count])
  <2>1. PICK k \in 0 .. Len(log) : cache[d] = BuildDaily(SubSeq(log, 1, k), d)
    BY <1>0
  <2>2. PICK E : E = SubSeq(log, 1, k) /\ IsList(E)
    BY <1>0, LogIsList
  <2>3. PICK b : b = cache[d] /\ b = BuildDaily(E, d)
    BY <2>1, <2>2
  <2>4. b.date = d * DayTicks
    BY <2>3, DateIs
  <2>5. \A m \in DOMAIN b.totals : m[1] = "source" => m[2] \in DOMAIN b.sources
    BY <2>2, <2>3, SummaryIsWhole
  <2>6. \A x \in b.sessions : x[1] \in DOMAIN b.sources
    BY <2>2, <2>3, SummaryIsWhole
  <2>7. b.snapshots <= SumFunction([s \in DOMAIN b.sources |-> b.sources[s].count])
    BY <2>2, <2>3, SnapshotsAreCounted
  <2> QED
    BY <2>3, <2>4, <2>5, <2>6, <2>7
<1>2. ASSUME report # NoReport
      PROVE  report.is.coverage[1] <= report.is.coverage[2]
  <2>1. \E ds : report.period \in Periods /\ IsFiniteSet(DOMAIN ds) /\ report.is = Rollup(ds, report.period)
    <3>1. CASE report.by = "build"
      <4>1. report.period \in Periods /\ \E order \in Orders(DaysWithin(log, report.period)) :
              report.is = Build(log, report.period, order)
        BY <1>0, <1>2, <3>1 DEF Reporting
      <4>2. PICK order \in Orders(DaysWithin(log, report.period)) : report.is = Build(log, report.period, order)
        BY <4>1
      <4>3. PICK ds : ds = [i \in DOMAIN order |->
                              BuildDaily(Bucket(log, report.period, order[i]), order[i])]
        OBVIOUS
      <4>4. report.is = Rollup(ds, report.period)
        BY <4>2, <4>3 DEF Build
      <4>5. IsFiniteSet(DaysWithin(log, report.period))
        <5> DEFINE W == Within(log, report.period)
                   f == [n \in W |-> DayOf(log[n].time)]
        <5>1. f \in Surjection(W, DaysWithin(log, report.period))
          BY DEF Surjection, DaysWithin
        <5>2. W \in SUBSET DOMAIN log
          BY DEF Within
        <5>3. IsList(log)
          BY <1>0, LogIsList
        <5>4. IsFiniteSet(W)
          BY <5>2, <5>3, FS_Subset DEF IsList
        <5> QED
          BY <5>1, <5>4, FS_Surjection
      <4>6. IsFiniteSet(DOMAIN ds)
        BY <4>3, <4>5, OrdersAre
      <4> QED
        BY <4>1, <4>4, <4>6
    <3>2. CASE report.by # "build"
      <4>1. report.period \in Periods /\ \E order \in Orders(CachedDays) :
              report.is = Rollup([i \in DOMAIN order |-> cache[order[i]]], report.period)
        BY <1>0, <1>2, <3>2 DEF Reporting
      <4>2. PICK order \in Orders(CachedDays) :
              report.is = Rollup([i \in DOMAIN order |-> cache[order[i]]], report.period)
        BY <4>1
      <4>3. IsFiniteSet(DOMAIN [i \in DOMAIN order |-> cache[order[i]]])
        BY <1>0, OrdersAre
      <4> QED
        BY <4>1, <4>2, <4>3
    <3> QED
      BY <3>1, <3>2
  <2> QED
    BY <2>1, CoverageOfRollup
<1> QED
  BY <1>0, <1>1, <1>2 DEF TypeOK

\* A summary counts for sources it has, and no snapshot that is not an event; a
\* report covers no more days than its period has.
THEOREM TypesCorrect == Spec => []TypeOK
<1> QED
  BY ReportInvariant, TypesAre, PTL

-----------------------------------------------------------------------------
(* What reports say.                                                       *)

\* The days of the period p that are kept are those of its events, and empty ones.
CachedWithin(p) == {d \in CachedDays : Contains(p, d * DayTicks)}

LEMMA CacheIsCurrent ==
  ASSUME Inv, NEW p \in Periods, Aligned(p),
         \A d \in DaysWithin(log, p) : d \in CachedDays /\ cache[d] = BuildDaily(log, d),
         NEW order \in Orders(CachedDays), NEW ds, ds = [i \in DOMAIN order |-> cache[order[i]]]
  PROVE  /\ Covers(log, CachedWithin(p), p)
         /\ \E name : Lists(name, ds, Dated(ds, p), log, CachedWithin(p))
<1>0. /\ log \in Seq(Occurrences) /\ IsFiniteSet(CachedDays) /\ CachedDays \subseteq Days
      /\ \A d \in CachedDays : \E k \in 0 .. Len(log) : cache[d] = BuildDaily(SubSeq(log, 1, k), d)
  BY DEF Inv, Remembered
<1>1. IsList(log)
  <2>1. 0 \in 0 .. Len(log)
    BY <1>0
  <2> QED
    BY <1>0, <2>1, LogIsList
<1>2. PICK D : D = CachedWithin(p) /\ D \in SUBSET CachedDays /\ IsFiniteSet(D)
  <2>1. CachedWithin(p) \in SUBSET CachedDays
    BY DEF CachedWithin
  <2> QED
    BY <1>0, <2>1, FS_Subset
<1>3. \A d \in D : Contains(p, d * DayTicks)
  BY <1>2 DEF CachedWithin
<1>4. /\ Covers(log, DaysWithin(log, p), p)
      /\ \A d : Contains(p, d * DayTicks) /\ d \notin DaysWithin(log, p) => OnDay(log, d) = {}
  BY <1>1, DaysWithinAre
<1>5. DaysWithin(log, p) \subseteq D
  BY <1>2, <1>4 DEF Covers, CachedWithin
<1>6. Covers(log, D, p)
  <2>1. Days \subseteq Nat
    <3>1. \A e \in Occurrences : e.time \in Nat
      BY OccurrencesAssumption
    <3> QED
      BY <3>1, DayBounds DEF Days
  <2> QED
    BY <1>0, <1>2, <1>3, <1>5, <2>1 DEF Covers
<1>7. ASSUME NEW d \in D
      PROVE  cache[d] = BuildDaily(log, d)
  <2>1. CASE d \in DaysWithin(log, p)
    BY <2>1
  <2>2. CASE d \notin DaysWithin(log, p)
    <3>1. PICK k \in 0 .. Len(log) : cache[d] = BuildDaily(SubSeq(log, 1, k), d)
      BY <1>0, <1>2
    <3>2. PICK E : /\ E = SubSeq(log, 1, k) /\ IsList(E) /\ DOMAIN E \subseteq DOMAIN log
                   /\ \A n \in DOMAIN E : E[n] = log[n]
      BY <1>0, LogIsList
    <3>3. OnDay(log, d) = {}
      BY <1>3, <1>4, <2>2
    <3>4. OnDay(E, d) = {}
      BY <3>2, <3>3 DEF OnDay
    <3>5. IsList(E) /\ IsList(log) /\ OnDay(E, d) = OnDay(log, d) /\ \A n \in OnDay(E, d) : E[n] = log[n]
      BY <1>1, <3>2, <3>3, <3>4
    <3>6. BuildDaily(E, d) = BuildDaily(log, d)
      BY <3>5, SameDaySameSummary
    <3> QED
      BY <3>1, <3>2, <3>6
  <2> QED
    BY <2>1, <2>2
<1>8. /\ IsFiniteSet(DOMAIN order) /\ order \in [DOMAIN order -> CachedDays]
      /\ \A i, j \in DOMAIN order : order[i] = order[j] => i = j
      /\ \A d \in CachedDays : \E i \in DOMAIN order : order[i] = d
  BY <1>0, OrdersAre
<1>9. DOMAIN ds = DOMAIN order /\ \A i \in DOMAIN order : ds[i] = cache[order[i]]
  OBVIOUS
<1>10. \A d \in CachedDays : cache[d].date = d * DayTicks
  <2>1. ASSUME NEW d \in CachedDays
        PROVE  cache[d].date = d * DayTicks
    <3>1. PICK k \in 0 .. Len(log) : cache[d] = BuildDaily(SubSeq(log, 1, k), d)
      BY <1>0
    <3> QED
      BY <3>1, DateIs
  <2> QED
    BY <2>1
<1>11. PICK S : S = Dated(ds, p) /\ S \in SUBSET DOMAIN order /\ IsFiniteSet(S)
  <2>1. Dated(ds, p) \in SUBSET DOMAIN order
    BY <1>9 DEF Dated
  <2> QED
    BY <1>8, <2>1, FS_Subset
<1>12. \A i \in DOMAIN order : i \in S <=> order[i] \in D
  BY <1>2, <1>8, <1>9, <1>10, <1>11 DEF Dated, CachedWithin
<1> DEFINE name == [i \in S |-> order[i]]
<1>13. /\ name \in [S -> D]
       /\ \A i, j \in S : name[i] = name[j] => i = j
       /\ \A d \in D : \E i \in S : name[i] = d
  BY <1>2, <1>8, <1>11, <1>12
<1>14. \A i \in S : ds[i] = BuildDaily(log, name[i])
  BY <1>7, <1>9, <1>11, <1>12
<1> HIDE DEF name
<1>15. Lists(name, ds, S, log, D)
  BY <1>2, <1>11, <1>13, <1>14 DEF Lists
<1> QED
  BY <1>2, <1>6, <1>11, <1>15

\* A report of whole days, of what there is now, is a rollup of the days D.
LEMMA ReportIsRollup ==
  ASSUME Inv, report # NoReport, Aligned(report.period), report.by = "rollup" => UpToDate
  PROVE  /\ report.period \in Periods /\ IsList(log)
         /\ \E D, ds, name : /\ Covers(log, D, report.period)
                             /\ report.by = "rollup" => D = CachedWithin(report.period)
                             /\ Lists(name, ds, Dated(ds, report.period), log, D)
                             /\ report.is = Rollup(ds, report.period)
<1>1. log \in Seq(Occurrences) /\ Reporting
  BY DEF Inv
<1>2. IsList(log)
  <2>1. 0 \in 0 .. Len(log)
    BY <1>1
  <2> QED
    BY <1>1, <2>1, LogIsList
<1>3. PICK p : p = report.period
  OBVIOUS
<1>4. CASE report.by = "build"
  <2>1. p \in Periods /\ \E order \in Orders(DaysWithin(log, p)) : report.is = Build(log, p, order)
    BY <1>1, <1>3, <1>4 DEF Reporting
  <2>2. PICK order \in Orders(DaysWithin(log, p)) : report.is = Build(log, p, order)
    BY <2>1
  <2>3. PICK ds, name : /\ Build(log, p, order) = Rollup(ds, p)
                        /\ Lists(name, ds, Dated(ds, p), log, DaysWithin(log, p))
    BY <1>2, <1>3, <2>1, BuildIs
  <2>4. Covers(log, DaysWithin(log, p), p)
    BY <1>2, <1>3, <2>1, DaysWithinAre
  <2> QED
    BY <1>2, <1>3, <1>4, <2>1, <2>2, <2>3, <2>4
<1>5. CASE report.by # "build"
  <2>1. /\ p \in Periods /\ report.by = "rollup"
        /\ \E order \in Orders(CachedDays) : report.is = Rollup([i \in DOMAIN order |-> cache[order[i]]], p)
    BY <1>1, <1>3, <1>5 DEF Reporting
  <2>2. PICK order \in Orders(CachedDays) : report.is = Rollup([i \in DOMAIN order |-> cache[order[i]]], p)
    BY <2>1
  <2>3. PICK ds : ds = [i \in DOMAIN order |-> cache[order[i]]]
    OBVIOUS
  <2>4. \A d \in DaysWithin(log, p) : d \in CachedDays /\ cache[d] = BuildDaily(log, d)
    BY <1>3, <2>1 DEF UpToDate, AskedDays
  <2>5. Covers(log, CachedWithin(p), p) /\ \E name : Lists(name, ds, Dated(ds, p), log, CachedWithin(p))
    BY <1>3, <2>1, <2>3, <2>4, CacheIsCurrent
  <2> QED
    BY <1>2, <1>3, <2>1, <2>2, <2>3, <2>5
<1> QED
  BY <1>4, <1>5

LEMMA NamesAre ==
  ASSUME NEW name \in Names
  PROVE  name # "sessions"
BY DeltasAre DEF Names

LEMMA ExactFromInv == Inv => ReportsAreExact
<1> SUFFICES ASSUME Inv, report # NoReport, Aligned(report.period), report.by = "rollup" => UpToDate
             PROVE  LET from(s) == {n \in Asked : log[n].source = s}
                        with(m) == {n \in Asked : log[n].model = m}
                    IN /\ \A name \in Names \ {"tasks"} : Value(<<"combined", Missing, name>>) = Sum(Asked, name)
                       /\ \A name \in Names, s \in Sources : Value(<<"source", s, name>>) = Sum(from(s), name)
                       /\ \A name \in ModelMetrics, m \in Models : Value(<<"model", m, name>>) = Sum(with(m), name)
                       /\ Value(<<"combined", Missing, "sessions">>) = Cardinality(SessionsOf(Asked))
                       /\ \A s \in Sources : Value(<<"source", s, "sessions">>) = Cardinality(SessionsOf(from(s)))
                       /\ \A s \in DOMAIN report.is.sources : report.is.sources[s].count = Cardinality(from(s))
  BY DEF ReportsAreExact
<1>1. PICK p, D, ds, name :
        /\ p = report.period /\ p \in Periods /\ Aligned(p) /\ IsList(log) /\ Covers(log, D, p)
        /\ Lists(name, ds, Dated(ds, p), log, D) /\ report.is = Rollup(ds, p)
  BY ReportIsRollup
<1>2. PICK r : r = Rollup(Summaries(log, D), p)
  OBVIOUS
<1>3. \A d \in D : Contains(p, d * DayTicks)
  BY <1>1 DEF Covers
<1>4. report.is.values = r.values /\ Alike(report.is.sources, r.sources)
  <2>1. PICK a : a = Rollup(ds, p) /\ a = report.is
    BY <1>1
  <2>2. SameReport(a, r)
    BY <1>1, <1>2, <1>3, <2>1, RollupRelisted
  <2> QED
    BY <2>1, <2>2 DEF SameReport
<1>5. Within(log, p) = Asked
  BY <1>1 DEF Asked
<1>6. \A m : Value(m) = At(r.values, m)
  BY <1>4 DEF Value
<1>7. \A S, n : SumIn(log, S, n) = Sum(S, n)
  BY DEF SumIn, Sum
<1>8. \A S : SessionsIn(log, S) = SessionsOf(S)
  BY DEF SessionsIn, SessionsOf
<1>9. ASSUME NEW n \in Names \ {"tasks"}
      PROVE  Value(<<"combined", Missing, n>>) = Sum(Asked, n)
  <2>1. At(r.values, <<"combined", Missing, n>>) = SumIn(log, Within(log, p), n)
    BY <1>1, <1>2, NamesAre, MetricsAreExact
  <2> QED
    BY <1>5, <1>6, <1>7, <2>1
<1>10. ASSUME NEW n \in Names, NEW s \in Sources
       PROVE  Value(<<"source", s, n>>) = Sum({k \in Asked : log[k].source = s}, n)
  <2>0. n # "sessions"
    BY NamesAre
  <2>1. SourceIs(log, p, r, s, n)
    BY <1>1, <1>2, <2>0, MetricsAreExact
  <2> QED
    BY <1>5, <1>6, <1>7, <2>1 DEF SourceIs
<1>11. ASSUME NEW n \in ModelMetrics, NEW m \in Models
       PROVE  Value(<<"model", m, n>>) = Sum({k \in Asked : log[k].model = m}, n)
  <2>1. n # "sessions" /\ m # Missing
    BY DEF ModelMetrics, TokenMetrics, Tokens, Models
  <2>2. ModelIs(log, p, r, m, n)
    BY <1>1, <1>2, <2>1, MetricsAreExact
  <2> QED
    BY <1>5, <1>6, <1>7, <2>2 DEF ModelIs
<1>12. Value(<<"combined", Missing, "sessions">>) = Cardinality(SessionsOf(Asked))
  <2>1. At(r.values, <<"combined", Missing, "sessions">>) = Cardinality(SessionsIn(log, Within(log, p)))
    BY <1>1, <1>2, SessionsAreExact
  <2> QED
    BY <1>5, <1>6, <1>8, <2>1
<1>13. ASSUME NEW s \in Sources
       PROVE  Value(<<"source", s, "sessions">>) = Cardinality(SessionsOf({k \in Asked : log[k].source = s}))
  <2>1. At(r.values, <<"source", s, "sessions">>)
          = Cardinality(SessionsIn(log, {k \in Within(log, p) : log[k].source = s}))
    BY <1>1, <1>2, SessionsAreExact
  <2> QED
    BY <1>5, <1>6, <1>8, <2>1
<1>14. ASSUME NEW s \in DOMAIN report.is.sources
       PROVE  report.is.sources[s].count = Cardinality({k \in Asked : log[k].source = s})
  <2>1. s \in DOMAIN r.sources /\ report.is.sources[s].count = r.sources[s].count
    BY <1>4 DEF Alike
  <2>2. r.sources[s].count = Cardinality({k \in Within(log, p) : log[k].source = s})
    BY <1>1, <1>2, <2>1, SourceCountsAreExact
  <2> QED
    BY <1>5, <2>1, <2>2
<1> QED
  BY <1>9, <1>10, <1>11, <1>12, <1>13, <1>14

\* Made from the events or from summaries, in whatever order, a report of whole days
\* says what the events of its period add up to, of every metric, source and model, and
\* counts every session once.
THEOREM ReportsExact == Spec => []ReportsAreExact
<1> QED
  BY ReportInvariant, ExactFromInv, PTL

LEMMA ReplayFromInv == Inv => ReplaysMatch
<1> SUFFICES ASSUME Inv, report # NoReport, report.by = "rollup", Aligned(report.period), UpToDate,
                    \A d \in CachedDays : Contains(report.period, d * DayTicks) => d \in AskedDays,
                    NEW order \in Orders(AskedDays)
             PROVE  [report.is EXCEPT !.sources = Unversioned(@)]
                      = [Build(log, report.period, order) EXCEPT !.sources = Unversioned(@)]
  BY DEF ReplaysMatch
<1>1. PICK p, D, ds, name :
        /\ p = report.period /\ p \in Periods /\ Aligned(p) /\ IsList(log) /\ Covers(log, D, p)
        /\ D = CachedWithin(p)
        /\ Lists(name, ds, Dated(ds, p), log, D) /\ report.is = Rollup(ds, p)
  BY ReportIsRollup
<1>2. D = DaysWithin(log, p)
  <2>1. DaysWithin(log, p) \subseteq D
    BY <1>1 DEF Covers
  <2>2. D \subseteq DaysWithin(log, p)
    BY <1>1 DEF CachedWithin, AskedDays
  <2> QED
    BY <2>1, <2>2
<1>3. \A d \in D : Contains(p, d * DayTicks)
  BY <1>1 DEF Covers
<1>4. order \in Orders(DaysWithin(log, p))
  BY <1>1 DEF AskedDays
<1>5. PICK es, place : /\ Build(log, p, order) = Rollup(es, p)
                       /\ Lists(place, es, Dated(es, p), log, D)
  BY <1>1, <1>2, <1>4, BuildIs
<1>6. PICK a, b, c : a = Rollup(ds, p) /\ b = Rollup(es, p) /\ c = Rollup(Summaries(log, D), p)
  OBVIOUS
<1>7. [a EXCEPT !.sources = Unversioned(@)] = [c EXCEPT !.sources = Unversioned(@)]
  <2>1. SameReport(a, c)
    BY <1>1, <1>3, <1>6, RollupRelisted
  <2> QED
    BY <2>1 DEF SameReport
<1>8. [b EXCEPT !.sources = Unversioned(@)] = [c EXCEPT !.sources = Unversioned(@)]
  <2>1. SameReport(b, c)
    BY <1>1, <1>3, <1>5, <1>6, RollupRelisted
  <2> QED
    BY <2>1 DEF SameReport
<1> QED
  BY <1>1, <1>5, <1>6, <1>7, <1>8

\* Summaries of the days of a period that are up to date, in whatever order they and the
\* days of Build come, roll up to the report Build makes, the versions of its sources aside.
THEOREM ReplaysAreFaithful == Spec => []ReplaysMatch
<1> QED
  BY ReportInvariant, ReplayFromInv, PTL

=============================================================================
