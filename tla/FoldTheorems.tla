---------------------------- MODULE FoldTheorems ----------------------------
(***************************************************************************)
(* Facts about numbers, folds and sums that the proofs of the components   *)
(* share.  Ledgers, budgets, grades, buffers and scans are folds over sets *)
(* and sequences; what they add up to is proved by well-founded induction  *)
(* on the size of the set, since the library's induction theorems take an  *)
(* operator and none of the provers instantiates one.                      *)
(***************************************************************************)
EXTENDS Integers, SequencesExt, FiniteSetsExt, Functions, FiniteSetTheorems,
        SequenceTheorems, NaturalsInduction, WellFoundedInduction, TLAPS

-----------------------------------------------------------------------------
(* Least elements                                                          *)

\* A set of naturals that has an element has a least one.
LEMMA LeastOf ==
    ASSUME NEW T, T \subseteq Nat, T # {}
    PROVE  \E x \in T : \A y \in T : x <= y
  <1> DEFINE R == OpToRel(<, Nat)
  <1>1. IsWellFoundedOn(R, Nat)
    BY NatLessThanWellFounded
  <1>2. \A y, x \in Nat : y < x => <<y, x>> \in R
    BY DEF OpToRel
  <1> HIDE DEF R
  <1>3. PICK x \in T : \A y \in T : <<y, x>> \notin R
    BY <1>1, WFMin
  <1>4. ASSUME NEW y \in T PROVE x <= y
    <2>1. ~(y < x) /\ x \in Nat /\ y \in Nat
      BY <1>2, <1>3
    <2> QED
      BY <2>1
  <1> QED
    BY <1>3, <1>4

\* A bounded set of naturals that has an element has a greatest one.
LEMMA GreatestOf ==
    ASSUME NEW n \in Nat, NEW T, T \subseteq 0..n, T # {}
    PROVE  \E x \in T : \A y \in T : y <= x
  <1> DEFINE D == {n - x : x \in T}
  <1>1. D \subseteq Nat /\ D # {}
    <2>1. \A x \in T : n - x \in Nat
      OBVIOUS
    <2>2. D \subseteq Nat
      BY <2>1
    <2>3. PICK x \in T : TRUE
      OBVIOUS
    <2>4. n - x \in D
      BY <2>3
    <2> QED
      BY <2>2, <2>4
  <1>2. PICK d \in D : \A e \in D : d <= e
    BY <1>1, LeastOf
  <1>3. PICK x \in T : d = n - x
    BY <1>2
  <1>4. ASSUME NEW y \in T PROVE y <= x
    <2>1. d <= n - y
      BY <1>2
    <2> QED
      BY <1>3, <2>1
  <1> QED
    BY <1>3, <1>4

\* A set of naturals with 0 and every successor is all of them.
LEMMA AllNat ==
    ASSUME NEW S, 0 \in S, \A n \in Nat : n \in S => n + 1 \in S
    PROVE  Nat \subseteq S
  <1> SUFFICES ASSUME Nat \ S # {} PROVE FALSE
    OBVIOUS
  <1>1. PICK x \in Nat \ S : \A y \in Nat \ S : x <= y
    BY LeastOf
  <1>2. x # 0 /\ x - 1 \in Nat
    BY <1>1
  <1>3. x - 1 \in S
    BY <1>1, <1>2
  <1>4. (x - 1) + 1 \in S
    BY <1>2, <1>3
  <1> QED
    BY <1>1, <1>2, <1>4

\* The image of a finite set is finite, and no larger.
LEMMA ImageIsFinite ==
    ASSUME NEW f, IsFiniteSet(DOMAIN f)
    PROVE  /\ IsFiniteSet({f[x] : x \in DOMAIN f})
           /\ Cardinality({f[x] : x \in DOMAIN f}) <= Cardinality(DOMAIN f)
  <1> DEFINE S == DOMAIN f
             T == {f[x] : x \in S}
             g == [x \in S |-> f[x]]
  <1>1. g \in Surjection(S, T)
    BY DEF Surjection
  <1> HIDE DEF T, g
  <1>2. IsFiniteSet(T) /\ Cardinality(T) <= Cardinality(S)
    BY <1>1, FS_Surjection
  <1> QED
    BY <1>2 DEF T
-----------------------------------------------------------------------------
(* Sums over finite sets                                                   *)

\* Induction over the subsets of a finite set.
LEMMA EverySubset ==
    ASSUME NEW S, IsFiniteSet(S), NEW P,
           \A s \in SUBSET S : (\A u \in SUBSET s : u # s => u \in P) => s \in P
    PROVE  \A s \in SUBSET S : s \in P
  <1> DEFINE wrong == {s \in SUBSET S : s \notin P}
             sizes == {Cardinality(s) : s \in wrong}
  <1> SUFFICES ASSUME wrong # {} PROVE FALSE
    OBVIOUS
  <1>1. \A s \in SUBSET S : IsFiniteSet(s) /\ Cardinality(s) \in Nat
    BY FS_Subset, FS_CardinalityType
  <1>2. sizes \subseteq Nat /\ sizes # {}
    <2>1. sizes \subseteq Nat
      BY <1>1
    <2>2. PICK s \in wrong : TRUE
      OBVIOUS
    <2>3. Cardinality(s) \in sizes
      BY <2>2
    <2> QED
      BY <2>1, <2>3
  <1>3. PICK k \in sizes : \A j \in sizes : k <= j
    BY <1>2, LeastOf
  <1>4. PICK s \in wrong : k = Cardinality(s)
    BY <1>3
  <1>5. ASSUME NEW u \in SUBSET s, u # s PROVE u \in P
    <2>1. Cardinality(u) < Cardinality(s) /\ Cardinality(u) \in Nat /\ Cardinality(s) \in Nat
      BY <1>1, <1>5, FS_Subset
    <2>2. u \in wrong => Cardinality(u) \in sizes
      OBVIOUS
    <2>3. u \notin wrong
      BY <1>3, <1>4, <2>1, <2>2
    <2> QED
      BY <2>3
  <1> QED
    BY <1>4, <1>5

\* What the recursion of a sum over S says.
Sums(f, S, it) ==
  it = [s \in SUBSET S |-> IF s = {} THEN 0
                           ELSE LET x == CHOOSE x \in s : TRUE IN f[x] + it[s \ {x}]]

\* The sum of what f gives to the members of S.
Total(f, S) == MapThenSumSet(LAMBDA x : f[x], S)

Summed(f, S) == CHOOSE it : Sums(f, S, it)

\* A sum over a set, seen on a part of it, is a sum over that part.
LEMMA SumsRestrict ==
    ASSUME NEW f, NEW T, NEW s \in SUBSET T, NEW it, Sums(f, T, it)
    PROVE  Sums(f, s, [u \in SUBSET s |-> it[u]])
  <1> DEFINE g == [u \in SUBSET s |-> it[u]]
             h == [u \in SUBSET s |-> IF u = {} THEN 0
                                      ELSE LET x == CHOOSE x \in u : TRUE IN f[x] + g[u \ {x}]]
  <1>1. ASSUME NEW u \in SUBSET s PROVE g[u] = h[u]
    <2>1. u \in SUBSET T /\ it[u] = IF u = {} THEN 0
                                    ELSE LET x == CHOOSE x \in u : TRUE IN f[x] + it[u \ {x}]
      BY DEF Sums
    <2>2. \A x : g[u \ {x}] = it[u \ {x}]
      OBVIOUS
    <2> QED
      BY <2>1, <2>2
  <1>2. g = h
    BY <1>1
  <1> QED
    BY <1>2 DEF Sums

\* There is one sum over a finite set.
LEMMA SumsUnique ==
    ASSUME NEW f, NEW T, IsFiniteSet(T), NEW a, NEW b, Sums(f, T, a), Sums(f, T, b)
    PROVE  a = b
  <1> DEFINE P == {s \in SUBSET T : a[s] = b[s]}
  <1>1. ASSUME NEW s \in SUBSET T, \A u \in SUBSET s : u # s => u \in P PROVE s \in P
    <2>1. CASE s = {}
      BY <2>1 DEF Sums
    <2>2. CASE s # {}
      <3> DEFINE x == CHOOSE x \in s : TRUE
      <3>1. x \in s
        BY <2>2
      <3>2. a[s] = f[x] + a[s \ {x}] /\ b[s] = f[x] + b[s \ {x}]
        BY <2>2 DEF Sums
      <3> HIDE DEF x
      <3>3. s \ {x} \in P
        BY <1>1, <3>1
      <3> QED
        BY <3>2, <3>3
    <2> QED
      BY <2>1, <2>2
  <1> HIDE DEF P
  <1>2. \A s \in SUBSET T : s \in P
    BY <1>1, EverySubset
  <1>3. \A s \in SUBSET T : a[s] = b[s]
    BY <1>2 DEF P
  <1>4. DOMAIN a = SUBSET T /\ DOMAIN b = SUBSET T /\ a = [s \in SUBSET T |-> a[s]] /\ b = [s \in SUBSET T |-> b[s]]
    BY DEF Sums
  <1> QED
    BY <1>3, <1>4

\* And there is one: a finite set is summed up an element at a time.
LEMMA SumsExist ==
    ASSUME NEW f, NEW T, IsFiniteSet(T)
    PROVE  \A s \in SUBSET T : Sums(f, s, Summed(f, s))
  <1> DEFINE P == {s \in SUBSET T : Sums(f, s, Summed(f, s))}
  <1>1. ASSUME NEW s \in SUBSET T, \A u \in SUBSET s : u # s => u \in P PROVE s \in P
    <2> DEFINE g == [u \in SUBSET s |-> IF u = {} THEN 0
                       ELSE LET x == CHOOSE x \in u : TRUE IN f[x] + Summed(f, u \ {x})[u \ {x}]]
               h == [u \in SUBSET s |-> IF u = {} THEN 0
                       ELSE LET x == CHOOSE x \in u : TRUE IN f[x] + g[u \ {x}]]
    <2>1. ASSUME NEW w \in SUBSET s, w # s PROVE Summed(f, w)[w] = g[w]
      <3>1. Sums(f, w, Summed(f, w)) /\ IsFiniteSet(w)
        BY <1>1, <2>1, FS_Subset
      <3>2. CASE w = {}
        BY <3>1, <3>2 DEF Sums
      <3>3. CASE w # {}
        <4> DEFINE y == CHOOSE x \in w : TRUE
                   v == w \ {y}
                   it == Summed(f, w)
        <4>1. y \in w /\ v \in SUBSET w /\ v # s
          BY <3>3, <2>1
        <4>2. it[w] = f[y] + it[v]
          BY <3>1, <3>3 DEF Sums
        <4>3. g[w] = f[y] + Summed(f, v)[v]
          BY <3>3, <2>1
        <4> HIDE DEF it, y, g
        <4>4. Sums(f, v, [u \in SUBSET v |-> it[u]])
          <5>1. Sums(f, w, it) /\ v \in SUBSET w
            BY <3>1, <4>1 DEF it
          <5> HIDE DEF v
          <5> QED
            BY <5>1, SumsRestrict
        <4>5. Sums(f, v, Summed(f, v)) /\ IsFiniteSet(v)
          BY <1>1, <2>1, <3>1, <4>1, FS_Subset
        <4>6. [u \in SUBSET v |-> it[u]] = Summed(f, v)
          BY <4>4, <4>5, SumsUnique
        <4>7. Summed(f, v)[v] = it[v]
          <5> HIDE DEF v
          <5>1. [u \in SUBSET v |-> it[u]][v] = it[v]
            OBVIOUS
          <5> QED
            BY <5>1, <4>6
        <4> QED
          BY <4>2, <4>3, <4>7 DEF it
      <3> QED
        BY <3>2, <3>3
    <2>2. ASSUME NEW u \in SUBSET s PROVE g[u] = h[u]
      <3>1. CASE u = {}
        BY <3>1
      <3>2. CASE u # {}
        <4> DEFINE x == CHOOSE x \in u : TRUE
        <4>1. x \in u /\ u \ {x} \in SUBSET s /\ u \ {x} # s
          BY <3>2
        <4>2. Summed(f, u \ {x})[u \ {x}] = g[u \ {x}]
          BY <2>1, <4>1
        <4>3. g[u] = f[x] + Summed(f, u \ {x})[u \ {x}] /\ h[u] = f[x] + g[u \ {x}]
          BY <3>2
        <4> QED
          BY <4>2, <4>3
      <3> QED
        BY <3>1, <3>2
    <2>3. g = h
      <3>1. g = [u \in SUBSET s |-> g[u]] /\ h = [u \in SUBSET s |-> h[u]]
        OBVIOUS
      <3> HIDE DEF g, h
      <3> QED
        BY <2>2, <3>1
    <2>4. Sums(f, s, g)
      BY <2>3 DEF Sums
    <2> HIDE DEF g
    <2>5. Sums(f, s, Summed(f, s))
      BY <2>4 DEF Summed
    <2> QED
      BY <2>5
  <1> HIDE DEF P
  <1>2. \A s \in SUBSET T : s \in P
    BY <1>1, EverySubset
  <1> QED
    BY <1>2 DEF P

\* A sum is that of all but one, and that one.
LEMMA TotalIs ==
    ASSUME NEW f, NEW S, IsFiniteSet(S)
    PROVE  Total(f, S) = IF S = {} THEN 0
                         ELSE LET x == CHOOSE x \in S : TRUE IN f[x] + Total(f, S \ {x})
  <1>1. \A s \in SUBSET S : Sums(f, s, Summed(f, s)) /\ IsFiniteSet(s)
    BY SumsExist, FS_Subset
  <1>2. \A s : Total(f, s) = Summed(f, s)[s]
    BY DEF Total, MapThenSumSet, MapThenFoldSet, Summed, Sums
  <1>3. CASE S = {}
    <2>1. Summed(f, S)[S] = 0
      <3>1. PICK it : it = Summed(f, S)
        OBVIOUS
      <3>2. Sums(f, S, it)
        BY <1>1, <3>1
      <3>3. it[S] = 0
        BY <1>3, <3>2 DEF Sums
      <3> QED
        BY <3>1, <3>3
    <2>2. Total(f, S) = Summed(f, S)[S]
      BY <1>2
    <2> QED
      BY <1>3, <2>1, <2>2
  <1>4. CASE S # {}
    <2> DEFINE x == CHOOSE y \in S : TRUE
    <2>1. x \in S
      BY <1>4
    <2>2. Sums(f, S, Summed(f, S))
      BY <1>1
    <2>3. Summed(f, S)[S] = f[x] + Summed(f, S)[S \ {x}]
      BY <1>4, <2>2 DEF Sums
    <2> HIDE DEF x
    <2>4. PICK rest \in SUBSET S : rest = S \ {x}
      OBVIOUS
    <2>5. PICK it : it = Summed(f, S)
      OBVIOUS
    <2>6. Sums(f, rest, [u \in SUBSET rest |-> it[u]])
      BY <2>2, <2>5, SumsRestrict
    <2>7. [u \in SUBSET rest |-> it[u]] = Summed(f, rest)
      BY <1>1, <2>6, SumsUnique
    <2>8. [u \in SUBSET rest |-> it[u]][rest] = it[rest]
      OBVIOUS
    <2>9. Total(f, S) = f[x] + Total(f, rest)
      BY <1>2, <2>3, <2>4, <2>5, <2>7, <2>8
    <2> QED
      BY <1>4, <2>4, <2>9 DEF x
  <1> QED
    BY <1>3, <1>4

\* A sum of integers is one, and any member may be the one that is taken out.
LEMMA TotalStep ==
    ASSUME NEW f, NEW S, IsFiniteSet(S), \A x \in S : f[x] \in Int
    PROVE  /\ Total(f, {}) = 0
           /\ \A s \in SUBSET S : Total(f, s) \in Int
           /\ \A s \in SUBSET S : \A x \in s : Total(f, s) = f[x] + Total(f, s \ {x})
  <1>0. \A s \in SUBSET S : IsFiniteSet(s)
    BY FS_Subset
  <1>1. Total(f, {}) = 0
    BY <1>0, TotalIs
  <1>2. ASSUME NEW s \in SUBSET S, s # {}
        PROVE  \E y \in s : Total(f, s) = f[y] + Total(f, s \ {y})
    <2> DEFINE y == CHOOSE x \in s : TRUE
    <2>1. y \in s
      BY <1>2
    <2>2. Total(f, s) = f[y] + Total(f, s \ {y})
      BY <1>0, <1>2, TotalIs
    <2> QED
      BY <2>1, <2>2
  <1> DEFINE P == {s \in SUBSET S : Total(f, s) \in Int /\ \A x \in s : Total(f, s) = f[x] + Total(f, s \ {x})}
  <1>3. ASSUME NEW s \in SUBSET S, \A u \in SUBSET s : u # s => u \in P PROVE s \in P
    <2>1. CASE s = {}
      BY <1>1, <2>1
    <2>2. CASE s # {}
      <3>1. PICK y \in s : Total(f, s) = f[y] + Total(f, s \ {y})
        BY <1>2, <2>2
      <3>2. s \ {y} \in P
        BY <1>3
      <3>3. Total(f, s \ {y}) \in Int /\ f[y] \in Int
        BY <3>2
      <3>4. ASSUME NEW x \in s, x # y PROVE Total(f, s) = f[x] + Total(f, s \ {x})
        <4>1. Total(f, s \ {y}) = f[x] + Total(f, (s \ {y}) \ {x})
          BY <3>2, <3>4
        <4>2. s \ {x} \in P /\ y \in s \ {x}
          BY <1>3, <3>4
        <4>3. Total(f, s \ {x}) = f[y] + Total(f, (s \ {x}) \ {y})
          BY <4>2
        <4>4. (s \ {x}) \ {y} = (s \ {y}) \ {x}
          OBVIOUS
        <4>5. (s \ {y}) \ {x} \in P
          BY <1>3, <3>4
        <4>6. Total(f, (s \ {y}) \ {x}) \in Int /\ f[x] \in Int
          BY <4>5
        <4> DEFINE t == Total(f, (s \ {y}) \ {x})
        <4>7. Total(f, s) = f[y] + (f[x] + t) /\ Total(f, s \ {x}) = f[y] + t
          BY <3>1, <4>1, <4>3, <4>4
        <4> HIDE DEF t
        <4> QED
          BY <3>3, <4>6, <4>7 DEF t
      <3> QED
        BY <3>1, <3>3, <3>4
    <2> QED
      BY <2>1, <2>2
  <1> HIDE DEF P
  <1>4. \A s \in SUBSET S : s \in P
    BY <1>3, EverySubset
  <1> QED
    BY <1>1, <1>4 DEF P

\* Of two functions the larger has the larger sum.
LEMMA TotalMonotone ==
    ASSUME NEW f, NEW g, NEW S, IsFiniteSet(S),
           \A x \in S : f[x] \in Int /\ g[x] \in Int /\ f[x] <= g[x]
    PROVE  Total(f, S) <= Total(g, S)
  <1>1. /\ Total(f, {}) = 0 /\ Total(g, {}) = 0
        /\ \A s \in SUBSET S : Total(f, s) \in Int /\ Total(g, s) \in Int
        /\ \A s \in SUBSET S : \A x \in s : /\ Total(f, s) = f[x] + Total(f, s \ {x})
                                        /\ Total(g, s) = g[x] + Total(g, s \ {x})
    BY TotalStep
  <1> DEFINE P == {s \in SUBSET S : Total(f, s) <= Total(g, s)}
  <1>2. ASSUME NEW s \in SUBSET S, \A u \in SUBSET s : u # s => u \in P PROVE s \in P
    <2>1. CASE s = {}
      BY <1>1, <2>1
    <2>2. CASE s # {}
      <3>1. PICK x \in s : TRUE
        BY <2>2
      <3>2. s \ {x} \in P
        BY <1>2
      <3>3. Total(f, s \ {x}) \in Int /\ Total(g, s \ {x}) \in Int /\ f[x] \in Int /\ g[x] \in Int
            /\ f[x] <= g[x]
        BY <1>1
      <3>4. Total(f, s) = f[x] + Total(f, s \ {x}) /\ Total(g, s) = g[x] + Total(g, s \ {x})
        BY <1>1
      <3> QED
        BY <3>2, <3>3, <3>4
    <2> QED
      BY <2>1, <2>2
  <1> HIDE DEF P
  <1>3. \A s \in SUBSET S : s \in P
    BY <1>2, EverySubset
  <1> QED
    BY <1>3 DEF P

\* Equal functions have equal sums.
LEMMA TotalCongruent ==
    ASSUME NEW f, NEW g, NEW S, IsFiniteSet(S),
           \A x \in S : f[x] \in Int /\ f[x] = g[x]
    PROVE  Total(f, S) = Total(g, S)
  <1>1. Total(f, S) <= Total(g, S) /\ Total(g, S) <= Total(f, S)
    BY TotalMonotone
  <1>2. Total(f, S) \in Int /\ Total(g, S) \in Int
    BY TotalStep
  <1> QED
    BY <1>1, <1>2
-----------------------------------------------------------------------------
(* Sums over sequences                                                     *)

\* The sum of a sequence.
SumOf(s) == Total(s, 1..Len(s))

\* The larger and the smaller of two numbers.
LEMMA OfTwo ==
    ASSUME NEW a \in Int, NEW b \in Int
    PROVE  /\ Min({a, b}) = IF a <= b THEN a ELSE b
           /\ Max({a, b}) = IF a >= b THEN a ELSE b
  <1> DEFINE least == IF a <= b THEN a ELSE b
             most == IF a >= b THEN a ELSE b
  <1>1. least \in {a, b} /\ \A y \in {a, b} : least <= y
    OBVIOUS
  <1>2. most \in {a, b} /\ \A y \in {a, b} : most >= y
    OBVIOUS
  <1>3. \A x \in {a, b} : (\A y \in {a, b} : x <= y) => x = least
    BY <1>1
  <1>4. \A x \in {a, b} : (\A y \in {a, b} : x >= y) => x = most
    BY <1>2
  <1> HIDE DEF least, most
  <1>5. Min({a, b}) = least
    BY <1>1, <1>3 DEF Min
  <1>6. Max({a, b}) = most
    BY <1>2, <1>4 DEF Max
  <1> QED
    BY <1>5, <1>6 DEF least, most

\* Sums over a prefix of a sequence, one member longer each time.
LEMMA PrefixSum ==
    ASSUME NEW s \in Seq(Int)
    PROVE  /\ Total(s, 1..0) = 0
           /\ \A k \in 0..Len(s) : Total(s, 1..k) \in Int
           /\ \A k \in 1..Len(s) : Total(s, 1..k) = Total(s, 1..(k - 1)) + s[k]
  <1> DEFINE S == 1..Len(s)
  <1>1. IsFiniteSet(S) /\ \A x \in S : s[x] \in Int
    BY FS_Interval, LenProperties, ElementOfSeq
  <1>2. /\ Total(s, {}) = 0
        /\ \A u \in SUBSET S : Total(s, u) \in Int
        /\ \A u \in SUBSET S : \A x \in u : Total(s, u) = s[x] + Total(s, u \ {x})
    <2> HIDE DEF S
    <2> QED
      BY <1>1, TotalStep
  <1>3. Len(s) \in Nat
    BY LenProperties
  <1>4. 1..0 = {}
    OBVIOUS
  <1>5. \A k \in 0..Len(s) : 1..k \in SUBSET S
    BY <1>3
  <1>6. ASSUME NEW k \in 1..Len(s)
        PROVE  Total(s, 1..k) = Total(s, 1..(k - 1)) + s[k]
    <2>1. 1..k \in SUBSET S /\ k \in 1..k /\ (1..k) \ {k} = 1..(k - 1) /\ 1..(k - 1) \in SUBSET S
      BY <1>3
    <2>2. Total(s, 1..k) = s[k] + Total(s, (1..k) \ {k})
      BY <1>2, <2>1
    <2>3. Total(s, 1..(k - 1)) \in Int /\ s[k] \in Int
      BY <1>1, <1>2, <2>1
    <2>4. Total(s, (1..k) \ {k}) = Total(s, 1..(k - 1))
      BY <2>1, Zenon
    <2> HIDE DEF S
    <2> QED
      BY <2>2, <2>3, <2>4
  <1> HIDE DEF S
  <1> QED
    BY <1>2, <1>4, <1>5, <1>6

\* A sum of naturals is a natural, and no less than any of them.
LEMMA TotalIsNatural ==
    ASSUME NEW f, NEW S, IsFiniteSet(S), \A x \in S : f[x] \in Nat
    PROVE  Total(f, S) \in Nat /\ \A x \in S : f[x] <= Total(f, S)
  <1> DEFINE P == {u \in SUBSET S : Total(f, u) >= 0}
  <1>1. /\ Total(f, {}) = 0
        /\ \A u \in SUBSET S : Total(f, u) \in Int
        /\ \A u \in SUBSET S : \A x \in u : Total(f, u) = f[x] + Total(f, u \ {x})
    <2>1. \A x \in S : f[x] \in Int
      OBVIOUS
    <2> QED
      BY <2>1, TotalStep
  <1>2. ASSUME NEW u \in SUBSET S, \A v \in SUBSET u : v # u => v \in P
        PROVE  u \in P
    <2>1. CASE u = {}
      BY <1>1, <2>1
    <2>2. CASE u # {}
      <3>1. PICK x \in u : TRUE
        BY <2>2
      <3>2. u \ {x} \in P
        BY <1>2
      <3>3. Total(f, u \ {x}) >= 0 /\ Total(f, u \ {x}) \in Int /\ f[x] \in Nat
        BY <1>1, <3>2
      <3>4. Total(f, u) = f[x] + Total(f, u \ {x})
        BY <1>1
      <3> QED
        BY <3>3, <3>4
    <2> QED
      BY <2>1, <2>2
  <1>3. \A u \in SUBSET S : u \in P
    <2> HIDE DEF P
    <2> QED
      BY <1>2, EverySubset
  <1>4. ASSUME NEW x \in S PROVE f[x] <= Total(f, S)
    <2>1. Total(f, S) = f[x] + Total(f, S \ {x})
      BY <1>1
    <2>2. Total(f, S \ {x}) >= 0 /\ Total(f, S \ {x}) \in Int
      BY <1>1, <1>3
    <2> QED
      BY <2>1, <2>2
  <1>5. Total(f, S) >= 0 /\ Total(f, S) \in Int
    BY <1>1, <1>3
  <1> QED
    BY <1>4, <1>5

\* What is added at the end of a sequence adds to its sum.
LEMMA SumOfAppend ==
    ASSUME NEW s \in Seq(Int), NEW e \in Int
    PROVE  SumOf(s) \in Int /\ SumOf(Append(s, e)) = SumOf(s) + e
  <1> DEFINE n == Len(s)
             t == Append(s, e)
  <1>1. /\ t \in Seq(Int) /\ Len(t) = n + 1 /\ t[n + 1] = e
        /\ \A i \in 1..n : t[i] = s[i] /\ s[i] \in Int
    BY AppendProperties, ElementOfSeq
  <1>2. n \in Nat /\ IsFiniteSet(1..n)
    BY LenProperties, FS_Interval
  <1> HIDE DEF t
  <1>3. Total(t, 1..(n + 1)) = Total(t, 1..n) + t[n + 1]
    <2>1. \A k \in 1..Len(t) : Total(t, 1..k) = Total(t, 1..(k - 1)) + t[k]
      BY <1>1, PrefixSum
    <2>2. n + 1 \in 1..Len(t) /\ (n + 1) - 1 = n
      BY <1>1, <1>2
    <2>3. Total(t, 1..(n + 1)) = Total(t, 1..((n + 1) - 1)) + t[n + 1]
      BY <2>1, <2>2
    <2> QED
      BY <2>2, <2>3
  <1>4. Total(t, 1..n) = Total(s, 1..n)
    BY <1>1, <1>2, TotalCongruent
  <1>5. SumOf(s) \in Int
    BY <1>2, PrefixSum DEF SumOf
  <1> QED
    BY <1>1, <1>2, <1>3, <1>4, <1>5 DEF SumOf, t

\* What is taken out of a sequence is taken from its sum.
LEMMA SumOfRemoved ==
    ASSUME NEW s \in Seq(Int), NEW i \in 1..Len(s)
    PROVE  /\ Len(RemoveAt(s, i)) = Len(s) - 1
           /\ SumOf(RemoveAt(s, i)) = SumOf(s) - s[i]
           /\ \A T : s \in Seq(T) => RemoveAt(s, i) \in Seq(T)
  <1> DEFINE n == Len(s)
             a == SubSeq(s, 1, i - 1)
             b == SubSeq(s, i + 1, n)
             t == RemoveAt(s, i)
  <1>1. n \in Nat /\ i \in Int /\ 1 <= i /\ i <= n
    BY LenProperties
  <1>2. ASSUME NEW T, s \in Seq(T)
        PROVE  /\ a \in Seq(T) /\ Len(a) = i - 1 /\ \A j \in 1..(i - 1) : a[j] = s[j]
               /\ b \in Seq(T) /\ Len(b) = n - i /\ \A j \in 1..(n - i) : b[j] = s[i + j]
    <2>1. \A j \in 1..(i - 1) : s[j] \in T
      BY <1>1, <1>2, ElementOfSeq
    <2>2. \A j \in (i + 1)..n : s[j] \in T
      BY <1>1, <1>2, ElementOfSeq
    <2>3. a \in Seq(T) /\ Len(a) = i - 1 /\ \A j \in 1..(i - 1) : a[j] = s[j]
      <3>1. /\ a \in Seq(T) /\ Len(a) = IF 1 <= i - 1 THEN i - 1 - 1 + 1 ELSE 0
            /\ \A j \in 1..(i - 1 - 1 + 1) : a[j] = s[1 + j - 1]
        BY <1>1, <2>1, SubSeqProperties
      <3>2. \A j \in 1..(i - 1) : j \in 1..(i - 1 - 1 + 1) /\ 1 + j - 1 = j
        BY <1>1
      <3> HIDE DEF a
      <3> QED
        BY <1>1, <3>1, <3>2
    <2>4. b \in Seq(T) /\ Len(b) = n - i /\ \A j \in 1..(n - i) : b[j] = s[i + j]
      <3>1. /\ b \in Seq(T) /\ Len(b) = IF i + 1 <= n THEN n - (i + 1) + 1 ELSE 0
            /\ \A j \in 1..(n - (i + 1) + 1) : b[j] = s[i + 1 + j - 1]
        BY <1>1, <2>2, SubSeqProperties
      <3>2. \A j \in 1..(n - i) : j \in 1..(n - (i + 1) + 1) /\ i + 1 + j - 1 = i + j
        BY <1>1
      <3> HIDE DEF b, n
      <3> QED
        BY <1>1, <3>1, <3>2
    <2> QED
      BY <2>3, <2>4
  <1>3. t = a \o b
    BY DEF RemoveAt
  <1> HIDE DEF a, b, t
  <1>4. ASSUME NEW T, s \in Seq(T)
        PROVE  /\ t \in Seq(T) /\ Len(t) = n - 1
               /\ \A j \in 1..(n - 1) : t[j] = IF j < i THEN s[j] ELSE s[j + 1]
    <2>1. /\ a \in Seq(T) /\ Len(a) = i - 1 /\ \A j \in 1..(i - 1) : a[j] = s[j]
          /\ b \in Seq(T) /\ Len(b) = n - i /\ \A j \in 1..(n - i) : b[j] = s[i + j]
      BY <1>2, <1>4
    <2>2. /\ t \in Seq(T) /\ Len(t) = Len(a) + Len(b)
          /\ \A j \in 1..(Len(a) + Len(b)) : t[j] = IF j <= Len(a) THEN a[j] ELSE b[j - Len(a)]
      BY <1>3, <2>1, ConcatProperties
    <2>3. ASSUME NEW j \in 1..(n - 1) PROVE t[j] = IF j < i THEN s[j] ELSE s[j + 1]
      <3> HIDE DEF n
      <3>0. j \in 1..(Len(a) + Len(b))
        BY <1>1, <2>1
      <3>1. CASE j < i
        <4>1. j \in 1..(i - 1) /\ j <= Len(a)
          BY <1>1, <2>1, <3>1
        <4>2. t[j] = a[j]
          BY <2>2, <3>0, <4>1
        <4> QED
          BY <2>1, <3>1, <4>1, <4>2
      <3>2. CASE ~(j < i)
        <4>1. t[j] = b[j - (i - 1)]
          <5>1. ~(j <= Len(a)) /\ j - Len(a) = j - (i - 1)
            BY <1>1, <2>1, <3>2
          <5>2. t[j] = b[j - Len(a)]
            BY <2>2, <3>0, <5>1
          <5> QED
            BY <5>1, <5>2
        <4>2. j - (i - 1) \in 1..(n - i) /\ i + (j - (i - 1)) = j + 1
          BY <1>1, <3>2
        <4>3. b[j - (i - 1)] = s[i + (j - (i - 1))]
          BY <2>1, <4>2
        <4> QED
          BY <3>2, <4>1, <4>2, <4>3
      <3> QED
        BY <3>1, <3>2
    <2> QED
      BY <1>1, <2>1, <2>2, <2>3
  <1>5. /\ t \in Seq(Int) /\ Len(t) = n - 1
        /\ \A j \in 1..(n - 1) : t[j] = IF j < i THEN s[j] ELSE s[j + 1]
    BY <1>4
  <1>6. /\ Total(s, 1..0) = 0
        /\ \A k \in 0..n : Total(s, 1..k) \in Int
        /\ \A k \in 1..n : Total(s, 1..k) = Total(s, 1..(k - 1)) + s[k]
    BY PrefixSum
  <1>7. /\ \A k \in 0..(n - 1) : Total(t, 1..k) \in Int
        /\ \A k \in 1..(n - 1) : Total(t, 1..k) = Total(t, 1..(k - 1)) + t[k]
    BY <1>5, PrefixSum
  <1>8. \A j \in 1..n : s[j] \in Int
    BY ElementOfSeq
  <1> DEFINE Done == {k \in Nat : i + k <= n => Total(t, 1..(i - 1 + k)) = Total(s, 1..(i + k)) - s[i]}
  <1>9. 0 \in Done
    <2>1. IsFiniteSet(1..(i - 1))
      BY FS_Interval, <1>1
    <2>2. \A x \in 1..(i - 1) : t[x] \in Int /\ t[x] = s[x]
      <3> HIDE DEF n
      <3> SUFFICES ASSUME NEW x \in 1..(i - 1) PROVE t[x] \in Int /\ t[x] = s[x]
        OBVIOUS
      <3>1. x \in 1..(n - 1) /\ x < i /\ x \in 1..n
        BY <1>1
      <3> QED
        BY <1>5, <1>8, <3>1
    <2>3. Total(t, 1..(i - 1)) = Total(s, 1..(i - 1))
      BY <2>1, <2>2, TotalCongruent
    <2>4. Total(s, 1..i) = Total(s, 1..(i - 1)) + s[i] /\ Total(s, 1..(i - 1)) \in Int /\ s[i] \in Int
      BY <1>1, <1>6, <1>8
    <2>5. Total(t, 1..(i - 1)) = Total(s, 1..i) - s[i]
      BY <2>3, <2>4
    <2>6. i - 1 + 0 = i - 1 /\ i + 0 = i
      BY <1>1
    <2> QED
      BY <2>5, <2>6
  <1>10. ASSUME NEW k \in Nat, k \in Done PROVE k + 1 \in Done
    <2> SUFFICES ASSUME i + (k + 1) <= n
                 PROVE  Total(t, 1..(i - 1 + (k + 1))) = Total(s, 1..(i + (k + 1))) - s[i]
      OBVIOUS
    <2>1. Total(t, 1..(i - 1 + k)) = Total(s, 1..(i + k)) - s[i]
      BY <1>1, <1>10
    <2> DEFINE j == i + k
    <2>2. /\ j \in 1..(n - 1) /\ j + 1 \in 1..n /\ i - 1 + (k + 1) = j /\ i + (k + 1) = j + 1
          /\ i - 1 + k = j - 1 /\ j + 1 - 1 = j /\ j \in 0..n /\ ~(j < i)
      BY <1>1
    <2>3. Total(t, 1..j) = Total(t, 1..(j - 1)) + t[j] /\ t[j] = s[j + 1]
      BY <1>5, <1>7, <2>2
    <2>4. Total(s, 1..(j + 1)) = Total(s, 1..j) + s[j + 1] /\ Total(s, 1..j) \in Int /\ s[j + 1] \in Int
          /\ s[i] \in Int
      BY <1>6, <1>8, <2>2
    <2>5. Total(t, 1..(j - 1)) = Total(s, 1..j) - s[i]
      BY <2>1, <2>2
    <2>6. Total(t, 1..j) = Total(s, 1..(j + 1)) - s[i]
      BY <2>3, <2>4, <2>5
    <2> QED
      BY <2>2, <2>6
  <1>11. n - i \in Done
    <2>1. Nat \subseteq Done
      <3> HIDE DEF Done
      <3> QED
        BY <1>9, <1>10, AllNat
    <2>2. n - i \in Nat
      BY <1>1
    <2> HIDE DEF Done
    <2> QED
      BY <2>1, <2>2
  <1>12. Total(t, 1..(n - 1)) = Total(s, 1..n) - s[i]
    <2>1. i + (n - i) = n /\ i - 1 + (n - i) = n - 1 /\ n <= n
      BY <1>1
    <2> QED
      BY <1>11, <2>1
  <1> QED
    BY <1>4, <1>5, <1>12 DEF SumOf, t

\* The sum of naturals that a bound holds for.
LEMMA SumOfBounded ==
    ASSUME NEW m \in Nat, NEW s \in Seq(0..m)
    PROVE  SumOf(s) \in Nat /\ SumOf(s) <= Len(s) * m
  <1> DEFINE n == Len(s)
  <1>1. s \in Seq(Int) /\ n \in Nat /\ \A j \in 1..n : s[j] \in 0..m
    BY LenProperties, ElementOfSeq, SeqMonotonic
  <1>2. /\ Total(s, 1..0) = 0
        /\ \A k \in 0..n : Total(s, 1..k) \in Int
        /\ \A k \in 1..n : Total(s, 1..k) = Total(s, 1..(k - 1)) + s[k]
    BY <1>1, PrefixSum
  <1> DEFINE Done == {k \in Nat : k <= n => 0 <= Total(s, 1..k) /\ Total(s, 1..k) <= k * m}
  <1>3. 0 \in Done
    BY <1>2
  <1>4. ASSUME NEW k \in Nat, k \in Done PROVE k + 1 \in Done
    <2> SUFFICES ASSUME k + 1 <= n
                 PROVE  0 <= Total(s, 1..(k + 1)) /\ Total(s, 1..(k + 1)) <= (k + 1) * m
      OBVIOUS
    <2>1. 0 <= Total(s, 1..k) /\ Total(s, 1..k) <= k * m
      BY <1>1, <1>4
    <2>2. /\ k + 1 \in 1..n /\ k + 1 - 1 = k /\ k \in 0..n
      BY <1>1
    <2>3. Total(s, 1..(k + 1)) = Total(s, 1..k) + s[k + 1] /\ Total(s, 1..k) \in Int /\ s[k + 1] \in 0..m
      BY <1>1, <1>2, <2>2
    <2>4. (k + 1) * m = k * m + m /\ k * m \in Int
      OBVIOUS
    <2> QED
      BY <2>1, <2>3, <2>4
  <1>5. n \in Done
    <2>1. Nat \subseteq Done
      <3> HIDE DEF Done
      <3> QED
        BY <1>3, <1>4, AllNat
    <2> QED
      BY <1>1, <2>1
  <1>6. 0 <= Total(s, 1..n) /\ Total(s, 1..n) <= n * m /\ Total(s, 1..n) \in Int
    <2>1. n <= n /\ n \in 0..n
      BY <1>1
    <2> QED
      BY <1>2, <1>5, <2>1
  <1> QED
    BY <1>6 DEF SumOf
-----------------------------------------------------------------------------
(* Functions that are defined by recursion over the steps of a scan         *)

\* What is known stays within S, whichever of n steps is looked at.
StaysWithin(step, S, n) == \A s \in S : \A i \in 1..n : step[<<s, i>>] \in S

\* f is what a scan knows after each step.
Follows(f, S, n, base, step) ==
  f \in [0..n -> S] /\ f[0] = base /\ \A i \in 1..n : f[i] = step[<<f[i - 1], i>>]

\* A scan that looks at one step after the other exists.
LEMMA Recursion ==
    ASSUME NEW n \in Nat, NEW S, NEW base \in S, NEW step, StaysWithin(step, S, n)
    PROVE  \E f : Follows(f, S, n, base, step)
  <1> DEFINE Reaches(m) == \E f \in [0..m -> S] : /\ f[0] = base
                                                  /\ \A i \in 1..m : f[i] = step[<<f[i - 1], i>>]
             Has == {m \in Nat : m <= n => Reaches(m)}
  <1>1. 0 \in Has
    <2> DEFINE f == [i \in 0..0 |-> base]
    <2>1. f \in [0..0 -> S] /\ f[0] = base /\ \A i \in 1..0 : f[i] = step[<<f[i - 1], i>>]
      OBVIOUS
    <2> HIDE DEF f
    <2> QED
      BY <2>1
  <1>2. ASSUME NEW m \in Nat, m \in Has PROVE m + 1 \in Has
    <2>1. SUFFICES ASSUME m + 1 <= n PROVE Reaches(m + 1)
      OBVIOUS
    <2>2. PICK f \in [0..m -> S] : f[0] = base /\ \A i \in 1..m : f[i] = step[<<f[i - 1], i>>]
      BY <1>2, <2>1
    <2> DEFINE g == [i \in 0..(m + 1) |-> IF i <= m THEN f[i] ELSE step[<<f[m], m + 1>>]]
    <2>3. f[m] \in S /\ m + 1 \in 1..n
      BY <2>1
    <2>4. step[<<f[m], m + 1>>] \in S
      BY <2>3 DEF StaysWithin
    <2>5. g \in [0..(m + 1) -> S]
      BY <2>4
    <2>6. g[0] = base
      BY <2>2
    <2>7. ASSUME NEW i \in 1..(m + 1) PROVE g[i] = step[<<g[i - 1], i>>]
      <3>1. i - 1 \in 0..m /\ g[i - 1] = f[i - 1]
        OBVIOUS
      <3>2. CASE i \in 1..m
        BY <2>2, <3>1, <3>2
      <3>3. CASE i = m + 1
        <4>1. g[i] = step[<<f[m], m + 1>>] /\ i - 1 = m
          BY <3>3
        <4> QED
          BY <3>1, <3>3, <4>1
      <3> QED
        BY <3>2, <3>3
    <2> HIDE DEF g
    <2> QED
      BY <2>5, <2>6, <2>7
  <1> HIDE DEF Has
  <1>3. n \in Has
    BY <1>1, <1>2, AllNat
  <1>4. PICK f \in [0..n -> S] : f[0] = base /\ \A i \in 1..n : f[i] = step[<<f[i - 1], i>>]
    BY <1>3 DEF Has
  <1> QED
    BY <1>4 DEF Follows
-----------------------------------------------------------------------------
(* Scans of a sequence from its start                                       *)

\* f is what a scan of s knows before its first element and after each.
Scans(f, T, s, base, step) ==
  f \in [0..Len(s) -> T] /\ f[0] = base /\ \A i \in 1..Len(s) : f[i] = step[<<f[i - 1], s[i]>>]

\* h is what a scan knows as far as it has read.
ReadSoFar(h, n, T, s, base, step) ==
  h[0] = base /\ \A i \in 1..n : h[i - 1] \in T => h[i] = step[<<h[i - 1], s[i]>>]

\* What is known stays within T, whichever element of S is looked at.
Scanner(S, T, step) == \A t \in T, x \in S : step[<<t, x>>] \in T

\* What a scan knows in the end.
Scanned(T, s, base, step) == (CHOOSE f : Scans(f, T, s, base, step))[Len(s)]

\* A set of sequences with the empty one and, with each, all that are one longer.
LEMMA AllSeq ==
    ASSUME NEW S, NEW P, <<>> \in P, \A s \in Seq(S), x \in S : s \in P => Append(s, x) \in P
    PROVE  Seq(S) \subseteq P
  <1> DEFINE Has == {n \in Nat : \A s \in Seq(S) : Len(s) = n => s \in P}
  <1>1. 0 \in Has
    <2>1. ASSUME NEW s \in Seq(S), Len(s) = 0 PROVE s \in P
      <3>1. s = <<>>
        BY <2>1, EmptySeq
      <3> QED
        BY <3>1
    <2> QED
      BY <2>1
  <1>2. ASSUME NEW n \in Nat, n \in Has PROVE n + 1 \in Has
    <2>1. ASSUME NEW s \in Seq(S), Len(s) = n + 1 PROVE s \in P
      <3>1. s # <<>>
        BY <2>1
      <3>2. Front(s) \in Seq(S) /\ Len(Front(s)) = Len(s) - 1 /\ Last(s) \in S
            /\ s = Append(Front(s), Last(s))
        <4>1. Front(s) = SubSeq(s, 1, Len(s) - 1) /\ Last(s) = s[Len(s)]
          BY DEF Front, Last
        <4>2. Len(s) - 1 = n /\ n \in Nat /\ Len(s) \in 1..Len(s)
          BY <2>1
        <4> QED
          BY <4>1, <4>2, <2>1
      <3>3. Len(Front(s)) = n
        BY <2>1, <3>2
      <3>4. Front(s) \in P
        BY <1>2, <3>2, <3>3
      <3> QED
        BY <3>2, <3>4
    <2> QED
      BY <2>1
  <1> HIDE DEF Has
  <1>3. Nat \subseteq Has
    BY <1>1, <1>2, AllNat
  <1>4. ASSUME NEW s \in Seq(S) PROVE s \in P
    <2>1. Len(s) \in Has
      BY <1>3
    <2> QED
      BY <2>1 DEF Has
  <1> QED
    BY <1>4

\* Two scans agree as far as what they read agrees.
LEMMA ScansAgree ==
    ASSUME NEW T, NEW base, NEW step, NEW s, Len(s) \in Nat, NEW f, Scans(f, T, s, base, step),
           NEW n \in 0..Len(s), NEW h, ReadSoFar(h, n, T, s, base, step)
    PROVE  \A i \in 0..n : h[i] = f[i]
  <1> DEFINE Has == {i \in Nat : i <= n => h[i] = f[i]}
  <1>1. 0 \in Has
    BY DEF Scans, ReadSoFar
  <1>2. ASSUME NEW i \in Nat, i \in Has PROVE i + 1 \in Has
    <2>1. SUFFICES ASSUME i + 1 <= n PROVE h[i + 1] = f[i + 1]
      OBVIOUS
    <2>2. /\ h[i] = f[i] /\ i + 1 \in 1..n /\ i + 1 \in 1..Len(s) /\ (i + 1) - 1 = i
          /\ f[i] \in T
      BY <1>2, <2>1 DEF Scans
    <2>3. h[i + 1] = step[<<h[(i + 1) - 1], s[i + 1]>>]
      BY <2>2 DEF ReadSoFar
    <2>4. f[i + 1] = step[<<f[(i + 1) - 1], s[i + 1]>>]
      BY <2>2 DEF Scans
    <2> QED
      BY <2>2, <2>3, <2>4
  <1> HIDE DEF Has
  <1>3. Nat \subseteq Has
    BY <1>1, <1>2, AllNat
  <1> QED
    BY <1>3 DEF Has

\* A scan exists.
LEMMA ScanExists ==
    ASSUME NEW S, NEW T, NEW base \in T, NEW step, Scanner(S, T, step), NEW s \in Seq(S)
    PROVE  \E f : Scans(f, T, s, base, step)
  <1> DEFINE at == [p \in T \X (1..Len(s)) |-> step[<<p[1], s[p[2]]>>]]
  <1>1. \A t \in T, i \in 1..Len(s) : at[<<t, i>>] = step[<<t, s[i]>>]
    OBVIOUS
  <1> HIDE DEF at
  <1>2. \A i \in 1..Len(s) : s[i] \in S
    OBVIOUS
  <1>3. StaysWithin(at, T, Len(s))
    BY <1>1, <1>2 DEF StaysWithin, Scanner
  <1>4. Len(s) \in Nat
    OBVIOUS
  <1>5. PICK f : Follows(f, T, Len(s), base, at)
    BY <1>3, <1>4, Recursion
  <1>6. f \in [0..Len(s) -> T] /\ f[0] = base /\ \A i \in 1..Len(s) : f[i] = at[<<f[i - 1], i>>]
    BY <1>5 DEF Follows
  <1>7. ASSUME NEW i \in 1..Len(s) PROVE f[i] = step[<<f[i - 1], s[i]>>]
    <2>1. i - 1 \in 0..Len(s)
      BY <1>4
    <2>2. f[i - 1] \in T
      BY <1>6, <2>1
    <2> QED
      BY <1>1, <1>6, <2>2
  <1> QED
    BY <1>6, <1>7 DEF Scans

\* The scan of Scanned is one.
LEMMA ScannedIsScan ==
    ASSUME NEW S, NEW T, NEW base \in T, NEW step, Scanner(S, T, step), NEW s \in Seq(S)
    PROVE  \E f : Scans(f, T, s, base, step) /\ Scanned(T, s, base, step) = f[Len(s)]
  <1>1. Scans(CHOOSE f : Scans(f, T, s, base, step), T, s, base, step)
    BY ScanExists
  <1> QED
    BY <1>1 DEF Scanned

\* What any recursive function of the steps ends with is what was scanned.
LEMMA ScannedIs ==
    ASSUME NEW S, NEW T, NEW base \in T, NEW step, Scanner(S, T, step), NEW s \in Seq(S),
           NEW h, ReadSoFar(h, Len(s), T, s, base, step)
    PROVE  h[Len(s)] = Scanned(T, s, base, step)
  <1>1. PICK f : Scans(f, T, s, base, step) /\ Scanned(T, s, base, step) = f[Len(s)]
    BY ScannedIsScan
  <1>2. Len(s) \in Nat /\ Len(s) \in 0..Len(s)
    OBVIOUS
  <1>3. \A i \in 0..Len(s) : h[i] = f[i]
    BY <1>1, <1>2, ScansAgree
  <1> QED
    BY <1>1, <1>2, <1>3

\* What a scan of nothing, and of one element more, knows.
LEMMA ScannedStep ==
    ASSUME NEW S, NEW T, NEW base \in T, NEW step, Scanner(S, T, step)
    PROVE  /\ Scanned(T, <<>>, base, step) = base
           /\ \A s \in Seq(S) : Scanned(T, s, base, step) \in T
           /\ \A s \in Seq(S), x \in S :
                Scanned(T, Append(s, x), base, step) = step[<<Scanned(T, s, base, step), x>>]
  <1>1. Scanned(T, <<>>, base, step) = base
    <2>1. ASSUME NEW nil \in Seq(S), Len(nil) = 0 PROVE Scanned(T, nil, base, step) = base
      <3>1. PICK f : Scans(f, T, nil, base, step) /\ Scanned(T, nil, base, step) = f[Len(nil)]
        BY ScannedIsScan
      <3> QED
        BY <2>1, <3>1 DEF Scans
    <2>2. <<>> \in Seq(S) /\ Len(<<>>) = 0
      OBVIOUS
    <2> QED
      BY <2>1, <2>2, Zenon
  <1>2. ASSUME NEW s \in Seq(S) PROVE Scanned(T, s, base, step) \in T
    <2>1. PICK f : Scans(f, T, s, base, step) /\ Scanned(T, s, base, step) = f[Len(s)]
      BY ScannedIsScan
    <2>2. Len(s) \in 0..Len(s)
      OBVIOUS
    <2> QED
      BY <2>1, <2>2 DEF Scans
  <1>3. ASSUME NEW s \in Seq(S), NEW x \in S
        PROVE  Scanned(T, Append(s, x), base, step) = step[<<Scanned(T, s, base, step), x>>]
    <2> DEFINE r == Append(s, x)
    <2>1. r \in Seq(S) /\ Len(r) = Len(s) + 1 /\ r[Len(s) + 1] = x /\ Len(s) \in Nat
          /\ \A i \in 1..Len(s) : r[i] = s[i]
      OBVIOUS
    <2> HIDE DEF r
    <2>2. PICK f : Scans(f, T, s, base, step) /\ Scanned(T, s, base, step) = f[Len(s)]
      BY ScannedIsScan
    <2>3. PICK g : Scans(g, T, r, base, step) /\ Scanned(T, r, base, step) = g[Len(r)]
      BY <2>1, ScannedIsScan
    <2>4. g[0] = base /\ \A i \in 1..(Len(s) + 1) : g[i] = step[<<g[i - 1], r[i]>>]
      BY <2>1, <2>3 DEF Scans
    <2>5. Len(s) \in 0..Len(s) /\ ReadSoFar(g, Len(s), T, s, base, step)
      BY <2>1, <2>4 DEF ReadSoFar
    <2>6. \A i \in 0..Len(s) : g[i] = f[i]
      <3>1. Len(s) \in Nat /\ Scans(f, T, s, base, step)
        BY <2>1, <2>2
      <3> QED
        BY <3>1, <2>5, ScansAgree
    <2>7. g[Len(s) + 1] = step[<<g[(Len(s) + 1) - 1], r[Len(s) + 1]>>] /\ (Len(s) + 1) - 1 = Len(s)
      BY <2>1, <2>4
    <2>8. g[Len(s)] = f[Len(s)]
      BY <2>5, <2>6
    <2> QED
      BY <2>1, <2>2, <2>3, <2>7, <2>8 DEF r
  <1> QED
    BY <1>1, <1>2, <1>3
-----------------------------------------------------------------------------
(* Sequences that are joined to one                                         *)

Glued(S) == [p \in Seq(S) \X Seq(S) |-> p[1] \o p[2]]

\* Joining is a scan.
LEMMA JoinedIs ==
    ASSUME NEW S
    PROVE  /\ Scanner(Seq(S), Seq(S), Glued(S)) /\ <<>> \in Seq(S)
           /\ \A t, r \in Seq(S) : Glued(S)[<<t, r>>] = t \o r
           /\ \A rows \in Seq(Seq(S)) :
                \E g : /\ Scans(g, Seq(S), rows, <<>>, Glued(S))
                       /\ Scanned(Seq(S), rows, <<>>, Glued(S)) = g[Len(rows)]
           /\ \A rows \in Seq(Seq(S)) : Scanned(Seq(S), rows, <<>>, Glued(S)) \in Seq(S)
           /\ \A rows \in Seq(Seq(S)), row \in Seq(S) :
                Scanned(Seq(S), Append(rows, row), <<>>, Glued(S)) =
                  Glued(S)[<<Scanned(Seq(S), rows, <<>>, Glued(S)), row>>]
  <1>1. \A t, r \in Seq(S) : Glued(S)[<<t, r>>] = t \o r
    BY DEF Glued
  <1>2. \A t, r \in Seq(S) : t \o r \in Seq(S)
    BY ConcatProperties
  <1>3. <<>> \in Seq(S)
    OBVIOUS
  <1>4. Scanner(Seq(S), Seq(S), Glued(S))
    BY <1>1, <1>2 DEF Scanner
  <1> DEFINE T == Seq(S)  nil == <<>>  step == Glued(S)
  <1>5. nil \in T /\ Scanner(T, T, step)
    BY <1>3, <1>4
  <1> HIDE DEF T, nil, step
  <1>6. \A rows \in Seq(T) : \E g : Scans(g, T, rows, nil, step) /\ Scanned(T, rows, nil, step) = g[Len(rows)]
    BY <1>5, ScannedIsScan
  <1>7. /\ \A rows \in Seq(T) : Scanned(T, rows, nil, step) \in T
        /\ \A rows \in Seq(T), row \in T :
             Scanned(T, Append(rows, row), nil, step) = step[<<Scanned(T, rows, nil, step), row>>]
    BY <1>5, ScannedStep
  <1> QED
    BY <1>1, <1>3, <1>4, <1>6, <1>7, Zenon DEF T, nil, step

LEMMA FlattenIsScanned ==
    ASSUME NEW S, NEW rows \in Seq(Seq(S))
    PROVE  FlattenSeq(rows) = Scanned(Seq(S), rows, <<>>, Glued(S))
  <1> DEFINE n == Len(rows)
             fun == CHOOSE f : f = [i \in 1..n |-> IF i = 1 THEN rows[i] ELSE f[i - 1] \o rows[i]]
  <1>1. n \in Nat /\ \A i \in 1..n : rows[i] \in Seq(S)
    OBVIOUS
  <1>2. PICK g : Scans(g, Seq(S), rows, <<>>, Glued(S)) /\ Scanned(Seq(S), rows, <<>>, Glued(S)) = g[n]
    BY JoinedIs, Zenon
  <1>3. g \in [0..n -> Seq(S)] /\ g[0] = <<>> /\ \A i \in 1..n : g[i] = g[i - 1] \o rows[i]
    <2>1. g \in [0..n -> Seq(S)] /\ g[0] = <<>> /\ \A i \in 1..n : g[i] = Glued(S)[<<g[i - 1], rows[i]>>]
      BY <1>2 DEF Scans
    <2>2. ASSUME NEW i \in 1..n PROVE g[i] = g[i - 1] \o rows[i]
      <3>1. i - 1 \in 0..n
        BY <1>1
      <3>2. g[i - 1] \in Seq(S) /\ rows[i] \in Seq(S)
        BY <1>1, <2>1, <3>1
      <3> QED
        BY <2>1, <3>2, JoinedIs
    <2> QED
      BY <2>1, <2>2
  <1>4. CASE n = 0
    <2>1. rows = <<>> /\ FlattenSeq(rows) = rows
      BY <1>4, EmptySeq DEF FlattenSeq
    <2> QED
      BY <1>2, <1>3, <1>4, <2>1
  <1>5. CASE n # 0
    <2> DEFINE h == [i \in 1..n |-> g[i]]
    <2>1. h = [i \in 1..n |-> IF i = 1 THEN rows[i] ELSE h[i - 1] \o rows[i]]
      <3>1. ASSUME NEW i \in 1..n PROVE g[i] = IF i = 1 THEN rows[i] ELSE h[i - 1] \o rows[i]
        <4>1. CASE i = 1
          <5>1. g[1] = <<>> \o rows[1]
            <6>1. 1 \in 1..n /\ 1 - 1 = 0
              BY <4>1
            <6> QED
              BY <1>3, <6>1
          <5>2. <<>> \o rows[1] = rows[1]
            BY <1>1, <4>1, ConcatEmptySeq
          <5> QED
            BY <4>1, <5>1, <5>2
        <4>2. CASE i # 1
          <5>1. i - 1 \in 1..n /\ h[i - 1] = g[i - 1]
            BY <1>1, <4>2
          <5> QED
            BY <1>3, <4>2, <5>1
        <4> QED
          BY <4>1, <4>2
      <3> QED
        BY <3>1
    <2> HIDE DEF h
    <2>2. fun = [i \in 1..n |-> IF i = 1 THEN rows[i] ELSE fun[i - 1] \o rows[i]]
      BY <2>1
    <2>3. FlattenSeq(rows) = fun[n]
      BY <1>5 DEF FlattenSeq
    <2> HIDE DEF fun
    <2> DEFINE Has == {i \in Nat : i >= 1 /\ i <= n => fun[i] = g[i]}
    <2>4. 0 \in Has
      OBVIOUS
    <2>5. ASSUME NEW i \in Nat, i \in Has PROVE i + 1 \in Has
      <3>1. SUFFICES ASSUME i + 1 <= n PROVE fun[i + 1] = g[i + 1]
        OBVIOUS
      <3>2. i + 1 \in 1..n /\ (i + 1) - 1 = i
        BY <1>1, <3>1
      <3>3. fun[i + 1] = IF i + 1 = 1 THEN rows[i + 1] ELSE fun[(i + 1) - 1] \o rows[i + 1]
        <4> HIDE DEF Has
        <4> QED
          BY <2>2, <3>2
      <3>4. g[i + 1] = g[(i + 1) - 1] \o rows[i + 1]
        BY <1>3, <3>2
      <3>5. CASE i = 0
        <4>1. <<>> \o rows[i + 1] = rows[i + 1]
          BY <1>1, <3>2, ConcatEmptySeq
        <4>2. g[(i + 1) - 1] = <<>> /\ i + 1 = 1
          BY <1>3, <3>5
        <4> QED
          BY <3>3, <3>4, <4>1, <4>2, Zenon
      <3>6. CASE i # 0
        <4>1. fun[i] = g[i] /\ i + 1 # 1
          BY <2>5, <3>1, <3>6
        <4> QED
          BY <3>2, <3>3, <3>4, <4>1, Zenon
      <3> QED
        BY <3>5, <3>6
    <2> HIDE DEF Has
    <2>6. Nat \subseteq Has
      BY <2>4, <2>5, AllNat
    <2>7. fun[n] = g[n]
      BY <1>1, <1>5, <2>6 DEF Has
    <2> QED
      BY <1>2, <2>3, <2>7
  <1> QED
    BY <1>4, <1>5

\* What is joined of no rows, and of one row more.
LEMMA FlattenGrows ==
    ASSUME NEW S
    PROVE  /\ FlattenSeq(<<>>) = <<>>
           /\ \A rows \in Seq(Seq(S)) : FlattenSeq(rows) \in Seq(S)
           /\ \A rows \in Seq(Seq(S)), row \in Seq(S) :
                FlattenSeq(Append(rows, row)) = FlattenSeq(rows) \o row
  <1> DEFINE Flat(rows) == Scanned(Seq(S), rows, <<>>, Glued(S))
  <1>1. /\ \A rows \in Seq(Seq(S)) : Flat(rows) \in Seq(S)
        /\ \A rows \in Seq(Seq(S)), row \in Seq(S) :
             Flat(Append(rows, row)) = Glued(S)[<<Flat(rows), row>>]
    BY JoinedIs, Zenon
  <1>2. \A rows \in Seq(Seq(S)) : FlattenSeq(rows) = Flat(rows)
    BY FlattenIsScanned
  <1>3. FlattenSeq(<<>>) = <<>>
    BY DEF FlattenSeq
  <1> HIDE DEF Flat
  <1>4. ASSUME NEW rows \in Seq(Seq(S)), NEW row \in Seq(S)
        PROVE  FlattenSeq(Append(rows, row)) = FlattenSeq(rows) \o row
    <2>1. Append(rows, row) \in Seq(Seq(S))
      BY AppendProperties
    <2>2. FlattenSeq(Append(rows, row)) = Flat(Append(rows, row)) /\ FlattenSeq(rows) = Flat(rows)
      BY <1>2, <2>1
    <2>3. Flat(rows) \in Seq(S) /\ Flat(Append(rows, row)) = Glued(S)[<<Flat(rows), row>>]
      BY <1>1
    <2>4. Glued(S)[<<Flat(rows), row>>] = Flat(rows) \o row
      BY <2>3, JoinedIs, Zenon
    <2> QED
      BY <2>2, <2>3, <2>4, Zenon
  <1> QED
    BY <1>1, <1>2, <1>3, <1>4
-----------------------------------------------------------------------------
(* Loops whose rounds are joined to one sequence                            *)

\* A row of a members of S whose ranks follow on base.
NumberedFrom(S, rank, base, s, a) ==
  s \in Seq(S) /\ Len(s) = a /\ \A j \in 1..a : rank[s[j]] = base + j

\* What two numbered rows are, one after the other.
LEMMA RowsJoin ==
    ASSUME NEW S, NEW rank, NEW base \in Int, NEW a \in Nat, NEW b \in Nat,
           NEW s, NumberedFrom(S, rank, base, s, a), NEW t, NumberedFrom(S, rank, base + a, t, b)
    PROVE  NumberedFrom(S, rank, base, s \o t, a + b)
  <1>0. s \in Seq(S) /\ Len(s) = a /\ t \in Seq(S) /\ Len(t) = b
    BY DEF NumberedFrom
  <1>1. /\ s \o t \in Seq(S) /\ Len(s \o t) = a + b
        /\ \A i \in 1..(Len(s) + Len(t)) : (s \o t)[i] = IF i <= Len(s) THEN s[i] ELSE t[i - Len(s)]
    BY <1>0, ConcatProperties
  <1>2. ASSUME NEW j \in 1..(a + b) PROVE rank[(s \o t)[j]] = base + j
    <2>1. CASE j <= a
      <3>1. (s \o t)[j] = s[j] /\ j \in 1..a
        BY <1>0, <1>1, <2>1
      <3> QED
        BY <3>1 DEF NumberedFrom
    <2>2. CASE j > a
      <3>1. (s \o t)[j] = t[j - a] /\ j - a \in 1..b
        BY <1>0, <1>1, <2>2
      <3>2. rank[t[j - a]] = (base + a) + (j - a)
        BY <3>1 DEF NumberedFrom
      <3>3. (base + a) + (j - a) = base + j
        OBVIOUS
      <3> QED
        BY <3>1, <3>2, <3>3
    <2>3. j <= a \/ j > a
      OBVIOUS
    <2> QED
      BY <2>1, <2>2, <2>3, Zenon
  <1> QED
    BY <1>1, <1>2 DEF NumberedFrom

\* A loop of n rounds that joins a row in each, an equal number in all of them,
\* has its rows numbered through.
LEMMA LoopIsNumbered ==
    ASSUME NEW S, NEW rank, NEW base \in Int, NEW w \in Nat, NEW n \in Nat \ {0},
           NEW rows \in Seq(Seq(S)), Len(rows) = n,
           \A i \in 1..n : NumberedFrom(S, rank, base + (i - 1) * w, rows[i], w)
    PROVE  NumberedFrom(S, rank, base, FlattenSeq(rows), n * w)
  <1>1. \A i \in 1..n : rows[i] \in Seq(S)
    OBVIOUS
  <1>2. PICK g : Scans(g, Seq(S), rows, <<>>, Glued(S))
                   /\ Scanned(Seq(S), rows, <<>>, Glued(S)) = g[Len(rows)]
    BY JoinedIs, Zenon
  <1>3. FlattenSeq(rows) = g[n]
    BY <1>2, FlattenIsScanned, Zenon
  <1>4. g[0] = <<>> /\ \A i \in 1..n : g[i] = g[i - 1] \o rows[i]
    <2>1. /\ g \in [0..n -> Seq(S)] /\ g[0] = <<>>
          /\ \A i \in 1..n : g[i] = Glued(S)[<<g[i - 1], rows[i]>>]
      BY <1>2 DEF Scans
    <2>2. ASSUME NEW i \in 1..n PROVE g[i] = g[i - 1] \o rows[i]
      <3>1. i - 1 \in 0..n
        OBVIOUS
      <3>2. g[i - 1] \in Seq(S) /\ rows[i] \in Seq(S)
        BY <1>1, <2>1, <3>1
      <3>3. Glued(S)[<<g[i - 1], rows[i]>>] = g[i - 1] \o rows[i]
        BY <3>2, JoinedIs, Zenon
      <3> QED
        BY <2>1, <3>3
    <2> QED
      BY <2>1, <2>2
  <1> DEFINE Has == {i \in Nat : i <= n => NumberedFrom(S, rank, base, g[i], i * w)}
  <1>5. 0 \in Has
    <2>1. g[0] \in Seq(S) /\ Len(g[0]) = 0 /\ 0 * w = 0
      BY <1>4
    <2>2. NumberedFrom(S, rank, base, g[0], 0)
      BY <2>1 DEF NumberedFrom
    <2> QED
      BY <2>1, <2>2
  <1>6. ASSUME NEW i \in Nat, i \in Has PROVE i + 1 \in Has
    <2>1. SUFFICES ASSUME i + 1 <= n PROVE NumberedFrom(S, rank, base, g[i + 1], (i + 1) * w)
      OBVIOUS
    <2>2. NumberedFrom(S, rank, base, g[i], i * w)
      BY <1>6, <2>1
    <2>3. g[i + 1] = g[i] \o rows[i + 1] /\ i + 1 \in 1..n
      <3>1. i + 1 \in 1..n /\ (i + 1) - 1 = i
        BY <2>1
      <3> HIDE DEF Has
      <3> QED
        BY <1>4, <3>1
    <2>4. i * w \in Nat /\ i * w + w = (i + 1) * w /\ (i + 1) - 1 = i
      OBVIOUS
    <2>5. NumberedFrom(S, rank, base + i * w, rows[i + 1], w)
      <3>1. NumberedFrom(S, rank, base + ((i + 1) - 1) * w, rows[i + 1], w)
        BY <2>3
      <3> QED
        BY <2>4, <3>1
    <2> DEFINE a == i * w
    <2>6. a \in Nat /\ NumberedFrom(S, rank, base, g[i], a) /\ NumberedFrom(S, rank, base + a, rows[i + 1], w)
      BY <2>2, <2>4, <2>5
    <2> HIDE DEF a
    <2>7. NumberedFrom(S, rank, base, g[i] \o rows[i + 1], a + w)
      BY <2>6, RowsJoin
    <2>8. a + w = (i + 1) * w
      BY <2>4 DEF a
    <2> QED
      BY <2>3, <2>7, <2>8, Zenon
  <1> HIDE DEF Has
  <1>7. n \in Has
    BY <1>5, <1>6, AllNat
  <1> QED
    BY <1>3, <1>7 DEF Has
=============================================================================
