------------------------------ MODULE FiniteSums ------------------------------
(* Facts about finite sets of any size: what holds of the empty set and is *)
(* kept by one element more holds of all of them, and sums behave.  The    *)
(* induction theorems of the library take an operator; these take a set,   *)
(* and rest on the smallest number that is not in it.                      *)
EXTENDS Integers, Functions, FiniteSetTheorems, WellFoundedInduction, TLAPS

(* Induction over the natural numbers.                                     *)
LEMMA NumberSetInduction ==
    ASSUME NEW S, 0 \in S, \A n \in Nat : n \in S => n + 1 \in S
    PROVE  Nat \subseteq S
<1>. DEFINE R == OpToRel(<, Nat)
            T == {n \in Nat : n \notin S}
<1>1. \A m, n \in Nat : m < n => <<m, n>> \in R
  BY DEF OpToRel
<1>. HIDE DEF R
<1>2. SUFFICES ASSUME T # {} PROVE FALSE
  OBVIOUS
<1>3. PICK x \in T : \A y \in T : <<y, x>> \notin R
  <2>1. T \subseteq Nat
    OBVIOUS
  <2>2. IsWellFoundedOn(R, Nat)
    BY NatLessThanWellFounded DEF R
  <2>. HIDE DEF T
  <2>. QED  BY <1>2, <2>1, <2>2, WFMin
<1>4. x \in Nat /\ x - 1 \in Nat /\ x - 1 < x
  OBVIOUS
<1>5. x - 1 \in S
  BY <1>1, <1>3, <1>4
<1>6. (x - 1) + 1 \in S
  BY <1>4, <1>5
<1>. QED  BY <1>4, <1>6

(* What the subsets of a finite set are.                                   *)
LEMMA SubsetsAreFinite ==
    ASSUME NEW S, IsFiniteSet(S)
    PROVE  \A s \in SUBSET S :
              /\ IsFiniteSet(s) /\ Cardinality(s) \in Nat
              /\ Cardinality(s) = 0 <=> s = {}
              /\ \A x \in s : Cardinality(s \ {x}) = Cardinality(s) - 1
BY FS_Subset, FS_CardinalityType, FS_EmptySet, FS_RemoveElement

(* Induction over the subsets of a finite set.                             *)
LEMMA SubsetInduction ==
    ASSUME NEW S, IsFiniteSet(S), NEW F, {} \in F,
           \A T \in SUBSET S : \A x \in T : T \ {x} \in F => T \in F
    PROVE  S \in F /\ SUBSET S \subseteq F
<1>. DEFINE N == {n \in Nat : \A T \in SUBSET S : Cardinality(T) = n => T \in F}
<1>1. 0 \in N
  BY SubsetsAreFinite
<1>2. ASSUME NEW n \in Nat, n \in N PROVE n + 1 \in N
  <2>. SUFFICES ASSUME NEW T \in SUBSET S, Cardinality(T) = n + 1 PROVE T \in F
    OBVIOUS
  <2>1. PICK x : x \in T
    BY SubsetsAreFinite
  <2>2. Cardinality(T \ {x}) = n
    <3>1. Cardinality(T \ {x}) = Cardinality(T) - 1
      BY <2>1, SubsetsAreFinite
    <3>. QED  BY <3>1
  <2>3. T \ {x} \in F
    BY <1>2, <2>2
  <2>. QED  BY <2>1, <2>3
<1>3. Nat \subseteq N
  <2>. HIDE DEF N
  <2>. QED  BY <1>1, <1>2, NumberSetInduction
<1>. QED  BY <1>3, SubsetsAreFinite

(* The values of a function on a finite set are finitely many.             *)
LEMMA ImageIsFinite ==
    ASSUME NEW S, IsFiniteSet(S), NEW f
    PROVE  IsFiniteSet({f[x] : x \in S})
<1>. DEFINE T == {f[x] : x \in S}
            g == [x \in S |-> f[x]]
<1>1. g \in Surjection(S, T)
  BY DEF Surjection
<1>. QED  BY <1>1, FS_Surjection

-----------------------------------------------------------------------------
(* Sums: the fold of the library is the function that its equation defines.*)

(* The fold takes this element next.                                       *)
Some(s) == CHOOSE x \in s : TRUE

LEMMA SomeIn == ASSUME NEW s, s # {} PROVE Some(s) \in s
BY DEF Some

SumOfSubset(it, f, s) == IF s = {} THEN 0 ELSE f[Some(s)] + it[s \ {Some(s)}]

SumEquation(it, f, S) == it = [s \in SUBSET S |-> SumOfSubset(it, f, s)]

Iterator(f, S) == CHOOSE it : SumEquation(it, f, S)

LEMMA SumIsIterated ==
    ASSUME NEW f, NEW S
    PROVE  SumFunctionOnSet(f, S) = Iterator(f, S)[S]
BY DEF SumFunctionOnSet, FoldFunctionOnSet, MapThenFoldSet, Iterator, SumEquation,
       SumOfSubset, Some

(* The equation has a solution: one for the subsets of up to n elements    *)
(* gives one for those of n + 1.                                           *)
LEMMA IteratorExists ==
    ASSUME NEW f, NEW S, IsFiniteSet(S)
    PROVE  \E it : SumEquation(it, f, S)
<1>. DEFINE Solves(it, n) == \A s \in SUBSET S :
                                Cardinality(s) <= n => it[s] = SumOfSubset(it, f, s)
            N == {n \in Nat : \E it : Solves(it, n)}
<1>1. 0 \in N
  <2>. DEFINE it == [s \in SUBSET S |-> 0]
  <2>1. Solves(it, 0)
    BY SubsetsAreFinite DEF SumOfSubset
  <2>. QED  BY <2>1
<1>2. ASSUME NEW n \in Nat, n \in N PROVE n + 1 \in N
  <2>1. PICK it : Solves(it, n)
    BY <1>2
  <2>. DEFINE jt == [s \in SUBSET S |-> SumOfSubset(it, f, s)]
  <2>2. ASSUME NEW s \in SUBSET S, Cardinality(s) <= n PROVE jt[s] = it[s]
    BY <2>1, <2>2
  <2>3. ASSUME NEW s \in SUBSET S, Cardinality(s) <= n + 1
        PROVE  jt[s] = SumOfSubset(jt, f, s)
    <3>1. CASE s = {}
      BY <3>1 DEF SumOfSubset
    <3>2. CASE s # {}
      <4>1. Cardinality(s \ {Some(s)}) = Cardinality(s) - 1
        BY <3>2, SomeIn, SubsetsAreFinite
      <4>2. Cardinality(s \ {Some(s)}) <= n
        BY <2>3, <4>1, SubsetsAreFinite
      <4>3. jt[s \ {Some(s)}] = it[s \ {Some(s)}]
        BY <2>2, <4>2
      <4>4. jt[s] = SumOfSubset(it, f, s)
        OBVIOUS
      <4>. HIDE DEF jt
      <4>. QED  BY <4>3, <4>4 DEF SumOfSubset
    <3>. QED  BY <3>1, <3>2
  <2>. HIDE DEF jt
  <2>4. Solves(jt, n + 1)
    BY <2>3
  <2>. QED  BY <2>4
<1>3. Nat \subseteq N
  <2>. HIDE DEF N
  <2>. QED  BY <1>1, <1>2, NumberSetInduction
<1>4. PICK it : Solves(it, Cardinality(S))
  BY <1>3, FS_CardinalityType
<1>. DEFINE kt == [s \in SUBSET S |-> it[s]]
<1>5. ASSUME NEW s \in SUBSET S PROVE kt[s] = SumOfSubset(kt, f, s)
  <2>1. it[s] = SumOfSubset(it, f, s)
    BY <1>4, FS_Subset
  <2>. QED  BY <2>1 DEF SumOfSubset
<1>6. kt = [s \in SUBSET S |-> kt[s]]
  OBVIOUS
<1>. HIDE DEF kt
<1>7. SumEquation(kt, f, S)
  BY <1>5, <1>6 DEF SumEquation
<1>. QED  BY <1>7

LEMMA IteratorIs ==
    ASSUME NEW f, NEW S, IsFiniteSet(S), NEW s \in SUBSET S
    PROVE  Iterator(f, S)[s] = SumOfSubset(Iterator(f, S), f, s)
<1>1. SumEquation(Iterator(f, S), f, S)
  BY IteratorExists DEF Iterator
<1>. QED  BY <1>1 DEF SumEquation

(* It depends on the values summed and on nothing else.                    *)
LEMMA IteratorsAgree ==
    ASSUME NEW f, NEW g, NEW S, NEW U, IsFiniteSet(S), IsFiniteSet(U),
           NEW s, s \subseteq S, s \subseteq U, \A x \in s : f[x] = g[x]
    PROVE  Iterator(f, S)[s] = Iterator(g, U)[s]
<1>. DEFINE N == {n \in Nat : \A t \in SUBSET s :
                     Cardinality(t) = n => Iterator(f, S)[t] = Iterator(g, U)[t]}
<1>1. IsFiniteSet(s)
  BY FS_Subset
<1>2. 0 \in N
  <2>1. Iterator(f, S)[{}] = 0 /\ Iterator(g, U)[{}] = 0
    BY IteratorIs DEF SumOfSubset
  <2>. QED  BY <1>1, <2>1, SubsetsAreFinite
<1>3. ASSUME NEW n \in Nat, n \in N PROVE n + 1 \in N
  <2>. SUFFICES ASSUME NEW t \in SUBSET s, Cardinality(t) = n + 1
                PROVE  Iterator(f, S)[t] = Iterator(g, U)[t]
    OBVIOUS
  <2>1. t # {}
    BY <1>1, SubsetsAreFinite
  <2>2. Cardinality(t \ {Some(t)}) = n
    <3>1. Cardinality(t \ {Some(t)}) = Cardinality(t) - 1
      BY <1>1, <2>1, SomeIn, SubsetsAreFinite
    <3>. QED  BY <3>1
  <2>3. Iterator(f, S)[t \ {Some(t)}] = Iterator(g, U)[t \ {Some(t)}]
    BY <1>3, <2>2
  <2>4. f[Some(t)] = g[Some(t)]
    BY <2>1, SomeIn
  <2>5. Iterator(f, S)[t] = SumOfSubset(Iterator(f, S), f, t)
    BY IteratorIs
  <2>6. Iterator(g, U)[t] = SumOfSubset(Iterator(g, U), g, t)
    BY IteratorIs
  <2>. QED  BY <2>1, <2>3, <2>4, <2>5, <2>6 DEF SumOfSubset
<1>4. Nat \subseteq N
  <2>. HIDE DEF N
  <2>. QED  BY <1>2, <1>3, NumberSetInduction
<1>5. Cardinality(s) \in N
  BY <1>1, <1>4, FS_CardinalityType
<1>. QED  BY <1>5

LEMMA SumSame ==
    ASSUME NEW S, IsFiniteSet(S), NEW f, NEW g, \A x \in S : f[x] = g[x]
    PROVE  SumFunctionOnSet(f, S) = SumFunctionOnSet(g, S)
BY SumIsIterated, IteratorsAgree

LEMMA SumEmpty == ASSUME NEW f PROVE SumFunctionOnSet(f, {}) = 0
BY SumIsIterated, IteratorIs, FS_EmptySet DEF SumOfSubset

LEMMA SumSome ==
    ASSUME NEW S, IsFiniteSet(S), S # {}, NEW f
    PROVE  SumFunctionOnSet(f, S) = f[Some(S)] + SumFunctionOnSet(f, S \ {Some(S)})
<1>1. Iterator(f, S)[S] = f[Some(S)] + Iterator(f, S)[S \ {Some(S)}]
  BY IteratorIs DEF SumOfSubset
<1>2. IsFiniteSet(S \ {Some(S)})
  BY FS_Subset
<1>3. Iterator(f, S)[S \ {Some(S)}] = Iterator(f, S \ {Some(S)})[S \ {Some(S)}]
  BY <1>2, IteratorsAgree
<1>. QED  BY <1>1, <1>3, SumIsIterated

(* Sums of integers, of natural numbers.                                   *)
LEMMA SumInt ==
    ASSUME NEW S, IsFiniteSet(S), NEW f, \A x \in S : f[x] \in Int
    PROVE  \A s \in SUBSET S : SumFunctionOnSet(f, s) \in Int
<1>. DEFINE F == {s \in SUBSET S : SumFunctionOnSet(f, s) \in Int}
            N == {n \in Nat : \A s \in SUBSET S : Cardinality(s) = n => s \in F}
<1>1. 0 \in N
  BY SumEmpty, SubsetsAreFinite
<1>2. ASSUME NEW n \in Nat, n \in N PROVE n + 1 \in N
  <2>. SUFFICES ASSUME NEW s \in SUBSET S, Cardinality(s) = n + 1 PROVE s \in F
    OBVIOUS
  <2>1. s # {} /\ Some(s) \in s
    BY SubsetsAreFinite, SomeIn
  <2>2. Cardinality(s \ {Some(s)}) = n
    <3>1. Cardinality(s \ {Some(s)}) = Cardinality(s) - 1
      BY <2>1, SubsetsAreFinite
    <3>. QED  BY <3>1
  <2>3. SumFunctionOnSet(f, s \ {Some(s)}) \in Int
    BY <1>2, <2>2
  <2>4. SumFunctionOnSet(f, s) = f[Some(s)] + SumFunctionOnSet(f, s \ {Some(s)})
    BY <2>1, SumSome, SubsetsAreFinite
  <2>. QED  BY <2>1, <2>3, <2>4
<1>3. Nat \subseteq N
  <2>. HIDE DEF N
  <2>. QED  BY <1>1, <1>2, NumberSetInduction
<1>. QED  BY <1>3, SubsetsAreFinite

(* Any element may be taken first.                                         *)
LEMMA SumRemove ==
    ASSUME NEW S, IsFiniteSet(S), NEW f, \A x \in S : f[x] \in Int
    PROVE  \A s \in SUBSET S : \A x \in s :
              SumFunctionOnSet(f, s) = f[x] + SumFunctionOnSet(f, s \ {x})
<1>. DEFINE F == {s \in SUBSET S : \A x \in s :
                     SumFunctionOnSet(f, s) = f[x] + SumFunctionOnSet(f, s \ {x})}
            N == {n \in Nat : \A s \in SUBSET S : Cardinality(s) = n => s \in F}
<1>1. 0 \in N
  BY SubsetsAreFinite
<1>2. ASSUME NEW n \in Nat, n \in N PROVE n + 1 \in N
  <2>. SUFFICES ASSUME NEW s \in SUBSET S, Cardinality(s) = n + 1, NEW x \in s
                PROVE  SumFunctionOnSet(f, s) = f[x] + SumFunctionOnSet(f, s \ {x})
    OBVIOUS
  <2>. DEFINE y == Some(s)
  <2>1. y \in s
    BY SomeIn
  <2>2. SumFunctionOnSet(f, s) = f[y] + SumFunctionOnSet(f, s \ {y})
    BY SumSome, SubsetsAreFinite
  <2>. HIDE DEF y
  <2>3. CASE x = y
    BY <2>2, <2>3
  <2>4. CASE x # y
    <3>1. Cardinality(s \ {y}) = n /\ Cardinality(s \ {x}) = n
      <4>1. Cardinality(s \ {y}) = Cardinality(s) - 1
        BY <2>1, SubsetsAreFinite
      <4>2. Cardinality(s \ {x}) = Cardinality(s) - 1
        BY SubsetsAreFinite
      <4>. QED  BY <4>1, <4>2
    <3>2. s \ {y} \in F /\ s \ {x} \in F
      BY <1>2, <3>1
    <3>3. SumFunctionOnSet(f, s \ {y}) = f[x] + SumFunctionOnSet(f, (s \ {y}) \ {x})
      BY <2>4, <3>2
    <3>4. SumFunctionOnSet(f, s \ {x}) = f[y] + SumFunctionOnSet(f, (s \ {x}) \ {y})
      BY <2>1, <2>4, <3>2
    <3>5. (s \ {y}) \ {x} = (s \ {x}) \ {y}
      OBVIOUS
    <3>6. SumFunctionOnSet(f, (s \ {x}) \ {y}) \in Int
      BY SumInt
    <3>7. f[x] \in Int /\ f[y] \in Int
      BY <2>1
    <3>8. SumFunctionOnSet(f, s) = f[y] + (f[x] + SumFunctionOnSet(f, (s \ {x}) \ {y}))
      BY <2>2, <3>3, <3>5
    <3>. QED  BY <3>4, <3>6, <3>7, <3>8
  <2>. QED  BY <2>3, <2>4
<1>3. Nat \subseteq N
  <2>. HIDE DEF N
  <2>. QED  BY <1>1, <1>2, NumberSetInduction
<1>. QED  BY <1>3, SubsetsAreFinite

(* What holds of the sum of nothing and is kept by one more summand holds  *)
(* of the sum.                                                             *)
LEMMA SumNat ==
    ASSUME NEW S, IsFiniteSet(S), NEW f, \A x \in S : f[x] \in Nat
    PROVE  SumFunctionOnSet(f, S) \in Nat
<1>. DEFINE F == {s \in SUBSET S : SumFunctionOnSet(f, s) \in Nat}
<1>1. {} \in F
  BY SumEmpty
<1>2. ASSUME NEW s \in SUBSET S, NEW x \in s, s \ {x} \in F PROVE s \in F
  <2>1. SumFunctionOnSet(f, s) = f[x] + SumFunctionOnSet(f, s \ {x})
    BY SumRemove
  <2>. QED  BY <1>2, <2>1
<1>. HIDE DEF F
<1>3. S \in F
  BY <1>1, <1>2, SubsetInduction
<1>. QED  BY <1>3 DEF F

(* Fewer natural numbers do not make a greater sum.                        *)
LEMMA SumMonotone ==
    ASSUME NEW S, IsFiniteSet(S), NEW f, \A x \in S : f[x] \in Nat, NEW T \in SUBSET S
    PROVE  SumFunctionOnSet(f, T) <= SumFunctionOnSet(f, S)
<1>. DEFINE F == {s \in SUBSET S :
                     SumFunctionOnSet(f, s \cap T) <= SumFunctionOnSet(f, s)}
<1>0. \A s \in SUBSET S : SumFunctionOnSet(f, s) \in Nat
  BY SumNat, FS_Subset
<1>1. {} \in F
  <2>1. {} \cap T = {} /\ SumFunctionOnSet(f, {}) = 0
    BY SumEmpty
  <2>. QED  BY <2>1
<1>2. ASSUME NEW s \in SUBSET S, NEW x \in s, s \ {x} \in F PROVE s \in F
  <2>1. SumFunctionOnSet(f, s) = f[x] + SumFunctionOnSet(f, s \ {x})
    BY SumRemove
  <2>2. CASE x \in T
    <3>1. SumFunctionOnSet(f, s \cap T) = f[x] + SumFunctionOnSet(f, (s \cap T) \ {x})
      BY <2>2, SumRemove
    <3>2. (s \cap T) \ {x} = (s \ {x}) \cap T
      OBVIOUS
    <3>3. SumFunctionOnSet(f, (s \ {x}) \cap T) <= SumFunctionOnSet(f, s \ {x})
      BY <1>2
    <3>. DEFINE t == (s \ {x}) \cap T
                u == s \ {x}
    <3>4. /\ SumFunctionOnSet(f, t) \in Nat /\ SumFunctionOnSet(f, u) \in Nat
          /\ f[x] \in Nat
      <4>1. t \in SUBSET S /\ u \in SUBSET S /\ f[x] \in Nat
        OBVIOUS
      <4>. HIDE DEF t, u
      <4>. QED  BY <1>0, <4>1
    <3>5. SumFunctionOnSet(f, s \cap T) = f[x] + SumFunctionOnSet(f, t)
      BY <3>1, <3>2
    <3>6. SumFunctionOnSet(f, s) = f[x] + SumFunctionOnSet(f, u)
      BY <2>1
    <3>7. SumFunctionOnSet(f, t) <= SumFunctionOnSet(f, u)
      BY <3>3
    <3>8. SumFunctionOnSet(f, s \cap T) <= SumFunctionOnSet(f, s)
      <4>. HIDE DEF t, u
      <4>. QED  BY <3>4, <3>5, <3>6, <3>7
    <3>. QED  BY <3>8
  <2>3. CASE x \notin T
    <3>1. s \cap T = (s \ {x}) \cap T
      BY <2>3
    <3>. QED  BY <1>0, <1>2, <2>1, <3>1
  <2>. QED  BY <2>2, <2>3
<1>. HIDE DEF F
<1>3. S \in F
  BY <1>1, <1>2, SubsetInduction
<1>4. S \cap T = T
  OBVIOUS
<1>. QED  BY <1>3, <1>4 DEF F

(* No summand is greater than a sum of natural numbers.                    *)
LEMMA SummandBelow ==
    ASSUME NEW S, IsFiniteSet(S), NEW f, \A x \in S : f[x] \in Nat, NEW x \in S
    PROVE  f[x] <= SumFunctionOnSet(f, S)
<1>1. SumFunctionOnSet(f, S) = f[x] + SumFunctionOnSet(f, S \ {x})
  BY SumRemove
<1>2. SumFunctionOnSet(f, S \ {x}) \in Nat
  BY SumNat, FS_Subset
<1>. QED  BY <1>1, <1>2

(* Sums of sums and of differences.                                        *)
LEMMA SumAdds ==
    ASSUME NEW S, IsFiniteSet(S), NEW f, NEW g, NEW h, NEW i,
           \A x \in S : f[x] \in Int /\ g[x] \in Int,
           \A x \in S : h[x] = f[x] + g[x] /\ i[x] = f[x] - g[x]
    PROVE  /\ SumFunctionOnSet(h, S) = SumFunctionOnSet(f, S) + SumFunctionOnSet(g, S)
           /\ SumFunctionOnSet(i, S) = SumFunctionOnSet(f, S) - SumFunctionOnSet(g, S)
<1>. DEFINE F == {s \in SUBSET S :
          /\ SumFunctionOnSet(h, s) = SumFunctionOnSet(f, s) + SumFunctionOnSet(g, s)
          /\ SumFunctionOnSet(i, s) = SumFunctionOnSet(f, s) - SumFunctionOnSet(g, s)}
<1>0. \A x \in S : h[x] \in Int /\ i[x] \in Int
  OBVIOUS
<1>1. {} \in F
  BY SumEmpty
<1>2. ASSUME NEW s \in SUBSET S, NEW x \in s, s \ {x} \in F PROVE s \in F
  <2>1. /\ SumFunctionOnSet(f, s) = f[x] + SumFunctionOnSet(f, s \ {x})
        /\ SumFunctionOnSet(g, s) = g[x] + SumFunctionOnSet(g, s \ {x})
    BY SumRemove
  <2>2. /\ SumFunctionOnSet(h, s) = h[x] + SumFunctionOnSet(h, s \ {x})
        /\ SumFunctionOnSet(i, s) = i[x] + SumFunctionOnSet(i, s \ {x})
    BY <1>0, SumRemove
  <2>3. SumFunctionOnSet(f, s \ {x}) \in Int /\ SumFunctionOnSet(g, s \ {x}) \in Int
    BY SumInt
  <2>4. h[x] = f[x] + g[x] /\ i[x] = f[x] - g[x] /\ f[x] \in Int /\ g[x] \in Int
    OBVIOUS
  <2>. QED  BY <1>2, <2>1, <2>2, <2>3, <2>4
<1>. HIDE DEF F
<1>3. S \in F
  BY <1>1, <1>2, SubsetInduction
<1>. QED  BY <1>3 DEF F

(* Ones count.                                                             *)
LEMMA SumCounts ==
    ASSUME NEW S, IsFiniteSet(S), NEW f, \A x \in S : f[x] = 1
    PROVE  SumFunctionOnSet(f, S) = Cardinality(S)
<1>. DEFINE F == {s \in SUBSET S : SumFunctionOnSet(f, s) = Cardinality(s)}
<1>1. {} \in F
  BY SumEmpty, FS_EmptySet
<1>2. ASSUME NEW s \in SUBSET S, NEW x \in s, s \ {x} \in F PROVE s \in F
  <2>1. SumFunctionOnSet(f, s) = 1 + SumFunctionOnSet(f, s \ {x})
    BY SumRemove
  <2>2. Cardinality(s \ {x}) = Cardinality(s) - 1 /\ Cardinality(s) \in Nat
    BY SubsetsAreFinite
  <2>. QED  BY <1>2, <2>1, <2>2
<1>. HIDE DEF F
<1>3. S \in F
  BY <1>1, <1>2, SubsetInduction
<1>. QED  BY <1>3 DEF F

(* One summand changed, the sum changes by as much.                        *)
LEMMA SumChanges ==
    ASSUME NEW S, IsFiniteSet(S), NEW f, NEW g, NEW x \in S, NEW d \in Int,
           \A y \in S : f[y] \in Int, g[x] = f[x] + d, \A y \in S \ {x} : g[y] = f[y]
    PROVE  SumFunctionOnSet(g, S) = SumFunctionOnSet(f, S) + d
<1>0. \A y \in S : g[y] \in Int
  OBVIOUS
<1>1. SumFunctionOnSet(f, S) = f[x] + SumFunctionOnSet(f, S \ {x})
  BY SumRemove
<1>2. SumFunctionOnSet(g, S) = g[x] + SumFunctionOnSet(g, S \ {x})
  BY <1>0, SumRemove
<1>3. SumFunctionOnSet(g, S \ {x}) = SumFunctionOnSet(f, S \ {x})
  BY SumSame, FS_Subset
<1>4. SumFunctionOnSet(f, S \ {x}) \in Int
  BY SumInt
<1>. QED  BY <1>1, <1>2, <1>3, <1>4

(* Zeros sum up to nothing.                                                *)
LEMMA SumZero ==
    ASSUME NEW S, IsFiniteSet(S), NEW f, \A x \in S : f[x] = 0
    PROVE  SumFunctionOnSet(f, S) = 0
<1>. DEFINE F == {s \in SUBSET S : SumFunctionOnSet(f, s) = 0}
<1>1. {} \in F
  BY SumEmpty
<1>2. ASSUME NEW s \in SUBSET S, NEW x \in s, s \ {x} \in F PROVE s \in F
  <2>1. SumFunctionOnSet(f, s) = 0 + SumFunctionOnSet(f, s \ {x})
    BY SumRemove
  <2>. QED  BY <1>2, <2>1
<1>. HIDE DEF F
<1>3. S \in F
  BY <1>1, <1>2, SubsetInduction
<1>. QED  BY <1>3 DEF F

(* Summed group by group, every summand counts once: kept(s, a) are those  *)
(* of s in group a.                                                        *)
Groups(key, s, a) == {x \in s : key[x] = a}

LEMMA SumByGroups ==
    ASSUME NEW S, IsFiniteSet(S), NEW A, IsFiniteSet(A), NEW key, \A x \in S : key[x] \in A,
           NEW f, \A x \in S : f[x] \in Int,
           NEW g, \A a \in A : g[a] = SumFunctionOnSet(f, Groups(key, S, a))
    PROVE  SumFunctionOnSet(g, A) = SumFunctionOnSet(f, S)
<1>. DEFINE By(s) == [a \in A |-> SumFunctionOnSet(f, Groups(key, s, a))]
            F == {s \in SUBSET S : SumFunctionOnSet(By(s), A) = SumFunctionOnSet(f, s)}
<1>0. \A s \in SUBSET S : \A a \in A : By(s)[a] \in Int
  BY SumInt DEF Groups
<1>1. {} \in F
  <2>1. \A a \in A : By({})[a] = 0
    BY SumEmpty DEF Groups
  <2>. HIDE DEF By
  <2>. QED  BY <2>1, SumZero, SumEmpty
<1>2. ASSUME NEW s \in SUBSET S, NEW x \in s, s \ {x} \in F PROVE s \in F
  <2>1. SumFunctionOnSet(f, s) = f[x] + SumFunctionOnSet(f, s \ {x})
    BY SumRemove
  <2>2. By(s)[key[x]] = By(s \ {x})[key[x]] + f[x]
    <3>1. x \in Groups(key, s, key[x]) /\ Groups(key, s, key[x]) \in SUBSET S
      BY DEF Groups
    <3>2. Groups(key, s, key[x]) \ {x} = Groups(key, s \ {x}, key[x])
      BY DEF Groups
    <3>3. SumFunctionOnSet(f, Groups(key, s, key[x]))
            = f[x] + SumFunctionOnSet(f, Groups(key, s, key[x]) \ {x})
      BY <3>1, SumRemove
    <3>4. SumFunctionOnSet(f, Groups(key, s \ {x}, key[x])) \in Int
      BY SumInt DEF Groups
    <3>5. SumFunctionOnSet(f, Groups(key, s, key[x]))
            = SumFunctionOnSet(f, Groups(key, s \ {x}, key[x])) + f[x]
      <4>1. f[x] \in Int
        OBVIOUS
      <4>2. SumFunctionOnSet(f, Groups(key, s, key[x]))
              = f[x] + SumFunctionOnSet(f, Groups(key, s \ {x}, key[x]))
        BY <3>2, <3>3
      <4>. QED  BY <3>4, <4>1, <4>2
    <3>. QED  BY <3>5
  <2>3. ASSUME NEW a \in A \ {key[x]} PROVE By(s)[a] = By(s \ {x})[a]
    <3>1. Groups(key, s, a) = Groups(key, s \ {x}, a)
      BY DEF Groups
    <3>. QED  BY <3>1
  <2>4. s \ {x} \in SUBSET S /\ key[x] \in A /\ f[x] \in Int
    OBVIOUS
  <2>5. SumFunctionOnSet(By(s), A) = SumFunctionOnSet(By(s \ {x}), A) + f[x]
    <3>1. \A a \in A : By(s \ {x})[a] \in Int
      BY <1>0, <2>4
    <3>. DEFINE p == By(s \ {x})
                q == By(s)
                k == key[x]
                d == f[x]
    <3>2. /\ k \in A /\ d \in Int /\ \A a \in A : p[a] \in Int
          /\ q[k] = p[k] + d /\ \A a \in A \ {k} : q[a] = p[a]
      BY <2>2, <2>3, <2>4, <3>1
    <3>. HIDE DEF p, q, k, d
    <3>3. SumFunctionOnSet(q, A) = SumFunctionOnSet(p, A) + d
      BY <3>2, SumChanges
    <3>. QED  BY <3>3 DEF p, q, k, d
  <2>6. SumFunctionOnSet(f, s \ {x}) \in Int
    BY SumInt
  <2>. HIDE DEF By
  <2>. QED  BY <1>2, <2>1, <2>5, <2>6
<1>3. S \in F
  <2>. HIDE DEF F
  <2>. QED  BY <1>1, <1>2, SubsetInduction
<1>4. \A a \in A : g[a] = By(S)[a]
  OBVIOUS
<1>5. SumFunctionOnSet(g, A) = SumFunctionOnSet(By(S), A)
  <2>. HIDE DEF By
  <2>. QED  BY <1>4, SumSame
<1>. QED  BY <1>3, <1>5
=============================================================================
