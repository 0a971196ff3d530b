------------------------------ MODULE SumsProofs ------------------------------
(***************************************************************************)
(* Lemmas about sums over finite sets, as the folds of the community       *)
(* modules define them: element by element, in the order of a CHOOSE.      *)
(* Induction is over a set of subsets, so that it needs no operator.       *)
(***************************************************************************)
EXTENDS Integers, FiniteSets, Functions, FiniteSetTheorems, WellFoundedInduction, TLAPS

Some(s) == CHOOSE x \in s : TRUE
IsSumMap(g, f, S) ==
  g = [s \in SUBSET S |-> IF s = {} THEN 0 ELSE f[Some(s)] + g[s \ {Some(s)}]]
SumMap(f, S) == CHOOSE g : IsSumMap(g, f, S)
Total(f, S) == SumMap(f, S)[S]

(* A set of numbers has a least one.                                       *)
LEMMA Least ==
  ASSUME NEW T, T \subseteq Nat, T # {}
  PROVE  \E i \in T : \A j \in T : ~(j < i)
<1> DEFINE R == OpToRel(<, Nat)
<1>1. PICK i \in T : \A j \in T : ~(<<j, i>> \in R)
  BY NatLessThanWellFounded, WFMin, Zenon
<1>2. ASSUME NEW j \in T, j < i PROVE <<j, i>> \in R
  <2>1. i \in Nat /\ j \in Nat
    BY Zenon
  <2>2. <<j, i>> \in Nat \X Nat /\ <<j, i>>[1] = j /\ <<j, i>>[2] = i
    BY <2>1
  <2> QED BY <1>2, <2>2, Zenon DEF OpToRel
<1> QED BY <1>1, <1>2, Zenon

(* Step by step every number up to n is in a set.                          *)
LEMMA StepByStep ==
  ASSUME NEW n \in Nat, NEW P, 0 \in P, \A k \in 0 .. n - 1 : k \in P => k + 1 \in P
  PROVE  \A k \in 0 .. n : k \in P
<1> DEFINE T == {k \in 0 .. n : k \notin P}
<1> SUFFICES ASSUME T # {} PROVE FALSE
  OBVIOUS
<1>1. PICK i \in T : \A j \in T : ~(j < i)
  <2>1. T \subseteq Nat
    OBVIOUS
  <2> HIDE DEF T
  <2> QED BY <2>1, Least
<1>2. i # 0 /\ i - 1 \in 0 .. n - 1 /\ i - 1 \notin T
  BY <1>1
<1> QED BY <1>1, <1>2

(* All subsets of a finite set are in P if each is that is in P without    *)
(* any one of its elements.                                                *)
LEMMA SubsetInduction ==
  ASSUME NEW S, IsFiniteSet(S), NEW P,
         \A s \in SUBSET S : (s # {} => \A x \in s : s \ {x} \in P) => s \in P
  PROVE  \A s \in SUBSET S : s \in P
<1> DEFINE T == {Cardinality(s) : s \in {t \in SUBSET S : t \notin P}}
<1> SUFFICES ASSUME NEW t \in SUBSET S, t \notin P PROVE FALSE
  OBVIOUS
<1>1. \A s \in SUBSET S : IsFiniteSet(s) /\ Cardinality(s) \in Nat
  BY FS_Subset, FS_CardinalityType
<1>2. T \subseteq Nat /\ T # {}
  BY <1>1
<1>3. PICK i \in T : \A j \in T : ~(j < i)
  <2> HIDE DEF T
  <2> QED BY <1>2, Least
<1>4. PICK s \in SUBSET S : s \notin P /\ i = Cardinality(s)
  BY Zenon
<1>5. PICK x \in s : s \ {x} \notin P
  BY <1>4
<1>6. Cardinality(s \ {x}) = Cardinality(s) - 1
  BY <1>1, FS_RemoveElement
<1>7. s \ {x} \in SUBSET S /\ Cardinality(s \ {x}) \in T
  BY <1>5
<1> HIDE DEF T
<1> QED BY <1>1, <1>3, <1>4, <1>6, <1>7

(* There is such a map.                                                    *)
LEMMA SumMapExists ==
  ASSUME NEW S, IsFiniteSet(S), NEW f \in [S -> Int]
  PROVE  \E g \in [SUBSET S -> Int] : IsSumMap(g, f, S)
<1> DEFINE Right(g, s) == g[s] = IF s = {} THEN 0 ELSE f[Some(s)] + g[s \ {Some(s)}]
           UpTo(n) == \E g \in [SUBSET S -> Int] :
                        \A s \in SUBSET S : Cardinality(s) <= n => Right(g, s)
           T == {n \in Nat : ~UpTo(n)}
<1>1. \A s \in SUBSET S : IsFiniteSet(s) /\ Cardinality(s) \in Nat
  BY FS_Subset, FS_CardinalityType
<1>2. ASSUME NEW s \in SUBSET S, s # {}
      PROVE  /\ Some(s) \in s /\ f[Some(s)] \in Int /\ s \ {Some(s)} \in SUBSET S
             /\ Cardinality(s \ {Some(s)}) = Cardinality(s) - 1
  <2>1. Some(s) \in s
    BY <1>2 DEF Some
  <2>2. Cardinality(s \ {Some(s)}) = Cardinality(s) - 1
    BY <1>1, <2>1, FS_RemoveElement
  <2> QED BY <2>1, <2>2
<1>3. UpTo(0)
  <2> DEFINE g == [s \in SUBSET S |-> 0]
  <2>1. g \in [SUBSET S -> Int]
    OBVIOUS
  <2>2. \A s \in SUBSET S : Cardinality(s) <= 0 => s = {}
    BY <1>1, FS_EmptySet
  <2>3. \A s \in SUBSET S : Cardinality(s) <= 0 => Right(g, s)
    BY <2>2
  <2> QED BY <2>1, <2>3
<1>4. ASSUME NEW n \in Nat, UpTo(n) PROVE UpTo(n + 1)
  <2>1. PICK g \in [SUBSET S -> Int] : \A s \in SUBSET S : Cardinality(s) <= n => Right(g, s)
    BY <1>4
  <2> DEFINE h == [s \in SUBSET S |-> IF Cardinality(s) <= n THEN g[s]
                                      ELSE f[Some(s)] + g[s \ {Some(s)}]]
  <2>2. \A s \in SUBSET S : ~(Cardinality(s) <= n) => s # {}
    <3> SUFFICES ASSUME NEW s \in SUBSET S, s = {} PROVE Cardinality(s) <= n
      BY Zenon
    <3>1. Cardinality(s) = 0
      BY FS_EmptySet
    <3> QED BY <3>1
  <2>3. h \in [SUBSET S -> Int]
    <3>1. ASSUME NEW s \in SUBSET S, s # {} PROVE f[Some(s)] + g[s \ {Some(s)}] \in Int
      <4>1. g[s \ {Some(s)}] \in Int
        BY <1>2, <3>1
      <4> QED BY <1>2, <3>1, <4>1
    <3> QED BY <2>2, <3>1
  <2>4. ASSUME NEW s \in SUBSET S, Cardinality(s) <= n + 1 PROVE Right(h, s)
    <3>1. CASE s = {}
      <4>1. Cardinality(s) <= n
        BY <3>1, FS_EmptySet
      <4> QED BY <2>1, <3>1, <4>1
    <3>2. CASE s # {}
      <4>1. Cardinality(s \ {Some(s)}) <= n /\ s \ {Some(s)} \in SUBSET S
        BY <1>1, <1>2, <2>4, <3>2
      <4>2. h[s \ {Some(s)}] = g[s \ {Some(s)}]
        BY <4>1
      <4>3. h[s] = f[Some(s)] + g[s \ {Some(s)}]
        BY <2>1, <3>2
      <4> QED BY <3>2, <4>2, <4>3
    <3> QED BY <3>1, <3>2
  <2> HIDE DEF h
  <2> QED BY <2>3, <2>4
<1> HIDE DEF UpTo
<1>5. \A n \in Nat : UpTo(n)
  <2> SUFFICES ASSUME T # {} PROVE FALSE
    OBVIOUS
  <2>1. T \subseteq Nat
    OBVIOUS
  <2>2. PICK i \in T : \A j \in T : ~(j < i)
    <3> HIDE DEF T
    <3> QED BY <2>1, Least
  <2>3. i # 0 /\ i \in Nat
    BY <1>3
  <2>4. i - 1 \in Nat /\ i - 1 < i /\ (i - 1) + 1 = i
    BY <2>3
  <2>5. UpTo(i - 1)
    BY <2>2, <2>4
  <2>6. UpTo(i)
    BY <1>4, <2>4, <2>5
  <2> QED BY <2>6
<1>6. PICK g \in [SUBSET S -> Int] :
        \A s \in SUBSET S : Cardinality(s) <= Cardinality(S) => Right(g, s)
  <2>1. Cardinality(S) \in Nat
    BY FS_CardinalityType
  <2> QED BY <1>5, <2>1 DEF UpTo
<1>7. \A s \in SUBSET S : Cardinality(s) <= Cardinality(S)
  BY FS_Subset
<1>8. \A s \in SUBSET S : Right(g, s)
  BY <1>6, <1>7
<1>9. IsSumMap(g, f, S)
  BY <1>8 DEF IsSumMap
<1> QED BY <1>9

LEMMA SumMapType ==
  ASSUME NEW S, IsFiniteSet(S), NEW f \in [S -> Int]
  PROVE  /\ IsSumMap(SumMap(f, S), f, S)
         /\ \A s \in SUBSET S : SumMap(f, S)[s] \in Int
<1> DEFINE g == SumMap(f, S)
           P == {s \in SUBSET S : g[s] \in Int}
<1>1. IsSumMap(g, f, S)
  BY SumMapExists DEF SumMap
<1>2. ASSUME NEW s \in SUBSET S, s # {} => \A x \in s : s \ {x} \in P
      PROVE  s \in P
  <2>1. g[s] = IF s = {} THEN 0 ELSE f[Some(s)] + g[s \ {Some(s)}]
    BY <1>1 DEF IsSumMap
  <2>2. CASE s = {}
    BY <2>1, <2>2
  <2>3. CASE s # {}
    <3>1. Some(s) \in s
      BY <2>3 DEF Some
    <3>2. g[s \ {Some(s)}] \in Int /\ f[Some(s)] \in Int
      BY <1>2, <2>3, <3>1
    <3> QED BY <2>1, <2>3, <3>2
  <2> QED BY <2>2, <2>3
<1> HIDE DEF g, P
<1>3. \A s \in SUBSET S : s \in P
  BY <1>2, SubsetInduction
<1> QED BY <1>1, <1>3 DEF g, P

LEMMA SumOfNone ==
  ASSUME NEW S, IsFiniteSet(S), NEW f \in [S -> Int]
  PROVE  SumMap(f, S)[{}] = 0
BY SumMapType DEF IsSumMap

(* The order of the elements makes no difference.                          *)
LEMMA SumRemoves ==
  ASSUME NEW S, IsFiniteSet(S), NEW f \in [S -> Int], NEW s \in SUBSET S, NEW x \in s
  PROVE  SumMap(f, S)[s] = f[x] + SumMap(f, S)[s \ {x}]
<1> DEFINE g == SumMap(f, S)
           P == {t \in SUBSET S : \A u \in t : g[t] = f[u] + g[t \ {u}]}
<1>1. /\ \A t \in SUBSET S : g[t] = IF t = {} THEN 0 ELSE f[Some(t)] + g[t \ {Some(t)}]
      /\ \A t \in SUBSET S : g[t] \in Int
  <2>1. IsSumMap(g, f, S) /\ \A t \in SUBSET S : g[t] \in Int
    BY SumMapType
  <2> HIDE DEF g
  <2> QED BY <2>1 DEF IsSumMap
<1> HIDE DEF g
<1>2. ASSUME NEW t \in SUBSET S, t # {} => \A u \in t : t \ {u} \in P
      PROVE  t \in P
  <2> SUFFICES ASSUME NEW u \in t PROVE g[t] = f[u] + g[t \ {u}]
    OBVIOUS
  <2> DEFINE v == Some(t)
  <2>1. v \in t /\ g[t] = f[v] + g[t \ {v}]
    BY <1>1 DEF Some
  <2> HIDE DEF v
  <2>2. CASE u = v
    BY <2>1, <2>2
  <2>3. CASE u # v
    <3>1. g[t \ {v}] = f[u] + g[(t \ {v}) \ {u}]
      BY <1>2, <2>1, <2>3
    <3>2. g[t \ {u}] = f[v] + g[(t \ {u}) \ {v}]
      BY <1>2, <2>1, <2>3
    <3>3. (t \ {v}) \ {u} = (t \ {u}) \ {v} /\ (t \ {u}) \ {v} \in SUBSET S
      OBVIOUS
    <3>4. PICK a \in Int : a = g[(t \ {u}) \ {v}]
      BY <1>1, <3>3
    <3>5. g[t \ {v}] = f[u] + a /\ g[t \ {u}] = f[v] + a /\ g[t] = f[v] + g[t \ {v}]
      BY <2>1, <3>1, <3>2, <3>3, <3>4, Zenon
    <3>6. f[u] \in Int /\ f[v] \in Int
      BY <2>1
    <3> QED BY <3>5, <3>6
  <2> QED BY <2>2, <2>3
<1> HIDE DEF P
<1>3. s \in P
  BY <1>2, SubsetInduction
<1> QED BY <1>3 DEF P, g

(* A sum of sums.                                                          *)
LEMMA SumAdds ==
  ASSUME NEW S, IsFiniteSet(S), NEW f \in [S -> Int], NEW g \in [S -> Int],
         NEW h \in [S -> Int], \A x \in S : h[x] = f[x] + g[x]
  PROVE  \A s \in SUBSET S : SumMap(h, S)[s] = SumMap(f, S)[s] + SumMap(g, S)[s]
<1> DEFINE F == SumMap(f, S)
           G == SumMap(g, S)
           H == SumMap(h, S)
           P == {s \in SUBSET S : H[s] = F[s] + G[s]}
<1>1. \A s \in SUBSET S : F[s] \in Int /\ G[s] \in Int /\ H[s] \in Int
  BY SumMapType
<1>2. F[{}] = 0 /\ G[{}] = 0 /\ H[{}] = 0
  BY SumOfNone
<1>3. ASSUME NEW s \in SUBSET S, NEW x \in s
      PROVE  /\ F[s] = f[x] + F[s \ {x}]
             /\ G[s] = g[x] + G[s \ {x}]
             /\ H[s] = h[x] + H[s \ {x}]
  <2>1. F[s] = f[x] + F[s \ {x}]
    BY SumRemoves
  <2>2. G[s] = g[x] + G[s \ {x}]
    BY SumRemoves
  <2>3. H[s] = h[x] + H[s \ {x}]
    BY SumRemoves
  <2> QED BY <2>1, <2>2, <2>3
<1> HIDE DEF F, G, H
<1>4. ASSUME NEW s \in SUBSET S, s # {} => \A x \in s : s \ {x} \in P
      PROVE  s \in P
  <2>1. CASE s = {}
    BY <1>2, <2>1
  <2>2. CASE s # {}
    <3>1. PICK x \in s : TRUE
      BY <2>2
    <3>2. H[s \ {x}] = F[s \ {x}] + G[s \ {x}] /\ s \ {x} \in SUBSET S
      BY <1>4, <2>2, <3>1
    <3>3. f[x] \in Int /\ g[x] \in Int /\ h[x] = f[x] + g[x]
      BY <3>1
    <3>4. PICK a \in Int, c \in Int : a = F[s \ {x}] /\ c = G[s \ {x}]
      BY <1>1, <3>2
    <3>5. F[s] = f[x] + a /\ G[s] = g[x] + c /\ H[s] = (f[x] + g[x]) + (a + c)
      BY <1>3, <3>1, <3>2, <3>3, <3>4, Zenon
    <3>6. H[s] = F[s] + G[s]
      BY <3>3, <3>5
    <3> QED BY <3>6
  <2> QED BY <2>1, <2>2
<1> HIDE DEF P
<1>5. \A s \in SUBSET S : s \in P
  BY <1>4, SubsetInduction
<1> QED BY <1>5 DEF P, F, G, H

(* What is nowhere but at k.                                               *)
LEMMA SumAtPoint ==
  ASSUME NEW S, IsFiniteSet(S), NEW k \in S, NEW d \in Int, NEW f \in [S -> Int],
         \A x \in S : f[x] = IF x = k THEN d ELSE 0
  PROVE  \A s \in SUBSET S : SumMap(f, S)[s] = IF k \in s THEN d ELSE 0
<1> DEFINE F == SumMap(f, S)
           P == {s \in SUBSET S : F[s] = IF k \in s THEN d ELSE 0}
<1>1. \A s \in SUBSET S : F[s] \in Int
  BY SumMapType
<1>2. F[{}] = 0
  BY SumOfNone
<1>3. \A s \in SUBSET S : \A x \in s : F[s] = f[x] + F[s \ {x}]
  BY SumRemoves
<1> HIDE DEF F
<1>4. ASSUME NEW s \in SUBSET S, s # {} => \A x \in s : s \ {x} \in P
      PROVE  s \in P
  <2>1. CASE s = {}
    BY <1>2, <2>1
  <2>2. CASE s # {}
    <3>1. PICK x \in s : TRUE
      BY <2>2
    <3>2. F[s \ {x}] = IF k \in s \ {x} THEN d ELSE 0
      BY <1>4, <2>2, <3>1
    <3>3. F[s] = f[x] + F[s \ {x}]
      BY <1>3, <3>1
    <3> QED BY <3>1, <3>2, <3>3
  <2> QED BY <2>1, <2>2
<1> HIDE DEF P
<1>5. \A s \in SUBSET S : s \in P
  BY <1>4, SubsetInduction
<1> QED BY <1>5 DEF P, F

(* Only the elements summed count.                                         *)
LEMMA SumRestricts ==
  ASSUME NEW S, IsFiniteSet(S), NEW T \in SUBSET S, NEW f \in [S -> Int], NEW g \in [T -> Int],
         \A x \in T : g[x] = f[x]
  PROVE  \A s \in SUBSET T : SumMap(g, T)[s] = SumMap(f, S)[s]
<1> DEFINE F == SumMap(f, S)
           G == SumMap(g, T)
           P == {s \in SUBSET T : G[s] = F[s]}
<1>1. IsFiniteSet(T)
  BY FS_Subset
<1>2. F[{}] = 0 /\ G[{}] = 0
  BY <1>1, SumOfNone
<1>3. \A s \in SUBSET S : \A x \in s : F[s] = f[x] + F[s \ {x}]
  BY SumRemoves, ZenonT(60)
<1>4. \A s \in SUBSET T : \A x \in s : G[s] = g[x] + G[s \ {x}]
  BY <1>1, SumRemoves, ZenonT(60)
<1> HIDE DEF F, G
<1>5. ASSUME NEW s \in SUBSET T, s # {} => \A x \in s : s \ {x} \in P
      PROVE  s \in P
  <2>1. CASE s = {}
    BY <1>2, <2>1
  <2>2. CASE s # {}
    <3>1. PICK x \in s : TRUE
      BY <2>2
    <3>2. G[s \ {x}] = F[s \ {x}] /\ g[x] = f[x] /\ s \in SUBSET S
      BY <1>5, <2>2, <3>1
    <3>3. G[s] = F[s]
      BY <1>3, <1>4, <3>1, <3>2
    <3> QED BY <3>3
  <2> QED BY <2>1, <2>2
<1> HIDE DEF P
<1>6. \A s \in SUBSET T : s \in P
  BY <1>1, <1>5, SubsetInduction
<1> QED BY <1>6 DEF P, F, G

(***************************************************************************)
(* The sum over the whole set.                                             *)
(***************************************************************************)
LEMMA TotalIsInt ==
  ASSUME NEW S, IsFiniteSet(S), NEW f \in [S -> Int]
  PROVE  Total(f, S) \in Int
BY SumMapType DEF Total

LEMMA TotalAdds ==
  ASSUME NEW S, IsFiniteSet(S), NEW f \in [S -> Int], NEW g \in [S -> Int],
         NEW h \in [S -> Int], \A x \in S : h[x] = f[x] + g[x]
  PROVE  Total(h, S) = Total(f, S) + Total(g, S)
BY SumAdds DEF Total

LEMMA TotalOfZeros ==
  ASSUME NEW S, IsFiniteSet(S), NEW f \in [S -> Int], \A x \in S : f[x] = 0
  PROVE  Total(f, S) = 0
<1>1. CASE S = {}
  <2>1. SumMap(f, S)[{}] = 0
    BY SumOfNone
  <2> QED BY <1>1, <2>1 DEF Total
<1>2. CASE S # {}
  <2>1. PICK k \in S : TRUE
    BY <1>2
  <2>2. \A x \in S : f[x] = IF x = k THEN 0 ELSE 0
    OBVIOUS
  <2>3. SumMap(f, S)[S] = IF k \in S THEN 0 ELSE 0
    BY <2>1, <2>2, SumAtPoint
  <2> QED BY <2>3 DEF Total
<1> QED BY <1>1, <1>2

(* One summand is changed by d.                                            *)
LEMMA TotalChanges ==
  ASSUME NEW S, IsFiniteSet(S), NEW f \in [S -> Int], NEW h \in [S -> Int],
         NEW k \in S, NEW d \in Int,
         \A x \in S : h[x] = IF x = k THEN f[x] + d ELSE f[x]
  PROVE  Total(h, S) = Total(f, S) + d
<1> DEFINE p == [x \in S |-> IF x = k THEN d ELSE 0]
<1>1. p \in [S -> Int] /\ \A x \in S : p[x] = IF x = k THEN d ELSE 0
  OBVIOUS
<1> HIDE DEF p
<1>2. Total(p, S) = d
  <2>1. SumMap(p, S)[S] = IF k \in S THEN d ELSE 0
    BY <1>1, SumAtPoint
  <2> QED BY <2>1 DEF Total
<1>3. \A x \in S : h[x] = f[x] + p[x]
  BY <1>1
<1> QED BY <1>1, <1>2, <1>3, TotalAdds

LEMMA TotalExcept ==
  ASSUME NEW S, IsFiniteSet(S), NEW f \in [S -> Int], NEW k \in S, NEW d \in Int
  PROVE  Total([f EXCEPT ![k] = f[k] + d], S) = Total(f, S) + d
<1> DEFINE h == [f EXCEPT ![k] = f[k] + d]
<1>1. h \in [S -> Int] /\ \A x \in S : h[x] = IF x = k THEN f[x] + d ELSE f[x]
  OBVIOUS
<1> HIDE DEF h
<1>2. Total(h, S) = Total(f, S) + d
  BY <1>1, TotalChanges
<1> QED BY <1>2 DEF h

(* One more element.                                                       *)
LEMMA TotalGrows ==
  ASSUME NEW S, IsFiniteSet(S), NEW k \in S, NEW f \in [S -> Int],
         NEW g \in [S \ {k} -> Int], \A x \in S \ {k} : g[x] = f[x]
  PROVE  Total(f, S) = f[k] + Total(g, S \ {k})
<1>1. SumMap(f, S)[S] = f[k] + SumMap(f, S)[S \ {k}]
  BY SumRemoves
<1>2. SumMap(g, S \ {k})[S \ {k}] = SumMap(f, S)[S \ {k}]
  BY SumRestricts
<1> QED BY <1>1, <1>2 DEF Total

(***************************************************************************)
(* The sum over pairs is the sum of the rows' sums.                        *)
(***************************************************************************)
LEMMA SumOfUnion ==
  ASSUME NEW S, IsFiniteSet(S), NEW f \in [S -> Int], NEW r \in SUBSET S
  PROVE  \A s \in SUBSET S : r \cap s = {} =>
           SumMap(f, S)[r \cup s] = SumMap(f, S)[r] + SumMap(f, S)[s]
<1> DEFINE F == SumMap(f, S)
           P == {s \in SUBSET S : r \cap s = {} => F[r \cup s] = F[r] + F[s]}
<1>1. \A s \in SUBSET S : F[s] \in Int
  BY SumMapType
<1>2. F[{}] = 0
  BY SumOfNone
<1>3. \A s \in SUBSET S : \A x \in s : F[s] = f[x] + F[s \ {x}]
  BY SumRemoves, ZenonT(60)
<1> HIDE DEF F
<1>4. ASSUME NEW s \in SUBSET S, s # {} => \A x \in s : s \ {x} \in P
      PROVE  s \in P
  <2> SUFFICES ASSUME r \cap s = {} PROVE F[r \cup s] = F[r] + F[s]
    OBVIOUS
  <2>1. CASE s = {}
    BY <1>1, <1>2, <2>1
  <2>2. CASE s # {}
    <3>1. PICK x \in s : TRUE
      BY <2>2
    <3>2. r \cup s \in SUBSET S /\ x \in r \cup s /\ (r \cup s) \ {x} = r \cup (s \ {x})
      BY <3>1
    <3>3. F[r \cup (s \ {x})] = F[r] + F[s \ {x}] /\ s \ {x} \in SUBSET S
      BY <1>4, <2>2, <3>1
    <3>4. F[r \cup s] = f[x] + F[r \cup (s \ {x})]
      BY <1>3, <3>2
    <3>5. F[s] = f[x] + F[s \ {x}]
      BY <1>3, <3>1
    <3>6. f[x] \in Int /\ F[r] \in Int /\ F[s \ {x}] \in Int
      BY <1>1, <3>1, <3>3
    <3> QED BY <3>3, <3>4, <3>5, <3>6
  <2> QED BY <2>1, <2>2
<1> HIDE DEF P
<1>5. \A s \in SUBSET S : s \in P
  BY <1>4, SubsetInduction
<1> QED BY <1>5 DEF P, F

LEMMA SumSplits ==
  ASSUME NEW S, IsFiniteSet(S), NEW f \in [S -> Int], NEW r \in SUBSET S, NEW s \in SUBSET r
  PROVE  SumMap(f, S)[r] = SumMap(f, S)[s] + SumMap(f, S)[r \ s]
<1> DEFINE t == r \ s
<1>1. \A u \in SUBSET S : s \cap u = {} =>
        SumMap(f, S)[s \cup u] = SumMap(f, S)[s] + SumMap(f, S)[u]
  BY SumOfUnion
<1>2. t \in SUBSET S /\ s \cap t = {} /\ s \cup t = r
  OBVIOUS
<1> HIDE DEF t
<1>3. SumMap(f, S)[s \cup t] = SumMap(f, S)[s] + SumMap(f, S)[t]
  BY <1>1, <1>2
<1> QED BY <1>2, <1>3 DEF t

LEMMA SumOfRow ==
  ASSUME NEW D, IsFiniteSet(D), NEW f \in [D -> Int], NEW R, IsFiniteSet(R), NEW p \in [R -> D],
         \A b \in R : \A c \in R : p[b] = p[c] => b = c,
         NEW g \in [R -> Int], \A b \in R : g[b] = f[p[b]],
         NEW E \in SUBSET D, \A x \in D : x \in E <=> \E b \in R : x = p[b]
  PROVE  SumMap(f, D)[E] = Total(g, R)
<1> DEFINE F == SumMap(f, D)
           G == SumMap(g, R)
           Row(s) == {p[b] : b \in s}
           P == {s \in SUBSET R : F[Row(s)] = G[s]}
<1>1. F[{}] = 0 /\ G[{}] = 0
  BY SumOfNone
<1>2. ASSUME NEW s \in SUBSET D, NEW x \in s PROVE F[s] = f[x] + F[s \ {x}]
  BY SumRemoves
<1>3. ASSUME NEW s \in SUBSET R, NEW x \in s PROVE G[s] = g[x] + G[s \ {x}]
  BY SumRemoves
<1> HIDE DEF F, G
<1>4. ASSUME NEW s \in SUBSET R, s # {} => \A x \in s : s \ {x} \in P
      PROVE  s \in P
  <2>1. CASE s = {}
    <3>1. Row(s) = {}
      BY <2>1
    <3> QED BY <1>1, <2>1, <3>1
  <2>2. CASE s # {}
    <3>1. PICK x \in s : TRUE
      BY <2>2
    <3> DEFINE r == Row(s)
    <3>2. r \in SUBSET D /\ p[x] \in r /\ r \ {p[x]} = Row(s \ {x})
      BY <3>1
    <3>3. F[Row(s \ {x})] = G[s \ {x}]
      BY <1>4, <2>2, <3>1
    <3>4. G[s] = g[x] + G[s \ {x}] /\ g[x] = f[p[x]]
      BY <1>3, <3>1
    <3> HIDE DEF Row, r
    <3>5. F[r] = f[p[x]] + F[r \ {p[x]}]
      BY <1>2, <3>2
    <3> QED BY <3>2, <3>3, <3>4, <3>5 DEF r
  <2> QED BY <2>1, <2>2
<1> HIDE DEF P
<1>5. R \in P
  <2>1. \A s \in SUBSET R : s \in P
    BY <1>4, SubsetInduction
  <2> QED BY <2>1
<1>6. F[E] = G[R]
  <2>1. Row(R) = E
    OBVIOUS
  <2> QED BY <1>5, <2>1 DEF P
<1> QED BY <1>6 DEF F, G, Total

LEMMA TotalOfParts ==
  ASSUME NEW D, IsFiniteSet(D), NEW f \in [D -> Int], NEW S, IsFiniteSet(S),
         NEW part \in [S -> SUBSET D], \A x \in D : \E m \in S : x \in part[m],
         \A m \in S : \A n \in S : m # n => part[m] \cap part[n] = {},
         NEW h \in [S -> Int], \A m \in S : h[m] = SumMap(f, D)[part[m]]
  PROVE  Total(f, D) = Total(h, S)
<1> DEFINE F == SumMap(f, D)
           H == SumMap(h, S)
           Of(s) == UNION {part[m] : m \in s}
           P == {s \in SUBSET S : F[Of(s)] = H[s]}
<1>2. F[{}] = 0 /\ H[{}] = 0
  BY SumOfNone
<1>3. ASSUME NEW r \in SUBSET D, NEW s \in SUBSET r
      PROVE  F[r] = F[s] + F[r \ s]
  BY SumSplits, SMTT(30)
<1>4. \A m \in S : F[part[m]] = h[m]
  OBVIOUS
<1>5. ASSUME NEW s \in SUBSET S, NEW x \in s PROVE H[s] = h[x] + H[s \ {x}]
  BY SumRemoves
<1> HIDE DEF F, H
<1>6. ASSUME NEW s \in SUBSET S, s # {} => \A x \in s : s \ {x} \in P
      PROVE  s \in P
  <2>1. CASE s = {}
    <3>1. Of(s) = {}
      BY <2>1
    <3> QED BY <1>2, <2>1, <3>1
  <2>2. CASE s # {}
    <3>1. PICK x \in s : TRUE
      BY <2>2
    <3> DEFINE p == part[x]
               r == Of(s)
    <3>2. r \in SUBSET D /\ p \in SUBSET r /\ r \ p = Of(s \ {x})
      BY <3>1
    <3> HIDE DEF Of, p, r
    <3>3. F[r] = F[p] + F[r \ p]
      BY <1>3, <3>2
    <3>4. F[Of(s \ {x})] = H[s \ {x}]
      BY <1>6, <2>2, <3>1
    <3>5. F[part[x]] = h[x] /\ H[s] = h[x] + H[s \ {x}]
      BY <1>4, <1>5, <3>1
    <3> QED BY <3>2, <3>3, <3>4, <3>5 DEF p, r
  <2> QED BY <2>1, <2>2
<1> HIDE DEF P
<1>7. S \in P
  <2>1. \A s \in SUBSET S : s \in P
    BY <1>6, SubsetInduction
  <2> QED BY <2>1
<1>8. F[D] = H[S]
  <2>1. Of(S) = D
    OBVIOUS
  <2> QED BY <1>7, <2>1 DEF P
<1> QED BY <1>8 DEF F, H, Total
===============================================================================
