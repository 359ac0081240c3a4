------------------------- MODULE StockPlanner_proofs -------------------------
(***************************************************************************)
(* What the planner computes, for any layers and any stock: a split gives  *)
(* out exactly what it is given, no run's share ever shrinks as more of a  *)
(* layer goes, a layer whose grams are what its solids say stays so        *)
(* whatever is taken from it, and a plan that passes its checks takes from *)
(* each layer what is there and in all what was measured.                  *)
(*                                                                         *)
(* The library's induction theorems are stated for operators.  Induction   *)
(* is used here through its set form: a set of counterexamples that is not *)
(* empty has a least one.                                                  *)
(***************************************************************************)
EXTENDS StockPlanner, FiniteSetTheorems, SequenceTheorems, WellFoundedInduction, TLAPS

-----------------------------------------------------------------------------
(* Least counterexamples.                                                   *)

LEMMA LeastNumber ==
    ASSUME NEW T \in SUBSET Nat, T # {}
    PROVE  \E n \in T : \A m \in T : n <= m
<1>1. IsWellFoundedOn({ss \in Nat \X Nat : ss[1] < ss[2]}, Nat)
  BY NatLessThanWellFounded, Zenon DEF OpToRel
<1>2. PICK R : R = {ss \in Nat \X Nat : ss[1] < ss[2]}
  OBVIOUS
<1>3. PICK n \in T : \A m \in T : ~(<<m, n>> \in R)
  BY <1>1, <1>2, WFMin
<1>4. ASSUME NEW m \in T PROVE n <= m
  <2>1. <<m, n>> \notin R
    BY <1>3
  <2>2. m \in Nat /\ n \in Nat
    OBVIOUS
  <2>3. ~(m < n)
    BY <1>2, <2>1, <2>2
  <2> QED
    BY <2>2, <2>3
<1> QED
  BY <1>4

\* The form in which it is used: the numbers before the least counterexample
\* are none.
LEMMA LeastCounterexample ==
    ASSUME NEW T \in SUBSET Nat, T # {}
    PROVE  \E n \in T : n = 0 \/ (n - 1 \in Nat /\ n - 1 \notin T)
<1>1. PICK n \in T : \A m \in T : n <= m
  BY LeastNumber
<1>2. n \in Nat /\ ~(n <= n - 1)
  OBVIOUS
<1>3. n - 1 \notin T
  BY <1>1, <1>2
<1> QED
  BY <1>2, <1>3

LEMMA SmallestSet ==
    ASSUME NEW D, IsFiniteSet(D), NEW B \in SUBSET SUBSET D, B # {}
    PROVE  \E s \in B : \A x \in s : s \ {x} \notin B
<1> DEFINE sizes == {Cardinality(s) : s \in B}
<1>1. \A s \in SUBSET D : IsFiniteSet(s) /\ Cardinality(s) \in Nat
  BY FS_Subset, FS_CardinalityType
<1>2. sizes \in SUBSET Nat /\ sizes # {}
  BY <1>1
<1>3. PICK n \in sizes : \A m \in sizes : n <= m
  BY <1>2, LeastNumber
<1>4. PICK s \in B : n = Cardinality(s)
  OBVIOUS
<1>5. ASSUME NEW x \in s, s \ {x} \in B PROVE FALSE
  <2>1. Cardinality(s \ {x}) = Cardinality(s) - 1
    BY <1>1, FS_RemoveElement
  <2>2. Cardinality(s) <= Cardinality(s \ {x})
    BY <1>3, <1>4, <1>5
  <2> QED
    BY <1>1, <2>1, <2>2
<1> QED
  BY <1>5

-----------------------------------------------------------------------------
(* Repeated steps.  A function defined step by step on the numbers, or      *)
(* element by element on the subsets of a finite set, exists.               *)

\* g repeats the step F, from b on.
StepsBy(g, b, F) == \A k \in Nat : g[k] = IF k = 0 THEN b ELSE F[g[k - 1]]

LEMMA StepsExist ==
    ASSUME NEW X, NEW b \in X, NEW F \in [X -> X]
    PROVE  \E g \in [Nat -> X] : StepsBy(g, b, F)
<1> DEFINE Upto(n, g) == \A k \in 0 .. n : g[k] = IF k = 0 THEN b ELSE F[g[k - 1]]
           bad == {n \in Nat : ~\E g \in [Nat -> X] : Upto(n, g)}
<1>1. bad = {}
  <2> SUFFICES ASSUME bad # {} PROVE FALSE
    OBVIOUS
  <2>1. PICK n \in bad : n = 0 \/ (n - 1 \in Nat /\ n - 1 \notin bad)
    <3>1. bad \in SUBSET Nat
      OBVIOUS
    <3> HIDE DEF bad
    <3> QED
      BY <3>1, LeastCounterexample
  <2>2. n # 0
    <3>1. Upto(0, [k \in Nat |-> b])
      OBVIOUS
    <3> QED
      BY <3>1
  <2>3. n - 1 \in Nat /\ n - 1 \notin bad
    BY <2>1, <2>2
  <2>4. PICK h \in [Nat -> X] : Upto(n - 1, h)
    BY <2>3
  <2>5. PICK g : g = [k \in Nat |-> IF k = 0 THEN b ELSE F[h[k - 1]]]
    OBVIOUS
  <2>6. g \in [Nat -> X]
    BY <2>5
  <2>7. ASSUME NEW k \in 0 .. n PROVE g[k] = IF k = 0 THEN b ELSE F[g[k - 1]]
    <3>1. CASE k = 0
      BY <2>5, <3>1
    <3>2. CASE k # 0
      <4>1. k - 1 \in 0 .. n - 1 /\ k \in Nat /\ k - 1 \in Nat
        BY <3>2
      <4>2. h[k - 1] = IF k - 1 = 0 THEN b ELSE F[h[(k - 1) - 1]]
        BY <2>4, <4>1
      <4>3. g[k - 1] = h[k - 1]
        BY <2>5, <4>1, <4>2
      <4>4. g[k] = F[h[k - 1]]
        BY <2>5, <3>2, <4>1
      <4> QED
        BY <3>2, <4>3, <4>4
    <3> QED
      BY <3>1, <3>2
  <2>8. Upto(n, g)
    BY <2>7
  <2> QED
    BY <2>6, <2>8
<1>2. \A n \in Nat : \E g \in [Nat -> X] : Upto(n, g)
  BY <1>1
<1>3. ASSUME NEW n \in Nat, NEW g \in [Nat -> X], NEW h \in [Nat -> X],
             Upto(n, g), NEW m \in Nat, Upto(m, h), n <= m
      PROVE  g[n] = h[n]
  <2> DEFINE differ == {k \in 0 .. n : g[k] # h[k]}
  <2> SUFFICES ASSUME differ # {} PROVE FALSE
    OBVIOUS
  <2>1. PICK k \in differ : k = 0 \/ (k - 1 \in Nat /\ k - 1 \notin differ)
    <3>1. differ \in SUBSET Nat
      OBVIOUS
    <3> HIDE DEF differ
    <3> QED
      BY <3>1, LeastCounterexample
  <2>2. k # 0
    BY <1>3
  <2>3. k - 1 \in 0 .. n /\ k \in 0 .. m /\ k \in 0 .. n /\ g[k] # h[k]
    BY <1>3, <2>2
  <2>4. g[k - 1] = h[k - 1]
    <3>1. k - 1 \notin differ
      BY <2>1, <2>3
    <3> QED
      BY <2>3, <3>1
  <2>5. g[k] = F[g[k - 1]] /\ h[k] = F[h[k - 1]]
    BY <1>3, <2>2, <2>3
  <2> QED
    BY <2>3, <2>4, <2>5
<1> DEFINE upto(n) == CHOOSE g \in [Nat -> X] : Upto(n, g)
<1>4. \A n \in Nat : upto(n) \in [Nat -> X] /\ Upto(n, upto(n))
  BY <1>2
<1> DEFINE f == [n \in Nat |-> upto(n)[n]]
<1> HIDE DEF upto
<1>5. f \in [Nat -> X]
  BY <1>4
<1>6. ASSUME NEW k \in Nat PROVE f[k] = IF k = 0 THEN b ELSE F[f[k - 1]]
  <2>1. upto(k)[k] = IF k = 0 THEN b ELSE F[upto(k)[k - 1]]
    BY <1>4
  <2>2. ASSUME k # 0 PROVE upto(k - 1)[k - 1] = upto(k)[k - 1]
    <3>1. k - 1 \in Nat /\ k - 1 <= k
      BY <2>2
    <3>2. Upto(k - 1, upto(k - 1)) /\ Upto(k, upto(k))
          /\ upto(k - 1) \in [Nat -> X] /\ upto(k) \in [Nat -> X]
      BY <1>4, <3>1
    <3> HIDE DEF Upto
    <3> QED
      BY <1>3, <3>1, <3>2
  <2> QED
    BY <2>1, <2>2
<1> QED
  BY <1>5, <1>6 DEF StepsBy

\* What holds of the first and is kept by the steps holds of all.
LEMMA StepsKeep ==
    ASSUME NEW X, NEW g, g[0] \in X[0],
           \A k \in Nat : k # 0 /\ g[k - 1] \in X[k - 1] => g[k] \in X[k]
    PROVE  \A k \in Nat : g[k] \in X[k]
<1> DEFINE fails == {k \in Nat : g[k] \notin X[k]}
<1> SUFFICES ASSUME fails # {} PROVE FALSE
  OBVIOUS
<1>1. PICK k \in fails : k = 0 \/ (k - 1 \in Nat /\ k - 1 \notin fails)
  <2>1. fails \in SUBSET Nat
    OBVIOUS
  <2> HIDE DEF fails
  <2> QED
    BY <2>1, LeastCounterexample
<1>2. k \in Nat /\ g[k] \notin X[k] /\ k # 0
  OBVIOUS
<1>3. g[k - 1] \in X[k - 1]
  BY <1>1, <1>2
<1> QED
  BY <1>2, <1>3

AnyOf(s) == CHOOSE x \in s : TRUE

LEMMA AnyOfIsIn == ASSUME NEW s, s # {} PROVE AnyOf(s) \in s
BY DEF AnyOf

\* g folds the subsets of D, from b on, with the steps F.
FoldsBy(g, D, b, F) ==
    \A s \in SUBSET D :
        g[s] = IF s = {} THEN b ELSE F[AnyOf(s)][g[s \ {AnyOf(s)}]]

LEMMA FoldExists ==
    ASSUME NEW D, IsFiniteSet(D), NEW X, NEW b \in X, NEW F \in [D -> [X -> X]]
    PROVE  \E g \in [SUBSET D -> X] : FoldsBy(g, D, b, F)
<1> DEFINE Rhs(g, s) == IF s = {} THEN b ELSE F[AnyOf(s)][g[s \ {AnyOf(s)}]]
           Upto(n, g) == \A s \in SUBSET D : Cardinality(s) <= n => g[s] = Rhs(g, s)
           bad == {n \in Nat : ~\E g \in [SUBSET D -> X] : Upto(n, g)}
<1>1. \A s \in SUBSET D : IsFiniteSet(s) /\ Cardinality(s) \in Nat /\ Cardinality(s) <= Cardinality(D)
  BY FS_Subset, FS_CardinalityType
<1>2. \A s \in SUBSET D : s # {} => /\ AnyOf(s) \in s /\ s \ {AnyOf(s)} \in SUBSET D
                                    /\ Cardinality(s \ {AnyOf(s)}) = Cardinality(s) - 1
  BY <1>1, AnyOfIsIn, FS_RemoveElement
<1>3. bad = {}
  <2> SUFFICES ASSUME bad # {} PROVE FALSE
    OBVIOUS
  <2>1. PICK n \in bad : n = 0 \/ (n - 1 \in Nat /\ n - 1 \notin bad)
    <3>1. bad \in SUBSET Nat
      OBVIOUS
    <3> HIDE DEF bad
    <3> QED
      BY <3>1, LeastCounterexample
  <2>2. n # 0
    <3>1. PICK g : g = [s \in SUBSET D |-> b]
      OBVIOUS
    <3>2. g \in [SUBSET D -> X]
      BY <3>1
    <3>3. ASSUME NEW s \in SUBSET D, Cardinality(s) <= 0 PROVE g[s] = Rhs(g, s)
      <4>1. s = {}
        BY <1>1, <3>3, FS_EmptySet
      <4>2. Rhs(g, s) = b
        BY <4>1
      <4> HIDE DEF Rhs
      <4> QED
        BY <3>1, <4>2
    <3>4. \E h \in [SUBSET D -> X] : Upto(0, h)
      <4> HIDE DEF Rhs
      <4> QED
        BY <3>2, <3>3
    <3>5. 0 \notin bad
      <4> HIDE DEF Upto
      <4> QED
        BY <3>4
    <3> HIDE DEF bad
    <3> QED
      BY <2>1, <3>5
  <2>3. n - 1 \in Nat /\ n - 1 \notin bad
    BY <2>1, <2>2
  <2>4. PICK h \in [SUBSET D -> X] : Upto(n - 1, h)
    <3> HIDE DEF Rhs
    <3> QED
      BY <2>3
  <2>5. PICK g : g = [s \in SUBSET D |-> Rhs(h, s)]
    OBVIOUS
  <2>6. g \in [SUBSET D -> X]
    <3>1. ASSUME NEW s \in SUBSET D PROVE Rhs(h, s) \in X
      <4>1. CASE s = {}
        BY <4>1
      <4>2. CASE s # {}
        <5>1. PICK x \in D, t \in SUBSET D : x = AnyOf(s) /\ t = s \ {AnyOf(s)}
          BY <1>2, <4>2
        <5>2. F[x][h[t]] \in X
          OBVIOUS
        <5>3. Rhs(h, s) = F[x][h[t]]
          BY <4>2, <5>1
        <5> QED
          BY <5>2, <5>3
      <4> QED
        BY <4>1, <4>2
    <3> HIDE DEF Rhs
    <3> QED
      BY <2>5, <3>1
  <2>7. ASSUME NEW s \in SUBSET D, Cardinality(s) <= n PROVE g[s] = Rhs(g, s)
    <3>1. CASE s = {}
      BY <2>5, <3>1
    <3>2. CASE s # {}
      <4>1. PICK t \in SUBSET D : t = s \ {AnyOf(s)} /\ Cardinality(t) <= n - 1
        <5>1. PICK t \in SUBSET D : /\ t = s \ {AnyOf(s)}
                                    /\ Cardinality(t) = Cardinality(s) - 1
          BY <1>2, <3>2
        <5>2. Cardinality(s) \in Nat /\ n \in Nat /\ Cardinality(s) <= n
          BY <1>1, <2>7
        <5> QED
          BY <5>1, <5>2
      <4>2. h[t] = Rhs(h, t)
        <5> HIDE DEF Rhs
        <5> QED
          BY <2>4, <4>1
      <4>3. g[t] = h[t]
        <5> HIDE DEF Rhs
        <5> QED
          BY <2>5, <4>2
      <4>4. g[s] = F[AnyOf(s)][h[t]]
        BY <2>5, <3>2, <4>1
      <4> QED
        BY <3>2, <4>1, <4>3, <4>4
    <3> QED
      BY <3>1, <3>2
  <2>8. Upto(n, g)
    BY <2>7
  <2> HIDE DEF Upto
  <2> QED
    BY <2>6, <2>8
<1>4. PICK g \in [SUBSET D -> X] : Upto(Cardinality(D), g)
  <2>1. Cardinality(D) \in Nat
    BY FS_CardinalityType
  <2> HIDE DEF Upto
  <2> QED
    BY <1>3, <2>1
<1>5. \A s \in SUBSET D : g[s] = Rhs(g, s)
  <2> HIDE DEF Rhs
  <2> QED
    BY <1>1, <1>4
<1> QED
  BY <1>5 DEF FoldsBy

-----------------------------------------------------------------------------
(* Sums of the values of a function whose domain is finite.                 *)

LEMMA SumIsChosen ==
    ASSUME NEW f
    PROVE  SumFunction(f) =
             (CHOOSE g : g = [s \in SUBSET DOMAIN f |->
                 IF s = {} THEN 0 ELSE f[AnyOf(s)] + g[s \ {AnyOf(s)}]])[DOMAIN f]
BY Zenon DEF SumFunction, SumFunctionOnSet, FoldFunctionOnSet, MapThenFoldSet, AnyOf

\* g sums f over the subsets of D.
Sums(g, D, f) ==
    /\ g \in [SUBSET D -> Int]
    /\ \A s \in SUBSET D :
          g[s] = IF s = {} THEN 0 ELSE f[AnyOf(s)] + g[s \ {AnyOf(s)}]

\* Sums are taken element by element, in the order of AnyOf.
LEMMA SumIsFold ==
    ASSUME NEW D, IsFiniteSet(D), NEW f \in [D -> Int]
    PROVE  \E g : Sums(g, D, f) /\ SumFunction(f) = g[D]
<1>1. PICK F : F = [x \in D |-> [v \in Int |-> f[x] + v]]
  OBVIOUS
<1>2. F \in [D -> [Int -> Int]] /\ \A x \in D, v \in Int : F[x][v] = f[x] + v
  BY <1>1
<1>3. PICK h \in [SUBSET D -> Int] : FoldsBy(h, D, 0, F)
  <2>1. \A X : \A b \in X : \A G \in [D -> [X -> X]] :
            \E h \in [SUBSET D -> X] : FoldsBy(h, D, b, G)
    BY FoldExists
  <2>2. F \in [D -> [Int -> Int]] /\ 0 \in Int
    BY <1>2
  <2>3. \A G \in [D -> [Int -> Int]] : \E h \in [SUBSET D -> Int] : FoldsBy(h, D, 0, G)
    BY <2>1, <2>2, Zenon
  <2> QED
    BY <2>2, <2>3, Zenon
<1>4. ASSUME NEW s \in SUBSET D
      PROVE  h[s] = IF s = {} THEN 0 ELSE f[AnyOf(s)] + h[s \ {AnyOf(s)}]
  <2>1. CASE s = {}
    BY <1>3, <2>1 DEF FoldsBy
  <2>2. CASE s # {}
    <3>1. PICK x \in D, t \in SUBSET D : x = AnyOf(s) /\ t = s \ {AnyOf(s)}
      BY <2>2, AnyOfIsIn
    <3>2. h[s] = F[x][h[t]] /\ h[t] \in Int
      BY <1>3, <2>2, <3>1 DEF FoldsBy
    <3>3. h[s] = f[x] + h[t]
      BY <1>2, <3>2
    <3> QED
      BY <2>2, <3>1, <3>3
  <2> QED
    BY <2>1, <2>2
<1> DEFINE Fits1(g) == g = [s \in SUBSET D |->
               IF s = {} THEN 0 ELSE f[AnyOf(s)] + g[s \ {AnyOf(s)}]]
<1>5. Fits1(h)
  <2>1. h = [s \in SUBSET D |-> h[s]]
    OBVIOUS
  <2> QED
    BY <1>4, <2>1, Zenon
<1>6. PICK g : g = CHOOSE it : Fits1(it)
  OBVIOUS
<1>7. Fits1(g)
  <2> HIDE DEF Fits1
  <2> QED
    BY <1>5, <1>6, Zenon
<1>8. SumFunction(f) = g[D]
  <2>1. DOMAIN f = D
    OBVIOUS
  <2> QED
    BY <1>6, <2>1, SumIsChosen, Zenon
<1>9. \A s \in SUBSET D : g[s] = IF s = {} THEN 0 ELSE f[AnyOf(s)] + g[s \ {AnyOf(s)}]
  BY <1>7, Zenon
<1> DEFINE differ == {s \in SUBSET D : g[s] # h[s]}
<1>10. differ = {}
  <2> SUFFICES ASSUME differ # {} PROVE FALSE
    OBVIOUS
  <2>1. PICK s \in differ : \A x \in s : s \ {x} \notin differ
    <3>1. differ \in SUBSET SUBSET D
      OBVIOUS
    <3> HIDE DEF differ
    <3> QED
      BY <3>1, SmallestSet
  <2>2. s \in SUBSET D /\ g[s] # h[s]
    OBVIOUS
  <2>3. s # {}
    BY <1>4, <1>9, <2>2
  <2>4. PICK x \in s, t \in SUBSET D : x = AnyOf(s) /\ t = s \ {AnyOf(s)}
    BY <2>2, <2>3, AnyOfIsIn
  <2>5. g[t] = h[t]
    BY <2>1, <2>4
  <2>6. g[s] = f[x] + g[t] /\ h[s] = f[x] + h[t]
    BY <1>4, <1>9, <2>2, <2>3, <2>4
  <2> QED
    BY <2>2, <2>5, <2>6
<1>11. D \in SUBSET D
  OBVIOUS
<1>12. g[D] = h[D]
  BY <1>10, <1>11
<1> QED
  BY <1>4, <1>8, <1>12 DEF Sums

LEMMA SumsAgree ==
    ASSUME NEW D, IsFiniteSet(D), NEW f, NEW g, Sums(g, D, f),
           NEW E \in SUBSET D, NEW e, NEW k, Sums(k, E, e), \A x \in E : e[x] = f[x]
    PROVE  \A s \in SUBSET E : g[s] = k[s]
<1> DEFINE differ == {s \in SUBSET E : g[s] # k[s]}
<1> SUFFICES ASSUME differ # {} PROVE FALSE
  OBVIOUS
<1>1. PICK s \in differ : \A x \in s : s \ {x} \notin differ
  <2>1. differ \in SUBSET SUBSET D
    OBVIOUS
  <2> HIDE DEF differ
  <2> QED
    BY <2>1, SmallestSet
<1>2. s \in SUBSET E /\ s \in SUBSET D /\ g[s] # k[s]
  OBVIOUS
<1>3. s # {}
  BY <1>2 DEF Sums
<1>4. PICK x \in s, t \in SUBSET E : x = AnyOf(s) /\ t = s \ {AnyOf(s)} /\ t \in SUBSET D
  <2>1. AnyOf(s) \in s
    BY <1>3, AnyOfIsIn
  <2>2. s \ {AnyOf(s)} \in SUBSET E /\ s \ {AnyOf(s)} \in SUBSET D
    BY <1>2
  <2> QED
    BY <2>1, <2>2
<1>5. g[t] = k[t]
  BY <1>1, <1>4
<1>6. g[s] = f[x] + g[t] /\ k[s] = e[x] + k[t] /\ e[x] = f[x]
  BY <1>2, <1>3, <1>4 DEF Sums
<1> QED
  BY <1>2, <1>5, <1>6

LEMMA SumsSplit ==
    ASSUME NEW D, IsFiniteSet(D), NEW f \in [D -> Int], NEW g, Sums(g, D, f)
    PROVE  \A s \in SUBSET D : \A x \in s : g[s] = f[x] + g[s \ {x}]
<1> DEFINE fails == {s \in SUBSET D : ~\A x \in s : g[s] = f[x] + g[s \ {x}]}
<1> SUFFICES ASSUME fails # {} PROVE FALSE
  OBVIOUS
<1>1. PICK s \in fails : \A x \in s : s \ {x} \notin fails
  <2>1. fails \in SUBSET SUBSET D
    OBVIOUS
  <2> HIDE DEF fails
  <2> QED
    BY <2>1, SmallestSet
<1>2. PICK x \in s : g[s] # f[x] + g[s \ {x}]
  OBVIOUS
<1>3. PICK a \in s : a = AnyOf(s)
  BY <1>2, AnyOfIsIn
<1>4. PICK r, t, u \in SUBSET D : r = s \ {a} /\ t = s \ {x} /\ u = (s \ {a}) \ {x}
  OBVIOUS
<1>5. g[s] = f[a] + g[r]
  BY <1>2, <1>3, <1>4 DEF Sums
<1>6. a # x
  BY <1>2, <1>4, <1>5
<1>7. g[r] = f[x] + g[u]
  <2>1. r \notin fails /\ x \in r /\ u = r \ {x}
    BY <1>1, <1>4, <1>6
  <2> QED
    BY <2>1
<1>8. g[t] = f[a] + g[u]
  <2>1. t \notin fails /\ a \in t /\ u = t \ {a}
    BY <1>1, <1>4, <1>6
  <2> QED
    BY <2>1
<1>9. f[a] \in Int /\ f[x] \in Int /\ g[u] \in Int
  BY <1>3, <1>4 DEF Sums
<1>10. g[s] # f[x] + g[t]
  BY <1>2, <1>4
<1>11. \A i, j, k \in Int : i + (j + k) = j + (i + k)
  OBVIOUS
<1> QED
  BY <1>5, <1>7, <1>8, <1>9, <1>10, <1>11

\* The sum of f over s.
Total(f, s) == SumFunction([x \in s |-> f[x]])

LEMMA TotalIsSum ==
    ASSUME NEW D, NEW f \in [D -> Int] PROVE SumFunction(f) = Total(f, D)
<1>1. f = [x \in D |-> f[x]]
  OBVIOUS
<1> QED
  BY <1>1, Zenon DEF Total

LEMMA TotalEmpty == ASSUME NEW f PROVE Total(f, {}) = 0
<1>1. PICK e : e = [x \in {} |-> f[x]]
  OBVIOUS
<1>2. e \in [{} -> Int] /\ IsFiniteSet({})
  BY <1>1, FS_EmptySet
<1>3. PICK g : Sums(g, {}, e) /\ SumFunction(e) = g[{}]
  BY <1>2, SumIsFold
<1> QED
  BY <1>1, <1>3 DEF Sums, Total

LEMMA TotalSplit ==
    ASSUME NEW s, IsFiniteSet(s), NEW f, \A x \in s : f[x] \in Int
    PROVE  /\ Total(f, s) \in Int
           /\ \A x \in s : Total(f, s) = f[x] + Total(f, s \ {x})
<1>1. PICK h : h = [x \in s |-> f[x]]
  OBVIOUS
<1>2. h \in [s -> Int]
  BY <1>1
<1>3. PICK g : Sums(g, s, h) /\ SumFunction(h) = g[s]
  BY <1>2, SumIsFold
<1>4. Total(f, s) = g[s] /\ g[s] \in Int
  BY <1>1, <1>3 DEF Sums, Total
<1>5. ASSUME NEW x \in s PROVE Total(f, s) = f[x] + Total(f, s \ {x})
  <2>1. PICK t \in SUBSET s : t = s \ {x}
    OBVIOUS
  <2>2. PICK e : e = [y \in t |-> f[y]]
    OBVIOUS
  <2>3. IsFiniteSet(t) /\ e \in [t -> Int] /\ \A y \in t : e[y] = h[y]
    BY <1>1, <2>1, <2>2, FS_Subset
  <2>4. PICK k : Sums(k, t, e) /\ SumFunction(e) = k[t]
    BY <2>3, SumIsFold
  <2>5. g[t] = k[t]
    BY <1>3, <2>3, <2>4, SumsAgree
  <2>6. g[s] = h[x] + g[t]
    BY <1>2, <1>3, <2>1, SumsSplit
  <2> QED
    BY <1>1, <1>4, <2>1, <2>2, <2>4, <2>5, <2>6 DEF Total
<1> QED
  BY <1>4, <1>5

LEMMA TotalNat ==
    ASSUME NEW s, IsFiniteSet(s), NEW f, \A x \in s : f[x] \in Nat
    PROVE  /\ Total(f, s) \in Nat
           /\ \A x \in s : f[x] <= Total(f, s)
<1> DEFINE fails == {t \in SUBSET s : Total(f, t) \notin Nat}
<1>1. \A t \in SUBSET s : IsFiniteSet(t) /\ \A x \in t : f[x] \in Int
  BY FS_Subset
<1>2. fails = {}
  <2> SUFFICES ASSUME fails # {} PROVE FALSE
    OBVIOUS
  <2>1. PICK t \in fails : \A x \in t : t \ {x} \notin fails
    <3>1. fails \in SUBSET SUBSET s
      OBVIOUS
    <3> HIDE DEF fails
    <3> QED
      BY <3>1, SmallestSet
  <2>2. t \in SUBSET s /\ Total(f, t) \notin Nat
    OBVIOUS
  <2>3. PICK x \in t : TRUE
    BY <2>2, TotalEmpty
  <2>4. PICK u \in SUBSET s : u = t \ {x}
    BY <2>2
  <2>5. Total(f, u) \in Nat
    BY <2>1, <2>4
  <2>6. Total(f, t) = f[x] + Total(f, u)
    BY <1>1, <2>2, <2>4, TotalSplit
  <2>7. f[x] \in Nat
    BY <2>2
  <2> QED
    BY <2>2, <2>5, <2>6, <2>7
<1>3. \A t \in SUBSET s : Total(f, t) \in Nat
  BY <1>2
<1>4. ASSUME NEW x \in s PROVE f[x] <= Total(f, s)
  <2>1. PICK u \in SUBSET s : u = s \ {x}
    OBVIOUS
  <2>2. Total(f, s) = f[x] + Total(f, u)
    BY <1>1, <2>1, TotalSplit
  <2>3. Total(f, u) \in Nat /\ f[x] \in Nat
    BY <1>3
  <2> QED
    BY <2>2, <2>3
<1>5. s \in SUBSET s
  OBVIOUS
<1> QED
  BY <1>3, <1>4, <1>5

\* Sums keep an inequality between multiples.
LEMMA TotalScaled ==
    ASSUME NEW s, IsFiniteSet(s), NEW f, \A x \in s : f[x] \in Int,
           NEW h, \A x \in s : h[x] \in Int,
           NEW m \in Int, NEW n \in Int, \A x \in s : m * f[x] <= n * h[x]
    PROVE  m * Total(f, s) <= n * Total(h, s)
<1> DEFINE fails == {t \in SUBSET s : ~(m * Total(f, t) <= n * Total(h, t))}
<1>1. \A t \in SUBSET s : IsFiniteSet(t) /\ \A x \in t : f[x] \in Int /\ h[x] \in Int
  BY FS_Subset
<1> SUFFICES ASSUME fails # {} PROVE FALSE
  <2>1. s \in SUBSET s
    OBVIOUS
  <2> QED
    BY <2>1
<1>2. PICK t \in fails : \A x \in t : t \ {x} \notin fails
  <2>1. fails \in SUBSET SUBSET s
    OBVIOUS
  <2> HIDE DEF fails
  <2> QED
    BY <2>1, SmallestSet
<1>3. t \in SUBSET s /\ ~(m * Total(f, t) <= n * Total(h, t))
  OBVIOUS
<1>4. t # {}
  <2> SUFFICES ASSUME t = {} PROVE FALSE
    OBVIOUS
  <2>1. Total(f, t) = 0 /\ Total(h, t) = 0
    BY TotalEmpty
  <2> QED
    BY <1>3, <2>1
<1>5. PICK x \in t, u \in SUBSET s : u = t \ {x}
  BY <1>3, <1>4
<1>6. m * Total(f, u) <= n * Total(h, u)
  BY <1>2, <1>5
<1>7. Total(f, t) = f[x] + Total(f, u) /\ Total(h, t) = h[x] + Total(h, u)
  BY <1>1, <1>3, <1>5, TotalSplit
<1>8. /\ f[x] \in Int /\ h[x] \in Int /\ Total(f, u) \in Int /\ Total(h, u) \in Int
      /\ m * f[x] <= n * h[x]
  BY <1>1, <1>3, TotalSplit
<1>9. \A i, j, k \in Int : i * (j + k) = i * j + i * k
  OBVIOUS
<1>10. \A i, j, k, l \in Int : i <= j /\ k <= l => i + k <= j + l
  OBVIOUS
<1>11. /\ m * Total(f, t) = m * f[x] + m * Total(f, u)
       /\ n * Total(h, t) = n * h[x] + n * Total(h, u)
  BY <1>7, <1>8, <1>9
<1> QED
  BY <1>3, <1>6, <1>8, <1>10, <1>11

LEMMA TotalSame ==
    ASSUME NEW s, NEW f, NEW h, \A x \in s : f[x] = h[x]
    PROVE  Total(f, s) = Total(h, s)
<1>1. [x \in s |-> f[x]] = [x \in s |-> h[x]]
  OBVIOUS
<1> QED
  BY <1>1 DEF Total

\* Sums of sums.
LEMMA TotalPlus ==
    ASSUME NEW s, IsFiniteSet(s), NEW f, NEW h, NEW e,
           \A x \in s : f[x] \in Int /\ h[x] \in Int /\ e[x] = f[x] + h[x]
    PROVE  Total(e, s) = Total(f, s) + Total(h, s)
<1> DEFINE fails == {t \in SUBSET s : Total(e, t) # Total(f, t) + Total(h, t)}
<1>1. \A t \in SUBSET s : IsFiniteSet(t)
          /\ \A x \in t : f[x] \in Int /\ h[x] \in Int /\ e[x] \in Int
  BY FS_Subset
<1> SUFFICES ASSUME fails # {} PROVE FALSE
  <2>1. s \in SUBSET s
    OBVIOUS
  <2> QED
    BY <2>1
<1>2. PICK t \in fails : \A x \in t : t \ {x} \notin fails
  <2>1. fails \in SUBSET SUBSET s
    OBVIOUS
  <2> HIDE DEF fails
  <2> QED
    BY <2>1, SmallestSet
<1>3. t \in SUBSET s /\ Total(e, t) # Total(f, t) + Total(h, t)
  OBVIOUS
<1>4. t # {}
  <2> SUFFICES ASSUME t = {} PROVE FALSE
    OBVIOUS
  <2>1. Total(f, t) = 0 /\ Total(h, t) = 0 /\ Total(e, t) = 0
    BY TotalEmpty
  <2> QED
    BY <1>3, <2>1
<1>5. PICK x \in t, u \in SUBSET s : u = t \ {x}
  BY <1>3, <1>4
<1>6. Total(e, u) = Total(f, u) + Total(h, u)
  BY <1>2, <1>5
<1>7. /\ Total(f, t) = f[x] + Total(f, u) /\ Total(h, t) = h[x] + Total(h, u)
      /\ Total(e, t) = e[x] + Total(e, u)
  <2>1. /\ IsFiniteSet(t) /\ x \in t /\ u = t \ {x}
        /\ \A y \in t : f[y] \in Int /\ h[y] \in Int /\ e[y] \in Int
    BY <1>1, <1>3, <1>5
  <2>2. Total(f, t) = f[x] + Total(f, u)
    BY <2>1, TotalSplit
  <2>3. Total(h, t) = h[x] + Total(h, u)
    BY <2>1, TotalSplit
  <2>4. Total(e, t) = e[x] + Total(e, u)
    BY <2>1, TotalSplit
  <2> QED
    BY <2>2, <2>3, <2>4
<1>8. /\ f[x] \in Int /\ h[x] \in Int /\ Total(f, u) \in Int /\ Total(h, u) \in Int
      /\ e[x] = f[x] + h[x]
  BY <1>1, <1>3, TotalSplit
<1> QED
  BY <1>3, <1>6, <1>7, <1>8

LEMMA TotalLess ==
    ASSUME NEW s, IsFiniteSet(s), NEW f, NEW h,
           \A x \in s : f[x] \in Int /\ h[x] \in Int /\ f[x] <= h[x]
    PROVE  /\ Total(f, s) <= Total(h, s)
           /\ \A x \in s : f[x] < h[x] => Total(f, s) < Total(h, s)
<1>1. \A t \in SUBSET s : IsFiniteSet(t) /\ Total(f, t) \in Int /\ Total(h, t) \in Int
  <2> SUFFICES ASSUME NEW t \in SUBSET s
               PROVE  IsFiniteSet(t) /\ Total(f, t) \in Int /\ Total(h, t) \in Int
    OBVIOUS
  <2>1. IsFiniteSet(t) /\ \A x \in t : f[x] \in Int /\ h[x] \in Int
    BY FS_Subset
  <2> QED
    BY <2>1, TotalSplit
<1>2. ASSUME NEW t \in SUBSET s PROVE Total(f, t) <= Total(h, t)
  <2>1. \A x \in t : 1 * f[x] <= 1 * h[x]
    OBVIOUS
  <2>2. \A m, n \in Int : (\A x \in t : m * f[x] <= n * h[x])
            => m * Total(f, t) <= n * Total(h, t)
    <3>1. IsFiniteSet(t) /\ (\A x \in t : f[x] \in Int) /\ (\A x \in t : h[x] \in Int)
      BY <1>1
    <3> QED
      BY <3>1, TotalScaled, Zenon
  <2>3. 1 \in Int
    OBVIOUS
  <2>4. 1 * Total(f, t) <= 1 * Total(h, t)
    BY <2>1, <2>2, <2>3, Zenon
  <2> QED
    BY <1>1, <2>4
<1>3. ASSUME NEW x \in s, f[x] < h[x] PROVE Total(f, s) < Total(h, s)
  <2>1. PICK u \in SUBSET s : u = s \ {x}
    OBVIOUS
  <2>2. Total(f, s) = f[x] + Total(f, u) /\ Total(h, s) = h[x] + Total(h, u)
    BY <2>1, TotalSplit
  <2>3. Total(f, u) <= Total(h, u)
    BY <1>2
  <2> QED
    BY <1>1, <1>3, <2>2, <2>3
<1>4. s \in SUBSET s
  OBVIOUS
<1> QED
  BY <1>2, <1>3, <1>4

LEMMA TotalZero ==
    ASSUME NEW s, IsFiniteSet(s), NEW f, \A x \in s : f[x] = 0
    PROVE  Total(f, s) = 0
<1>1. PICK h : h = [x \in s |-> 0]
  OBVIOUS
<1>2. \A x \in s : h[x] \in Int /\ f[x] \in Int /\ f[x] = h[x] + h[x] /\ f[x] = h[x]
  BY <1>1
<1>3. Total(f, s) = Total(h, s) + Total(h, s)
  BY <1>2, TotalPlus
<1>4. Total(f, s) = Total(h, s)
  BY <1>2, TotalSame
<1>5. PICK n \in Int : n = Total(h, s)
  BY <1>2, TotalSplit
<1>6. Total(f, s) = n /\ n = n + n
  BY <1>3, <1>4, <1>5
<1> QED
  BY <1>6

\* What is left out of a sum is nothing.
LEMMA TotalWithout ==
    ASSUME NEW s, IsFiniteSet(s), NEW t \in SUBSET s, NEW f,
           \A x \in s : f[x] \in Int, \A x \in s \ t : f[x] = 0
    PROVE  Total(f, s) = Total(f, t)
<1> DEFINE fails == {u \in SUBSET s : t \subseteq u /\ Total(f, u) # Total(f, t)}
<1>1. \A u \in SUBSET s : IsFiniteSet(u) /\ \A x \in u : f[x] \in Int
  BY FS_Subset
<1> SUFFICES ASSUME fails # {} PROVE FALSE
  <2>1. s \in SUBSET s
    OBVIOUS
  <2> QED
    BY <2>1
<1>2. PICK u \in fails : \A x \in u : u \ {x} \notin fails
  <2>1. fails \in SUBSET SUBSET s
    OBVIOUS
  <2> HIDE DEF fails
  <2> QED
    BY <2>1, SmallestSet
<1>3. u \in SUBSET s /\ t \subseteq u /\ Total(f, u) # Total(f, t)
  OBVIOUS
<1>4. PICK x \in u : x \notin t
  BY <1>3
<1>5. PICK v \in SUBSET s : v = u \ {x} /\ t \subseteq v
  BY <1>3, <1>4
<1>6. Total(f, v) = Total(f, t)
  BY <1>2, <1>5
<1>7. Total(f, u) = f[x] + Total(f, v) /\ f[x] = 0 /\ Total(f, v) \in Int
  BY <1>1, <1>3, <1>4, <1>5, TotalSplit
<1> QED
  BY <1>3, <1>6, <1>7

LEMMA TotalTimes ==
    ASSUME NEW s, IsFiniteSet(s), NEW f, \A x \in s : f[x] \in Int, NEW m \in Int
    PROVE  Total([x \in s |-> m * f[x]], s) = m * Total(f, s)
<1> DEFINE h == [x \in s |-> m * f[x]]
           fails == {t \in SUBSET s : Total(h, t) # m * Total(f, t)}
<1>1. \A t \in SUBSET s : IsFiniteSet(t) /\ \A x \in t : f[x] \in Int /\ h[x] \in Int
  BY FS_Subset
<1>2. \A x \in s : h[x] = m * f[x]
  OBVIOUS
<1> HIDE DEF h
<1> SUFFICES ASSUME fails # {} PROVE FALSE
  <2>1. s \in SUBSET s
    OBVIOUS
  <2> QED
    BY <2>1 DEF h
<1>3. PICK t \in fails : \A x \in t : t \ {x} \notin fails
  <2>1. fails \in SUBSET SUBSET s
    OBVIOUS
  <2> HIDE DEF fails
  <2> QED
    BY <2>1, SmallestSet
<1>4. t \in SUBSET s /\ Total(h, t) # m * Total(f, t)
  OBVIOUS
<1>5. t # {}
  <2> SUFFICES ASSUME t = {} PROVE FALSE
    OBVIOUS
  <2>1. Total(f, t) = 0 /\ Total(h, t) = 0
    BY TotalEmpty
  <2> QED
    BY <1>4, <2>1
<1>6. PICK x \in t, u \in SUBSET s : u = t \ {x}
  BY <1>4, <1>5
<1>7. Total(h, u) = m * Total(f, u)
  BY <1>3, <1>6
<1>8. Total(f, t) = f[x] + Total(f, u) /\ Total(h, t) = h[x] + Total(h, u)
  BY <1>1, <1>4, <1>6, TotalSplit
<1>9. f[x] \in Int /\ Total(f, u) \in Int /\ h[x] = m * f[x]
  BY <1>1, <1>2, <1>4, TotalSplit
<1>10. \A i, j, k \in Int : i * (j + k) = i * j + i * k
  OBVIOUS
<1>11. m * Total(f, t) = m * f[x] + m * Total(f, u)
  BY <1>8, <1>9, <1>10
<1> QED
  BY <1>4, <1>7, <1>8, <1>9, <1>11

LEMMA TotalOfSame ==
    ASSUME NEW s, IsFiniteSet(s), NEW m \in Int
    PROVE  Total([x \in s |-> m], s) = m * Cardinality(s)
<1> DEFINE f == [x \in s |-> m]
           fails == {t \in SUBSET s : Total(f, t) # m * Cardinality(t)}
<1>1. \A t \in SUBSET s : IsFiniteSet(t) /\ Cardinality(t) \in Nat /\ \A x \in t : f[x] \in Int
  BY FS_Subset, FS_CardinalityType
<1>2. \A x \in s : f[x] = m
  OBVIOUS
<1> HIDE DEF f
<1> SUFFICES ASSUME fails # {} PROVE FALSE
  <2>1. s \in SUBSET s
    OBVIOUS
  <2> QED
    BY <2>1 DEF f
<1>3. PICK t \in fails : \A x \in t : t \ {x} \notin fails
  <2>1. fails \in SUBSET SUBSET s
    OBVIOUS
  <2> HIDE DEF fails
  <2> QED
    BY <2>1, SmallestSet
<1>4. t \in SUBSET s /\ Total(f, t) # m * Cardinality(t)
  OBVIOUS
<1>5. t # {}
  <2> SUFFICES ASSUME t = {} PROVE FALSE
    OBVIOUS
  <2>1. Total(f, t) = 0 /\ Cardinality(t) = 0
    BY TotalEmpty, FS_EmptySet
  <2> QED
    BY <1>4, <2>1
<1>6. PICK x \in t, u \in SUBSET s : u = t \ {x}
  BY <1>4, <1>5
<1>7. Total(f, u) = m * Cardinality(u)
  BY <1>3, <1>6
<1>8. Total(f, t) = f[x] + Total(f, u) /\ f[x] = m
  BY <1>1, <1>2, <1>4, <1>6, TotalSplit
<1>9. PICK k \in Nat : k = Cardinality(u) /\ Cardinality(t) = k + 1
  <2>1. Cardinality(u) = Cardinality(t) - 1
    BY <1>1, <1>4, <1>6, FS_RemoveElement
  <2> QED
    BY <1>1, <1>4, <2>1
<1>10. m * (k + 1) = m + m * k
  OBVIOUS
<1> QED
  BY <1>4, <1>7, <1>8, <1>9, <1>10

-----------------------------------------------------------------------------
(* Seats.                                                                   *)

LEMMA Quotients ==
    ASSUME NEW n \in Int, NEW d \in Nat \ {0}
    PROVE  n \div d \in Int /\ d * (n \div d) <= n /\ n < d * (n \div d + 1)
OBVIOUS

LEMMA Cancel ==
    ASSUME NEW k \in Nat \ {0}, NEW i \in Int, NEW j \in Int
    PROVE  (k * i <= k * j => i <= j) /\ (k * i < k * j => i < j)
OBVIOUS

LEMMA Scale ==
    ASSUME NEW k \in Nat, NEW i \in Int, NEW j \in Int, i <= j
    PROVE  k * i <= k * j /\ (k > 0 /\ i < j => k * i < k * j)
OBVIOUS

\* Quotients a/p and so on, compared crosswise, are in order.
LEMMA Crosswise ==
    ASSUME NEW a \in Nat, NEW b \in Nat, NEW c \in Nat,
           NEW p \in Nat, NEW q \in Nat \ {0}, NEW r \in Nat,
           a * q >= b * p, b * r >= c * q
    PROVE  /\ a * r >= c * p
           /\ r > 0 /\ a * q > b * p => a * r > c * p
           /\ p > 0 /\ b * r > c * q => a * r > c * p
<1>1. /\ r * (b * p) <= r * (a * q) /\ (r > 0 /\ b * p < a * q => r * (b * p) < r * (a * q))
      /\ p * (c * q) <= p * (b * r) /\ (p > 0 /\ c * q < b * r => p * (c * q) < p * (b * r))
  BY Scale
<1>2. \A i, j, k \in Int : k * (j * i) = i * (j * k)
  OBVIOUS
<1>3. \A i, j, k \in Int : k * (i * j) = j * (i * k)
  OBVIOUS
<1>4. r * (b * p) = p * (b * r)
  BY <1>2
<1>5. r * (a * q) = q * (a * r) /\ p * (c * q) = q * (c * p)
  BY <1>3
<1>6. PICK x, y, z \in Int : x = q * (c * p) /\ y = p * (b * r) /\ z = q * (a * r)
  OBVIOUS
<1>7. /\ x <= y /\ y <= z
      /\ r > 0 /\ b * p < a * q => y < z
      /\ p > 0 /\ c * q < b * r => x < y
  BY <1>1, <1>4, <1>5, <1>6
<1>8. /\ x <= z /\ (r > 0 /\ a * q > b * p => x < z) /\ (p > 0 /\ b * r > c * q => x < z)
  BY <1>6, <1>7
<1>9. c * p \in Int /\ a * r \in Int
  OBVIOUS
<1>10. (x <= z => c * p <= a * r) /\ (x < z => c * p < a * r)
  BY <1>6, <1>9, Cancel
<1> QED
  BY <1>8, <1>9, <1>10

\* The m-th seat of i is given no later than the n-th of j.
NoLater(i, m, j, n, weights, turn) ==
    \/ weights[i] * n > weights[j] * m
    \/ weights[i] * n = weights[j] * m /\ turn[i] <= turn[j]

\* Each has its own turn.
InTurns(D, turn) == \A i, j \in D : turn[i] \in Int /\ (turn[i] = turn[j] => i = j)

\* Whatever seats were given came no later than the ones to come.
Fair(s, D, weights, turn) ==
    \A i, j \in D : s[i] > 0 => NoLater(i, s[i], j, s[j] + 1, weights, turn)

\* i has the next seat of those in t.
Wins(i, t, s, weights, turn) ==
    \A j \in t : /\ ~(weights[j] * (s[i] + 1) > weights[i] * (s[j] + 1))
                 /\ turn[j] < turn[i] => weights[i] * (s[j] + 1) > weights[j] * (s[i] + 1)

LEMMA SomeoneWins ==
    ASSUME NEW D, IsFiniteSet(D), NEW s \in [D -> Nat], NEW weights \in [D -> Nat],
           NEW turn, InTurns(D, turn), D # {}
    PROVE  \E i \in D : Wins(i, D, s, weights, turn)
<1> DEFINE fails == {t \in SUBSET D : t # {} /\ ~\E i \in t : Wins(i, t, s, weights, turn)}
<1> SUFFICES ASSUME fails # {} PROVE FALSE
  <2>1. D \in SUBSET D
    OBVIOUS
  <2> QED
    BY <2>1
<1>1. PICK t \in fails : \A x \in t : t \ {x} \notin fails
  <2>1. fails \in SUBSET SUBSET D
    OBVIOUS
  <2> HIDE DEF fails
  <2> QED
    BY <2>1, SmallestSet
<1>2. t \in SUBSET D /\ t # {} /\ ~\E i \in t : Wins(i, t, s, weights, turn)
  OBVIOUS
<1>3. PICK x \in t, u \in SUBSET D : u = t \ {x} /\ x \in D
  <2>1. PICK x \in t : x \in D
    BY <1>2
  <2>2. t \ {x} \in SUBSET D
    BY <1>2
  <2> QED
    BY <2>1, <2>2
<1>4. \A i, j \in D : /\ weights[i] * (s[j] + 1) \in Int /\ turn[i] \in Int
                      /\ weights[i] \in Nat /\ s[i] + 1 \in Nat \ {0}
  <2> SUFFICES ASSUME NEW i \in D, NEW j \in D
               PROVE  /\ weights[i] * (s[j] + 1) \in Int /\ turn[i] \in Int
                      /\ weights[i] \in Nat /\ s[i] + 1 \in Nat \ {0}
    OBVIOUS
  <2>1. weights[i] \in Nat /\ s[j] + 1 \in Nat \ {0} /\ s[i] + 1 \in Nat \ {0}
    OBVIOUS
  <2>2. weights[i] * (s[j] + 1) \in Int
    BY <2>1
  <2> QED
    BY <2>1, <2>2 DEF InTurns
<1>5. u # {}
  <2> SUFFICES ASSUME u = {} PROVE FALSE
    OBVIOUS
  <2>1. \A j \in t : j = x
    BY <1>3
  <2>2. Wins(x, t, s, weights, turn)
    BY <1>3, <1>4, <2>1 DEF Wins
  <2> QED
    BY <1>2, <2>2
<1>6. PICK y \in u : Wins(y, u, s, weights, turn)
  BY <1>1, <1>3, <1>5
<1>7. y \in D /\ y \in t /\ y # x /\ turn[x] # turn[y]
  BY <1>3 DEF InTurns
<1>8. \A j \in t : j = x \/ j \in u
  BY <1>3
<1>9. CASE /\ ~(weights[x] * (s[y] + 1) > weights[y] * (s[x] + 1))
           /\ turn[x] < turn[y] => weights[y] * (s[x] + 1) > weights[x] * (s[y] + 1)
  <2>1. Wins(y, t, s, weights, turn)
    BY <1>6, <1>8, <1>9 DEF Wins
  <2> QED
    BY <1>2, <1>7, <2>1
<1>10. CASE \/ weights[x] * (s[y] + 1) > weights[y] * (s[x] + 1)
            \/ /\ turn[x] < turn[y] /\ weights[x] * (s[y] + 1) >= weights[y] * (s[x] + 1)
  <2>1. ASSUME NEW j \in t
        PROVE  /\ ~(weights[j] * (s[x] + 1) > weights[x] * (s[j] + 1))
               /\ turn[j] < turn[x] => weights[x] * (s[j] + 1) > weights[j] * (s[x] + 1)
    <3>1. CASE j = x
      BY <1>3, <1>4, <3>1
    <3>2. CASE j \in u
      <4>1. j \in D
        BY <1>3, <3>2
      <4>2. PICK a, b, c \in Nat : a = weights[x] /\ b = weights[y] /\ c = weights[j]
        BY <1>3, <1>4, <1>7, <4>1
      <4>3. PICK p, q, r \in Nat \ {0} : p = s[x] + 1 /\ q = s[y] + 1 /\ r = s[j] + 1
        BY <1>3, <1>4, <1>7, <4>1
      <4>4. PICK tx, ty, tj \in Int : tx = turn[x] /\ ty = turn[y] /\ tj = turn[j]
        BY <1>3, <1>4, <1>7, <4>1
      <4>5. ~(c * q > b * r) /\ (tj < ty => b * r > c * q)
        BY <1>6, <3>2, <4>2, <4>3, <4>4 DEF Wins
      <4>6. a * q > b * p \/ (tx < ty /\ a * q >= b * p)
        BY <1>10, <4>2, <4>3, <4>4
      <4>7. a * q \in Int /\ b * p \in Int /\ b * r \in Int /\ c * q \in Int /\ a * r \in Int /\ c * p \in Int
        OBVIOUS
      <4>8. b * r >= c * q /\ a * q >= b * p
        BY <4>5, <4>6, <4>7
      <4>9. /\ a * r >= c * p
            /\ a * q > b * p => a * r > c * p
            /\ b * r > c * q => a * r > c * p
        BY <4>8, Crosswise
      <4>10. tj < tx => a * r > c * p
        BY <4>4, <4>5, <4>6, <4>9
      <4> QED
        BY <4>2, <4>3, <4>4, <4>7, <4>9, <4>10
    <3> QED
      BY <1>8, <3>1, <3>2
  <2>2. Wins(x, t, s, weights, turn)
    BY <2>1 DEF Wins
  <2> QED
    BY <1>2, <1>3, <2>2
<1>11. /\ weights[x] * (s[y] + 1) \in Int /\ weights[y] * (s[x] + 1) \in Int
       /\ turn[x] \in Int /\ turn[y] \in Int
  BY <1>3, <1>4, <1>7
<1> QED
  BY <1>7, <1>9, <1>10, <1>11

\* So many seats, fairly given.
Seated(D, weights, turn, n) ==
    {s \in [D -> Nat] : Fair(s, D, weights, turn) /\ Total(s, D) = n}

LEMMA NextSeatIsFair ==
    ASSUME NEW D, IsFiniteSet(D), D # {}, NEW weights \in [D -> Nat],
           NEW turn, InTurns(D, turn), NEW n \in Nat,
           NEW s \in Seated(D, weights, turn, n)
    PROVE  NextSeat(s, weights, turn) \in Seated(D, weights, turn, n + 1)
<1>1. s \in [D -> Nat] /\ Fair(s, D, weights, turn) /\ Total(s, D) = n
  BY DEF Seated
<1>2. PICK w \in D : w = Winner(s, weights, turn) /\ Wins(w, D, s, weights, turn)
  <2>1. \E i \in D : Wins(i, D, s, weights, turn)
    BY <1>1, SomeoneWins
  <2>2. Winner(s, weights, turn) = CHOOSE i \in D : Wins(i, D, s, weights, turn)
    <3>1. DOMAIN s = D
      BY <1>1
    <3> QED
      BY <3>1, Zenon DEF Winner, Wins
  <2>3. PICK w \in D : w = Winner(s, weights, turn) /\ Wins(w, D, s, weights, turn)
    BY <2>1, <2>2, Zenon
  <2> QED
    BY <2>3
<1>3. PICK r : r = NextSeat(s, weights, turn)
  OBVIOUS
<1>4. r = [x \in D |-> IF x = w THEN s[x] + 1 ELSE s[x]]
  BY <1>1, <1>2, <1>3 DEF NextSeat
<1>5. r \in [D -> Nat] /\ r[w] = s[w] + 1 /\ \A x \in D : x # w => r[x] = s[x]
  BY <1>1, <1>4
<1>6. ASSUME NEW i \in D, NEW j \in D, r[i] > 0
      PROVE  NoLater(i, r[i], j, r[j] + 1, weights, turn)
  <2>1. PICK a, b \in Nat : a = weights[i] /\ b = weights[j]
    OBVIOUS
  <2>2. PICK p, q \in Nat : p = s[i] /\ q = s[j]
    BY <1>1
  <2>3. PICK ti, tj \in Int : ti = turn[i] /\ tj = turn[j] /\ (ti = tj => i = j)
    BY DEF InTurns
  <2>4. p > 0 => a * (q + 1) > b * p \/ (a * (q + 1) = b * p /\ ti <= tj)
    BY <1>1, <2>1, <2>2, <2>3 DEF Fair, NoLater
  <2>5. CASE i # w /\ j # w
    <3>1. r[i] = p /\ r[j] = q /\ p > 0
      BY <1>5, <1>6, <2>2, <2>5
    <3> QED
      BY <2>1, <2>3, <2>4, <3>1 DEF NoLater
  <2>6. CASE i = w /\ j # w
    <3>1. r[i] = p + 1 /\ r[j] = q
      BY <1>5, <2>2, <2>6
    <3>2. ~(b * (p + 1) > a * (q + 1)) /\ (tj < ti => a * (q + 1) > b * (p + 1))
      BY <1>2, <2>1, <2>2, <2>3, <2>6 DEF Wins
    <3>3. a * (q + 1) \in Int /\ b * (p + 1) \in Int
      OBVIOUS
    <3>4. a * (q + 1) > b * (p + 1) \/ (a * (q + 1) = b * (p + 1) /\ ti <= tj)
      BY <3>2, <3>3
    <3> QED
      BY <2>1, <2>3, <3>1, <3>4 DEF NoLater
  <2>7. CASE i = w /\ j = w
    <3>1. r[i] = p + 1 /\ r[j] = p + 1 /\ a = b /\ ti = tj
      BY <1>5, <2>1, <2>2, <2>3, <2>7
    <3>2. (p + 1) + 1 > p + 1 /\ p + 1 \in Int /\ (p + 1) + 1 \in Int
      OBVIOUS
    <3>3. a * ((p + 1) + 1) > a * (p + 1) \/ a * ((p + 1) + 1) = a * (p + 1)
      <4>1. a * (p + 1) <= a * ((p + 1) + 1)
        BY <3>2, Scale
      <4>2. a * (p + 1) \in Int /\ a * ((p + 1) + 1) \in Int
        OBVIOUS
      <4> QED
        BY <4>1, <4>2
    <3> QED
      BY <2>1, <2>3, <3>1, <3>3 DEF NoLater
  <2>8. CASE i # w /\ j = w
    <3>1. r[i] = p /\ r[j] = q + 1 /\ p > 0
      BY <1>5, <1>6, <2>2, <2>8
    <3>2. a * (q + 1) > b * p \/ (a * (q + 1) = b * p /\ ti <= tj)
      BY <2>4, <3>1
    <3>3. a * (q + 1) <= a * ((q + 1) + 1) /\ (a > 0 => a * (q + 1) < a * ((q + 1) + 1))
      <4>1. (q + 1) < (q + 1) + 1 /\ q + 1 \in Int /\ (q + 1) + 1 \in Int /\ q + 1 <= (q + 1) + 1
        OBVIOUS
      <4> QED
        BY <4>1, Scale
    <3>4. a = 0 => a * ((q + 1) + 1) = a * (q + 1)
      OBVIOUS
    <3>5. PICK x, y, z \in Int : x = a * (q + 1) /\ y = a * ((q + 1) + 1) /\ z = b * p
      OBVIOUS
    <3>6. y > z \/ (y = z /\ ti <= tj)
      BY <3>2, <3>3, <3>4, <3>5
    <3> QED
      BY <2>1, <2>3, <3>1, <3>5, <3>6 DEF NoLater
  <2> QED
    BY <2>5, <2>6, <2>7, <2>8
<1>7. Total(r, D) = n + 1
  <2>1. PICK u \in SUBSET D : u = D \ {w}
    OBVIOUS
  <2>2. (\A x \in D : s[x] \in Int) /\ (\A x \in D : r[x] \in Int)
    BY <1>1, <1>5
  <2>3. Total(s, D) = s[w] + Total(s, u) /\ Total(r, D) = r[w] + Total(r, u)
    BY <2>1, <2>2, TotalSplit
  <2>4. Total(r, u) = Total(s, u)
    BY <1>5, <2>1, TotalSame
  <2>5. IsFiniteSet(u) /\ \A x \in u : s[x] \in Int
    BY <2>2, FS_Subset
  <2>6. Total(s, u) \in Int
    BY <2>5, TotalSplit
  <2> QED
    BY <1>1, <1>5, <2>2, <2>3, <2>4, <2>6
<1> QED
  BY <1>3, <1>5, <1>6, <1>7 DEF Seated, Fair

\* The lower quotas of a split are fair, and do not come to more than the total.
LEMMA QuotasAreFair ==
    ASSUME NEW D, IsFiniteSet(D), NEW weights \in [D -> Nat], NEW total \in Nat,
           NEW turn, InTurns(D, turn), SumFunction(weights) # 0
    PROVE  \E n \in Nat :
              /\ LowerQuotas(total, weights) \in Seated(D, weights, turn, n)
              /\ n <= total /\ SumFunction(LowerQuotas(total, weights)) = n
<1>1. PICK sum, floor : sum = SumFunction(weights) /\ floor = LowerQuotas(total, weights)
  OBVIOUS
<1>2. sum = Total(weights, D) /\ sum \in Nat \ {0}
  BY <1>1, TotalNat, TotalIsSum
<1>3. \A i \in D : total * weights[i] \in Nat
  OBVIOUS
<1>4. DOMAIN floor = D /\ \A i \in D : floor[i] = (total * weights[i]) \div sum
  BY <1>1 DEF LowerQuotas
<1>5. ASSUME NEW i \in D
      PROVE  /\ floor[i] \in Nat /\ sum * floor[i] <= total * weights[i]
             /\ total * weights[i] < sum * (floor[i] + 1)
  <2>1. \A n \in Nat : \A d \in Nat \ {0} : n \div d \in Nat
    OBVIOUS
  <2>2. floor[i] \in Nat
    BY <1>2, <1>3, <1>4, <2>1
  <2>3. PICK v \in Int : v = total * weights[i]
    BY <1>3
  <2>4. sum * (v \div sum) <= v /\ v < sum * (v \div sum + 1)
    BY <1>2, Quotients
  <2> QED
    BY <1>4, <2>2, <2>3, <2>4
<1>6. floor \in [D -> Nat]
  BY <1>1, <1>4, <1>5 DEF LowerQuotas
<1>7. sum * Total(floor, D) <= total * Total(weights, D)
  <2>1. /\ sum \in Int /\ total \in Int /\ \A i \in D : floor[i] \in Int
        /\ \A i \in D : weights[i] \in Int
        /\ \A i \in D : sum * floor[i] <= total * weights[i]
    BY <1>2, <1>5
  <2> QED
    BY <2>1, TotalScaled, Zenon
<1>8. PICK n \in Nat : n = Total(floor, D)
  BY <1>5, TotalNat
<1>9. n <= total
  <2>1. sum * n <= sum * total
    BY <1>2, <1>7, <1>8
  <2> QED
    BY <1>2, <2>1, Cancel
<1>10. ASSUME NEW i \in D, NEW j \in D, floor[i] > 0
       PROVE  NoLater(i, floor[i], j, floor[j] + 1, weights, turn)
  <2>1. PICK a, b, p, q \in Nat : a = weights[i] /\ b = weights[j] /\ p = floor[i] /\ q = floor[j]
    BY <1>5
  <2>2. sum * p <= total * a /\ total * b < sum * (q + 1) /\ p > 0
    BY <1>5, <1>10, <2>1
  <2>3. a > 0
    <3> SUFFICES ASSUME a = 0 PROVE FALSE
      OBVIOUS
    <3>1. total * a = 0
      OBVIOUS
    <3>2. sum * p <= sum * 0
      BY <1>2, <2>2, <3>1
    <3> QED
      BY <1>2, <2>2, <3>2, Cancel
  <2>4. b * (sum * p) <= b * (total * a)
    <3>1. sum * p \in Int /\ total * a \in Int
      BY <1>2
    <3> QED
      BY <2>2, <3>1, Scale
  <2>5. a * (total * b) < a * (sum * (q + 1))
    <3>1. total * b \in Int /\ sum * (q + 1) \in Int
      BY <1>2
    <3> QED
      BY <2>2, <2>3, <3>1, Scale
  <2>6. \A x, y, z \in Int : x * (y * z) = z * (y * x) /\ x * (y * z) = y * (x * z)
    OBVIOUS
  <2>7. /\ b * (total * a) = a * (total * b) /\ b * (sum * p) = sum * (b * p)
        /\ a * (sum * (q + 1)) = sum * (a * (q + 1))
    BY <1>2, <2>6
  <2>8. PICK x, y, z \in Int : x = sum * (b * p) /\ y = a * (total * b) /\ z = sum * (a * (q + 1))
    BY <1>2
  <2>9. x < z
    BY <2>4, <2>5, <2>7, <2>8
  <2>10. b * p \in Int /\ a * (q + 1) \in Int
    OBVIOUS
  <2>11. b * p < a * (q + 1)
    BY <1>2, <2>8, <2>9, <2>10, Cancel
  <2> QED
    BY <2>1, <2>11 DEF NoLater
<1>11. floor \in Seated(D, weights, turn, n)
  BY <1>6, <1>8, <1>10 DEF Seated, Fair
<1>12. SumFunction(floor) = n
  <2>1. floor \in [D -> Int]
    BY <1>6
  <2> QED
    BY <1>8, <2>1, TotalIsSum
<1> QED
  BY <1>1, <1>9, <1>11, <1>12

LEMMA SplitIsChosen ==
    ASSUME NEW total, NEW weights, NEW turn, SumFunction(weights) # 0
    PROVE  Split(total, weights, turn) =
             (CHOOSE g : g = [k \in Nat |-> IF k = 0 THEN LowerQuotas(total, weights)
                                            ELSE NextSeat(g[k - 1], weights, turn)])
             [total - SumFunction(LowerQuotas(total, weights))]
BY Zenon DEF Split

\* The seats of a split, one after the other.
SeatsOf(g, total, weights, turn) ==
    /\ \A k \in Nat : g[k] = IF k = 0 THEN LowerQuotas(total, weights)
                             ELSE NextSeat(g[k - 1], weights, turn)
    /\ Split(total, weights, turn) = g[total - SumFunction(LowerQuotas(total, weights))]

LEMMA NextSeatType ==
    ASSUME NEW D, NEW s \in [D -> Int], NEW weights, NEW turn
    PROVE  NextSeat(s, weights, turn) \in [D -> Int]
<1>1. PICK w : w = Winner(s, weights, turn)
  OBVIOUS
<1>2. NextSeat(s, weights, turn) = [x \in D |-> IF x = w THEN s[x] + 1 ELSE s[x]]
  BY <1>1 DEF NextSeat
<1> QED
  BY <1>2

LEMMA SplitSeats ==
    ASSUME NEW D, NEW weights, NEW total, NEW turn, SumFunction(weights) # 0,
           LowerQuotas(total, weights) \in [D -> Int]
    PROVE  \E g : SeatsOf(g, total, weights, turn)
<1>1. PICK floor, n : /\ floor = LowerQuotas(total, weights)
                      /\ n = total - SumFunction(LowerQuotas(total, weights))
  OBVIOUS
<1> DEFINE next(s) == NextSeat(s, weights, turn)
           Fits1(g) == g = [k \in Nat |-> IF k = 0 THEN LowerQuotas(total, weights)
                                          ELSE next(g[k - 1])]
<1>3. PICK g : g = (CHOOSE it : Fits1(it)) /\ Split(total, weights, turn) = g[n]
  BY <1>1, SplitIsChosen
<1>4. PICK X : X = [D -> Int]
  OBVIOUS
<1>5. \A s \in X : next(s) \in X
  BY <1>4, NextSeatType
<1> HIDE DEF next
<1>6. PICK F : F = [s \in X |-> next(s)]
  OBVIOUS
<1>7. F \in [X -> X] /\ floor \in X
  BY <1>1, <1>4, <1>5, <1>6
<1>8. PICK h \in [Nat -> X] : StepsBy(h, floor, F)
  BY <1>7, StepsExist
<1>9. ASSUME NEW k \in Nat PROVE h[k] = IF k = 0 THEN floor ELSE next(h[k - 1])
  <2>1. CASE k = 0
    BY <1>8, <2>1 DEF StepsBy
  <2>2. CASE k # 0
    <3>1. h[k - 1] \in X /\ h[k] = F[h[k - 1]]
      BY <1>8, <2>2 DEF StepsBy
    <3> QED
      BY <1>6, <2>2, <3>1
  <2> QED
    BY <2>1, <2>2
<1>10. Fits1(h)
  <2>1. h = [k \in Nat |-> h[k]]
    OBVIOUS
  <2>2. h = [k \in Nat |-> IF k = 0 THEN floor ELSE next(h[k - 1])]
    BY <1>9, <2>1, Zenon
  <2> QED
    BY <1>1, <2>2, Zenon
<1>11. Fits1(g)
  <2> HIDE DEF Fits1
  <2> QED
    BY <1>3, <1>10, Zenon
<1>12. \A k \in Nat : g[k] = IF k = 0 THEN LowerQuotas(total, weights) ELSE next(g[k - 1])
  BY <1>11, Zenon
<1>13. SeatsOf(g, total, weights, turn)
  BY <1>1, <1>3, <1>12, Zenon DEF SeatsOf, next
<1> QED
  BY <1>13

\* splitCumulativeGrams gives out exactly the total it is given, and no seat
\* given ranks below one that was not.
THEOREM SplitIsFair ==
    ASSUME NEW D, IsFiniteSet(D), NEW weights \in [D -> Nat],
           NEW total \in Nat, SumFunction(weights) = 0 => total = 0,
           NEW turn, InTurns(D, turn)
    PROVE  Split(total, weights, turn) \in Seated(D, weights, turn, total)
<1>0. weights \in [D -> Int] /\ \A i \in D : weights[i] \in Nat
  OBVIOUS
<1>1. PICK sum \in Nat : /\ sum = SumFunction(weights) /\ sum = Total(weights, D)
                         /\ \A i \in D : weights[i] <= sum
  BY <1>0, TotalNat, TotalIsSum
<1>3. CASE sum = 0
  <2>1. Split(total, weights, turn) = weights /\ total = 0
    BY <1>1, <1>3 DEF Split
  <2>2. \A i \in D : weights[i] = 0
    BY <1>0, <1>1, <1>3
  <2>3. \A i \in D : ~(weights[i] > 0)
    BY <2>2
  <2>4. Fair(weights, D, weights, turn)
    BY <2>3 DEF Fair
  <2> QED
    BY <1>1, <1>3, <2>1, <2>4 DEF Seated
<1>4. CASE sum # 0
  <2>1. PICK n \in Nat : /\ LowerQuotas(total, weights) \in Seated(D, weights, turn, n)
                         /\ n <= total /\ SumFunction(LowerQuotas(total, weights)) = n
    BY <1>1, <1>4, QuotasAreFair
  <2>2. LowerQuotas(total, weights) \in [D -> Int]
    BY <2>1 DEF Seated
  <2>3. PICK g : SeatsOf(g, total, weights, turn)
    BY <1>1, <1>4, <2>2, SplitSeats
  <2>4. D # {}
    <3> SUFFICES ASSUME D = {} PROVE FALSE
      OBVIOUS
    <3>1. Total(weights, D) = 0
      BY TotalEmpty
    <3> QED
      BY <1>1, <1>4, <3>1
  <2>5. PICK X : X = [k \in Nat |-> Seated(D, weights, turn, n + k)]
    OBVIOUS
  <2>6. g[0] \in X[0]
    <3>1. n + 0 = n /\ 0 \in Nat
      OBVIOUS
    <3>2. X[0] = Seated(D, weights, turn, n)
      BY <2>5, <3>1
    <3> QED
      BY <2>1, <2>3, <3>1, <3>2 DEF SeatsOf
  <2>7. ASSUME NEW k \in Nat, k # 0, g[k - 1] \in X[k - 1] PROVE g[k] \in X[k]
    <3>1. k - 1 \in Nat /\ n + (k - 1) \in Nat /\ (n + (k - 1)) + 1 = n + k
      BY <2>7
    <3>2. g[k - 1] \in Seated(D, weights, turn, n + (k - 1))
      BY <2>5, <2>7, <3>1
    <3>3. NextSeat(g[k - 1], weights, turn) \in Seated(D, weights, turn, (n + (k - 1)) + 1)
      BY <2>4, <3>1, <3>2, NextSeatIsFair
    <3>4. g[k] = NextSeat(g[k - 1], weights, turn)
      BY <2>3, <2>7 DEF SeatsOf
    <3> QED
      BY <2>5, <3>1, <3>3, <3>4
  <2>8. \A k \in Nat : g[k] \in X[k]
    BY <2>6, <2>7, StepsKeep
  <2>9. total - n \in Nat /\ n + (total - n) = total
    BY <2>1
  <2>10. g[total - n] \in Seated(D, weights, turn, n + (total - n))
    BY <2>5, <2>8, <2>9
  <2>11. Split(total, weights, turn) = g[total - n]
    BY <2>1, <2>3 DEF SeatsOf
  <2> QED
    BY <2>9, <2>10, <2>11
<1> QED
  BY <1>3, <1>4

\* More seats, fairly given, are more seats for everybody: increasing the total
\* cannot reduce a part's entitlement.
LEMMA FairSeatsGrow ==
    ASSUME NEW D, IsFiniteSet(D), NEW weights \in [D -> Nat],
           NEW turn, InTurns(D, turn), NEW m \in Nat, NEW n \in Nat, m <= n,
           NEW x \in Seated(D, weights, turn, m), NEW y \in Seated(D, weights, turn, n)
    PROVE  \A i \in D : x[i] <= y[i]
<1>1. /\ x \in [D -> Nat] /\ Fair(x, D, weights, turn) /\ Total(x, D) = m
      /\ y \in [D -> Nat] /\ Fair(y, D, weights, turn) /\ Total(y, D) = n
  BY DEF Seated
<1> SUFFICES ASSUME NEW i \in D, ~(x[i] <= y[i]) PROVE FALSE
  OBVIOUS
<1>2. PICK j \in D : x[j] < y[j]
  <2> SUFFICES ASSUME \A j \in D : ~(x[j] < y[j]) PROVE FALSE
    OBVIOUS
  <2>1. \A j \in D : y[j] \in Int /\ x[j] \in Int /\ y[j] <= x[j]
    BY <1>1
  <2>2. y[i] < x[i]
    BY <1>1
  <2>3. Total(y, D) < Total(x, D)
    BY <2>1, <2>2, TotalLess
  <2> QED
    BY <1>1, <2>3
<1>3. PICK a, b, p, q, r, s \in Nat :
         /\ a = weights[i] /\ b = weights[j]
         /\ p = x[i] /\ q = x[j] /\ r = y[i] /\ s = y[j]
  BY <1>1
<1>4. p > r /\ q < s /\ p > 0 /\ s > 0 /\ r + 1 <= p /\ q + 1 <= s
  BY <1>1, <1>2, <1>3
<1>5. PICK ti, tj \in Int : ti = turn[i] /\ tj = turn[j] /\ (ti = tj => i = j)
  BY DEF InTurns
<1>6. a * (q + 1) > b * p \/ (a * (q + 1) = b * p /\ ti <= tj)
  BY <1>1, <1>3, <1>4, <1>5 DEF Fair, NoLater
<1>7. b * (r + 1) > a * s \/ (b * (r + 1) = a * s /\ tj <= ti)
  BY <1>1, <1>3, <1>4, <1>5 DEF Fair, NoLater
<1>8. b * (r + 1) <= b * p /\ a * (q + 1) <= a * s
  BY <1>4, Scale
<1>9. PICK e, f, g, h \in Int : e = a * (q + 1) /\ f = b * p /\ g = b * (r + 1) /\ h = a * s
  OBVIOUS
<1>10. (e > f \/ (e = f /\ ti <= tj)) /\ (g > h \/ (g = h /\ tj <= ti)) /\ g <= f /\ e <= h
  BY <1>6, <1>7, <1>8, <1>9
<1>11. ti = tj
  BY <1>10
<1>12. p = q /\ r = s
  BY <1>3, <1>5, <1>11
<1> QED
  BY <1>4, <1>12

\* Nobody gets more than its weight.
LEMMA SplitWithin ==
    ASSUME NEW D, IsFiniteSet(D), NEW weights \in [D -> Nat],
           NEW total \in 0 .. SumFunction(weights), NEW turn, InTurns(D, turn)
    PROVE  /\ Split(total, weights, turn) \in [D -> Nat]
           /\ Total(Split(total, weights, turn), D) = total
           /\ \A i \in D : Split(total, weights, turn)[i] <= weights[i]
<1>2. PICK sum \in Nat : sum = SumFunction(weights) /\ sum = Total(weights, D)
  <2>1. weights \in [D -> Int] /\ \A i \in D : weights[i] \in Nat
    OBVIOUS
  <2> QED
    BY <2>1, TotalNat, TotalIsSum
<1>1. PICK x : x = Split(total, weights, turn) /\ x \in Seated(D, weights, turn, total)
  <2>1. total \in Nat /\ (SumFunction(weights) = 0 => total = 0)
    BY <1>2
  <2> QED
    BY <2>1, SplitIsFair
<1>3. ASSUME NEW i \in D, NEW j \in D, weights[i] > 0
      PROVE  NoLater(i, weights[i], j, weights[j] + 1, weights, turn)
  <2>1. PICK a, b \in Nat : a = weights[i] /\ b = weights[j] /\ a > 0
    BY <1>3
  <2>2. b < b + 1 /\ b <= b + 1 /\ b + 1 \in Int
    OBVIOUS
  <2>3. a * b < a * (b + 1) /\ a * b = b * a
    BY <2>1, <2>2, Scale
  <2>4. a * (b + 1) > b * a
    BY <2>3
  <2> QED
    BY <2>1, <2>4 DEF NoLater
<1>4. weights \in Seated(D, weights, turn, sum)
  BY <1>2, <1>3 DEF Seated, Fair
<1>5. total \in Nat /\ total <= sum
  BY <1>2
<1>6. \A i \in D : x[i] <= weights[i]
  BY <1>1, <1>4, <1>5, FairSeatsGrow
<1> QED
  BY <1>1, <1>6 DEF Seated

-----------------------------------------------------------------------------
(* A layer's exact solids and its whole grams.                              *)

LEMMA HalfUpInOrder ==
    ASSUME NEW n \in Nat, NEW d \in Nat \ {0}
    PROVE  /\ HalfUp(n, d) \in Nat
           /\ \A e \in Nat : n <= d * e => HalfUp(n, d) <= e
           /\ \A m \in Nat : m <= n => HalfUp(m, d) <= HalfUp(n, d)
<1>1. \A k \in Nat : 2 * k + d \in Nat /\ HalfUp(k, d) = (2 * k + d) \div (2 * d)
  BY DEF HalfUp
<1>2. PICK c \in Nat \ {0} : c = 2 * d
  OBVIOUS
<1>3. ASSUME NEW k \in Nat
      PROVE  /\ HalfUp(k, d) \in Nat /\ c * HalfUp(k, d) <= 2 * k + d
             /\ 2 * k + d < c * (HalfUp(k, d) + 1)
  <2>1. PICK v \in Nat : v = 2 * k + d
    OBVIOUS
  <2>2. \A i \in Nat : \A j \in Nat \ {0} : i \div j \in Nat
    OBVIOUS
  <2>3. HalfUp(k, d) = v \div c
    BY <1>1, <1>2, <2>1
  <2>4. v \div c \in Nat
    BY <2>2
  <2>5. c * (v \div c) <= v /\ v < c * (v \div c + 1)
    BY Quotients
  <2> QED
    BY <2>1, <2>3, <2>4, <2>5
<1>4. ASSUME NEW e \in Nat, n <= d * e PROVE HalfUp(n, d) <= e
  <2>1. PICK q \in Nat : q = HalfUp(n, d)
    BY <1>3
  <2>2. c * q <= 2 * n + d
    BY <1>3, <2>1
  <2>3. 2 * n + d < c * (e + 1)
    <3>1. c * (e + 1) = 2 * (d * e) + 2 * d
      BY <1>2
    <3>2. PICK x \in Int : x = d * e
      OBVIOUS
    <3>3. n <= x /\ c * (e + 1) = 2 * x + 2 * d
      BY <1>4, <3>1, <3>2
    <3> QED
      BY <3>3
  <2>4. c * q \in Int /\ c * (e + 1) \in Int /\ e + 1 \in Int
    OBVIOUS
  <2>5. c * q < c * (e + 1)
    BY <2>2, <2>3, <2>4
  <2>6. q < e + 1
    BY <2>4, <2>5, Cancel
  <2> QED
    BY <2>1, <2>6
<1>5. ASSUME NEW m \in Nat, m <= n PROVE HalfUp(m, d) <= HalfUp(n, d)
  <2>1. PICK p, q \in Nat : p = HalfUp(m, d) /\ q = HalfUp(n, d)
    BY <1>3
  <2>2. c * p <= 2 * m + d /\ 2 * n + d < c * (q + 1)
    BY <1>3, <2>1
  <2>3. c * p \in Int /\ c * (q + 1) \in Int /\ q + 1 \in Int
    OBVIOUS
  <2>4. c * p < c * (q + 1)
    BY <1>5, <2>2, <2>3
  <2>5. p < q + 1
    BY <2>3, <2>4, Cancel
  <2> QED
    BY <2>1, <2>5
<1> QED
  BY <1>3, <1>4, <1>5

\* The turns of a layer's runs are their places in its provenance.
RunTurns(l) == [i \in DOMAIN Provenance[l] |-> i]

LEMMA LayerIs ==
    ASSUME NEW l \in Layers
    PROVE  /\ IsFiniteSet(DOMAIN Provenance[l]) /\ InTurns(DOMAIN Provenance[l], RunTurns(l))
           /\ Provenance[l] \in [DOMAIN Provenance[l] -> Nat]
           /\ Established[l] \in Nat /\ Whole[l] \in Nat
           /\ Established[l] = SumFunction(Provenance[l])
           /\ Established[l] = Total(Provenance[l], DOMAIN Provenance[l])
           /\ Ratio[l] * Parts \in Nat \ {0}
           /\ Whole[l] = (Ratio[l] * Parts) * Established[l]
<1>1. PICK p \in Seq(Nat \ {0}) : p = Provenance[l]
  BY PlannerAssumption
<1>2. PICK n \in Nat : DOMAIN p = 1 .. n /\ n = Len(p)
  BY LenProperties
<1>3. p \in [1 .. n -> Nat \ {0}]
  BY <1>2, LenProperties
<1>4. IsFiniteSet(1 .. n)
  BY FS_Interval
<1>5. p \in [1 .. n -> Int] /\ \A i \in 1 .. n : p[i] \in Nat
  BY <1>3
<1>6. Total(p, 1 .. n) \in Nat /\ SumFunction(p) = Total(p, 1 .. n)
  BY <1>4, <1>5, TotalNat, TotalIsSum
<1>7. Established[l] = SumFunction(p)
  BY <1>1 DEF Established
<1>8. Ratio[l] \in Nat \ {0} /\ Parts \in Nat \ {0}
  BY PlannerAssumption
<1>9. PICK r, k \in Nat \ {0}, e \in Nat : r = Ratio[l] /\ k = Parts /\ e = Established[l]
  BY <1>6, <1>7, <1>8
<1>10. Whole[l] = (k * r) * e
  BY <1>9 DEF Whole
<1>11. r * k \in Nat \ {0} /\ (k * r) * e = (r * k) * e /\ (k * r) * e \in Nat
  OBVIOUS
<1>12. InTurns(1 .. n, RunTurns(l))
  <2>1. \A i \in 1 .. n : RunTurns(l)[i] = i
    BY <1>1, <1>2 DEF RunTurns
  <2> QED
    BY <2>1 DEF InTurns
<1>13. p \in [DOMAIN p -> Nat]
  BY <1>2, <1>5
<1> QED
  BY <1>1, <1>2, <1>4, <1>6, <1>7, <1>9, <1>10, <1>11, <1>12, <1>13

\* The cumulative shares of a layer's runs sum to the grams that are gone, stay
\* within what each run brought, and never shrink as more of the layer goes.
THEOREM SharesOfRuns ==
    ASSUME NEW l \in Layers, NEW g \in 0 .. Established[l]
    PROVE  /\ RunShares[l][g] \in [DOMAIN Provenance[l] -> Nat]
           /\ Total(RunShares[l][g], DOMAIN Provenance[l]) = g
           /\ \A i \in DOMAIN Provenance[l] : RunShares[l][g][i] <= Provenance[l][i]
           /\ \A h \in 0 .. g : \A i \in DOMAIN Provenance[l] :
                 RunShares[l][h][i] <= RunShares[l][g][i]
<1>1. PICK D, p, e, turn : /\ D = DOMAIN Provenance[l] /\ p = Provenance[l]
                           /\ e = Established[l] /\ turn = RunTurns(l)
  OBVIOUS
<1>2. /\ IsFiniteSet(D) /\ InTurns(D, turn) /\ p \in [D -> Nat] /\ e \in Nat
      /\ e = SumFunction(p)
  BY <1>1, LayerIs
<1>3. \A h \in 0 .. e : RunShares[l][h] = Split(h, p, turn)
  BY <1>1 DEF RunShares, RunTurns
<1>4. ASSUME NEW h \in 0 .. e
      PROVE  /\ RunShares[l][h] \in Seated(D, p, turn, h)
             /\ \A i \in D : RunShares[l][h][i] <= p[i]
  <2>1. h \in 0 .. SumFunction(p) /\ h \in Nat /\ (SumFunction(p) = 0 => h = 0)
    BY <1>2
  <2>2. Split(h, p, turn) \in Seated(D, p, turn, h)
    BY <1>2, <2>1, SplitIsFair
  <2>3. \A i \in D : Split(h, p, turn)[i] <= p[i]
    BY <1>2, <2>1, SplitWithin
  <2> QED
    BY <1>3, <2>2, <2>3
<1>5. g \in 0 .. e /\ g \in Nat
  BY <1>1, <1>2
<1>6. ASSUME NEW h \in 0 .. g PROVE \A i \in D : RunShares[l][h][i] <= RunShares[l][g][i]
  <2>1. h \in 0 .. e /\ h \in Nat /\ h <= g
    BY <1>2, <1>5
  <2>2. RunShares[l][h] \in Seated(D, p, turn, h) /\ RunShares[l][g] \in Seated(D, p, turn, g)
    BY <1>4, <1>5, <2>1
  <2> QED
    BY <1>2, <1>5, <2>1, <2>2, FairSeatsGrow
<1> QED
  BY <1>1, <1>4, <1>5, <1>6 DEF Seated

\* What is left of a layer is what its solids say: its grams are the rounded
\* ones, and each run has what its share of the grams gone has left it.
OnCurve(l, stock) ==
    /\ stock.solids \in 0 .. Whole[l]
    /\ stock.dry = DryLeft(l, stock.solids)
    /\ stock.runs = [i \in DOMAIN Provenance[l] |->
                        Provenance[l][i] - RunShares[l][Established[l] - stock.dry][i]]

LEMMA DryLeftInOrder ==
    ASSUME NEW l \in Layers, NEW s \in 0 .. Whole[l]
    PROVE  /\ DryLeft(l, s) \in 0 .. Established[l]
           /\ Established[l] - DryLeft(l, s) \in 0 .. Established[l]
           /\ \A t \in 0 .. s : DryLeft(l, t) <= DryLeft(l, s)
<1>1. PICK e, w \in Nat, d \in Nat \ {0} :
          e = Established[l] /\ w = Whole[l] /\ d = Ratio[l] * Parts /\ w = d * e
  BY LayerIs
<1>2. \A t : DryLeft(l, t) = e - HalfUp(w - t, d)
  BY <1>1 DEF DryLeft
<1>3. ASSUME NEW t \in 0 .. w PROVE HalfUp(w - t, d) \in Nat /\ HalfUp(w - t, d) <= e
  <2>1. w - t \in Nat /\ w - t <= d * e
    BY <1>1
  <2> QED
    BY <2>1, HalfUpInOrder
<1>4. s \in 0 .. w /\ s \in Nat /\ w - s \in Nat
  BY <1>1
<1>5. ASSUME NEW t \in 0 .. s PROVE DryLeft(l, t) <= DryLeft(l, s)
  <2>1. t \in 0 .. w /\ w - t \in Nat /\ w - s <= w - t
    BY <1>4
  <2>2. HalfUp(w - s, d) <= HalfUp(w - t, d)
    BY <1>4, <2>1, HalfUpInOrder
  <2>3. HalfUp(w - s, d) \in Nat /\ HalfUp(w - t, d) \in Nat
    BY <1>3, <1>4, <2>1
  <2> QED
    BY <1>2, <2>2, <2>3
<1>6. HalfUp(w - s, d) \in Nat /\ HalfUp(w - s, d) <= e
  BY <1>3, <1>4
<1>7. DryLeft(l, s) \in 0 .. e /\ e - DryLeft(l, s) \in 0 .. e
  BY <1>2, <1>6
<1> QED
  BY <1>1, <1>5, <1>7

\* Such a layer passes the planner's checks.
LEMMA CurveIsSound ==
    ASSUME NEW l \in Layers, NEW stock, OnCurve(l, stock)
    PROVE  /\ Sound(l, stock) /\ stock.solids \in Nat /\ stock.dry \in Nat
           /\ \A i \in DOMAIN Provenance[l] : stock.runs[i] \in Nat
<1>0. PICK e \in Nat : e = Established[l]
  BY LayerIs
<1>1. PICK D, p : e = Established[l] /\ D = DOMAIN Provenance[l] /\ p = Provenance[l]
  BY <1>0
<1>2. IsFiniteSet(D) /\ p \in [D -> Nat] /\ e = Total(p, D) /\ Whole[l] \in Nat
  BY <1>1, LayerIs
<1>3. stock.dry \in 0 .. e /\ e - stock.dry \in 0 .. e
  BY <1>1, DryLeftInOrder DEF OnCurve
<1>4. PICK g, share : g = e - stock.dry /\ share = RunShares[l][g]
  OBVIOUS
<1>5. /\ share \in [D -> Nat] /\ Total(share, D) = g
      /\ \A i \in D : share[i] <= p[i]
  BY <1>1, <1>3, <1>4, SharesOfRuns
<1>6. stock.runs = [i \in D |-> p[i] - share[i]]
  BY <1>1, <1>4 DEF OnCurve
<1>7. \A i \in D : stock.runs[i] \in 0 .. p[i] /\ stock.runs[i] \in Nat
  BY <1>2, <1>5, <1>6
<1>8. stock.runs \in [D -> Int]
  BY <1>6, <1>7
<1>9. Total(p, D) = Total(stock.runs, D) + Total(share, D)
  <2>1. \A i \in D : stock.runs[i] \in Int /\ share[i] \in Int /\ p[i] = stock.runs[i] + share[i]
    BY <1>2, <1>5, <1>6
  <2> QED
    BY <1>2, <2>1, TotalPlus
<1>10. Total(stock.runs, D) \in Int
  BY <1>2, <1>7, TotalNat
<1>11. SumFunction(stock.runs) = stock.dry
  <2>1. SumFunction(stock.runs) = Total(stock.runs, D)
    BY <1>8, TotalIsSum
  <2>2. stock.dry \in Int /\ e = Total(stock.runs, D) + (e - stock.dry)
    BY <1>2, <1>3, <1>4, <1>5, <1>9
  <2> QED
    BY <1>10, <2>1, <2>2
<1>12. DOMAIN stock.runs = D
  BY <1>6
<1>13. stock.solids \in 0 .. Whole[l] /\ DryLeft(l, stock.solids) = stock.dry
  BY DEF OnCurve
<1>14. \A i \in DOMAIN stock.runs : stock.runs[i] \in 0 .. Provenance[l][i]
  BY <1>1, <1>7, <1>12
<1>15. Sound(l, stock)
  BY Zenon, <1>1, <1>3, <1>11, <1>13, <1>14 DEF Sound
<1>16. stock.solids \in Nat /\ stock.dry \in Nat
  BY <1>2, <1>3, <1>13
<1> QED
  BY <1>1, <1>7, <1>15, <1>16

\* What is left of a stock when a draw is taken from it.
After(l, stock, draw) ==
    [solids |-> stock.solids - draw.solids, dry |-> stock.dry - draw.dry,
     runs |-> [i \in DOMAIN Provenance[l] |-> stock.runs[i] - draw.runs[i]]]

\* Whatever solids are drawn from a layer whose grams are what its solids say,
\* each run has the grams its share asks of it, and the rest is such a layer.
THEOREM CurveTake ==
    ASSUME NEW l \in Layers, NEW stock, OnCurve(l, stock), NEW solids \in 0 .. stock.solids
    PROVE  /\ Covered(l, stock, Take(l, stock, solids))
           /\ OnCurve(l, After(l, stock, Take(l, stock, solids)))
           /\ Take(l, stock, solids).solids = solids
           /\ Take(l, stock, solids).dry \in Nat
           /\ Take(l, stock, solids).runs \in [DOMAIN Provenance[l] -> Nat]
<1>0. PICK e, w \in Nat : e = Established[l] /\ w = Whole[l]
  BY LayerIs
<1>1. PICK D, p : /\ e = Established[l] /\ w = Whole[l]
                  /\ D = DOMAIN Provenance[l] /\ p = Provenance[l]
  BY <1>0
<1>2. p \in [D -> Nat]
  BY <1>1, LayerIs
<1>3. PICK s, rest \in 0 .. w : s = stock.solids /\ rest = s - solids /\ rest \in 0 .. s
  BY <1>1 DEF OnCurve
<1>4. PICK had, left \in 0 .. e : /\ had = stock.dry /\ left = DryLeft(l, rest)
                                  /\ left <= had /\ had = DryLeft(l, s)
  <2>1. DryLeft(l, s) \in 0 .. e /\ DryLeft(l, rest) \in 0 .. e /\ DryLeft(l, rest) <= DryLeft(l, s)
    BY <1>1, <1>3, DryLeftInOrder
  <2> QED
    BY <1>3, <2>1 DEF OnCurve
<1>5. e - left \in 0 .. e /\ e - had \in 0 .. e - left /\ had - left \in Nat /\ had - (had - left) = left
  BY <1>4
<1>6. PICK f, g : f = RunShares[l][e - had] /\ g = RunShares[l][e - left]
  OBVIOUS
<1>7. /\ f \in [D -> Nat] /\ g \in [D -> Nat]
      /\ \A i \in D : f[i] <= g[i] /\ g[i] <= p[i]
  <2>1. e - had \in 0 .. e
    OBVIOUS
  <2> QED
    BY <1>1, <1>5, <1>6, <2>1, SharesOfRuns
<1>8. stock.runs = [i \in D |-> p[i] - f[i]]
  BY <1>1, <1>4, <1>6 DEF OnCurve
<1>9. PICK draw : draw = Take(l, stock, solids)
  OBVIOUS
<1>10. draw = [solids |-> solids, dry |-> had - left,
               runs |-> [i \in D |-> g[i] - (p[i] - stock.runs[i])]]
  <2>1. DOMAIN g = D
    BY <1>7
  <2> QED
    BY <1>1, <1>3, <1>4, <1>6, <1>9, <2>1 DEF Take
<1>11. /\ draw.solids = solids /\ draw.dry = had - left
       /\ DOMAIN draw.runs = D
       /\ \A i \in D : draw.runs[i] = g[i] - (p[i] - stock.runs[i])
  BY <1>10
<1>12. \A i \in D : /\ draw.runs[i] \in Nat /\ draw.runs[i] \in 0 .. stock.runs[i]
                    /\ draw.runs[i] = g[i] - f[i]
                    /\ stock.runs[i] - draw.runs[i] = p[i] - g[i]
  <2> SUFFICES ASSUME NEW i \in D
               PROVE  /\ draw.runs[i] \in Nat /\ draw.runs[i] \in 0 .. stock.runs[i]
                      /\ draw.runs[i] = g[i] - f[i]
                      /\ stock.runs[i] - draw.runs[i] = p[i] - g[i]
    OBVIOUS
  <2>1. PICK x, y, z \in Nat : x = f[i] /\ y = g[i] /\ z = p[i] /\ x <= y /\ y <= z
    BY <1>2, <1>7
  <2>2. stock.runs[i] = z - x
    BY <1>8, <2>1
  <2>3. draw.runs[i] = y - (z - (z - x))
    BY <1>11, <2>1, <2>2
  <2>4. y - (z - (z - x)) = y - x /\ y - x \in Nat /\ y - x \in 0 .. z - x /\ (z - x) - (y - x) = z - y
    BY <2>1
  <2> QED
    BY <2>1, <2>2, <2>3, <2>4
<1>13. draw.runs \in [D -> Nat]
  <2>1. draw.runs = [i \in D |-> g[i] - (p[i] - stock.runs[i])]
    BY <1>10
  <2> QED
    BY <1>11, <1>12, <2>1
<1>14. Covered(l, stock, draw)
  <2>1. stock.dry - draw.dry = left
    BY <1>4, <1>5, <1>11
  <2> QED
    BY <1>1, <1>11, <1>12, <2>1 DEF Covered
<1>15. OnCurve(l, After(l, stock, draw))
  <2>1. PICK st : st = After(l, stock, draw)
    OBVIOUS
  <2>2. st.solids = rest /\ st.dry = left
        /\ st.runs = [i \in D |-> stock.runs[i] - draw.runs[i]]
    BY <1>1, <1>3, <1>4, <1>5, <1>11, <2>1 DEF After
  <2>3. st.runs = [i \in D |-> p[i] - g[i]]
    BY <1>12, <2>2
  <2> QED
    BY <1>1, <1>3, <1>4, <1>6, <2>1, <2>2, <2>3 DEF OnCurve
<1> QED
  BY <1>1, <1>5, <1>9, <1>11, <1>13, <1>14, <1>15

\* An untouched layer.
LEMMA WholeIsOnCurve ==
    ASSUME NEW l \in Layers, NEW stock, stock.solids = Whole[l],
           stock.dry = Established[l],
           stock.runs = [i \in DOMAIN Provenance[l] |-> Provenance[l][i]]
    PROVE  OnCurve(l, stock)
<1>0. PICK e, w \in Nat, d \in Nat \ {0} :
          e = Established[l] /\ w = Whole[l] /\ d = Ratio[l] * Parts
  BY LayerIs
<1>1. PICK D, p : /\ e = Established[l] /\ w = Whole[l] /\ d = Ratio[l] * Parts
                  /\ D = DOMAIN Provenance[l] /\ p = Provenance[l]
  BY <1>0
<1>2. IsFiniteSet(D) /\ p \in [D -> Nat] /\ w \in 0 .. w
  BY <1>1, LayerIs
<1>3. DryLeft(l, w) = e
  <2>1. HalfUp(0, d) \in Nat /\ HalfUp(0, d) <= 0
    <3>1. \A n \in Nat : HalfUp(n, d) \in Nat /\ \A x \in Nat : n <= d * x => HalfUp(n, d) <= x
      BY HalfUpInOrder
    <3>2. 0 \in Nat /\ 0 <= d * 0
      OBVIOUS
    <3> QED
      BY <3>1, <3>2
  <2>2. w - w = 0
    OBVIOUS
  <2>3. DryLeft(l, w) = e - HalfUp(0, d)
    BY <1>1, <2>2 DEF DryLeft
  <2> QED
    BY <2>1, <2>3
<1>4. e - e \in 0 .. e /\ e - e = 0
  OBVIOUS
<1>5. PICK share : share = RunShares[l][e - e]
  OBVIOUS
<1>6. share \in [D -> Nat] /\ Total(share, D) = 0
  BY <1>1, <1>4, <1>5, SharesOfRuns
<1>7. \A i \in D : share[i] = 0
  <2>1. \A i \in D : share[i] <= Total(share, D)
    BY <1>2, <1>6, TotalNat
  <2> QED
    BY <1>6, <2>1
<1>8. [i \in D |-> p[i]] = [i \in D |-> p[i] - share[i]]
  BY <1>2, <1>7
<1> QED
  BY <1>1, <1>2, <1>3, <1>5, <1>8 DEF OnCurve

-----------------------------------------------------------------------------
(* Apportioning under caps.                                                 *)

LEMMA LeastIs ==
    ASSUME NEW m \in Int, NEW n \in Int
    PROVE  /\ Least(m, n) \in Int /\ Least(m, n) <= m /\ Least(m, n) <= n
           /\ Least(m, n) \in {m, n}
           /\ m \in Nat /\ n \in Nat => Least(m, n) \in Nat
BY DEF Least

\* What a round starts from and comes to.
Rounds(D, caps) ==
    {r \in [shares : [D -> Nat], left : Nat] : \A i \in D : r.shares[i] <= caps[i]}

LEMMA RoundStays ==
    ASSUME NEW D, IsFiniteSet(D), NEW weights \in [D -> Nat], NEW caps \in [D -> Nat],
           NEW turn, InTurns(D, turn), NEW r \in Rounds(D, caps)
    PROVE  Round(r, weights, caps, turn) \in Rounds(D, caps)
<1>1. PICK open \in SUBSET D :
          open = {i \in DOMAIN weights : weights[i] > 0 /\ r.shares[i] < caps[i]}
  OBVIOUS
<1>2. PICK w : w = [i \in open |-> weights[i]]
  OBVIOUS
<1>3. PICK split : split = Split(r.left, w, turn)
  OBVIOUS
<1>4. PICK given : given = [i \in open |-> Least(split[i], caps[i] - r.shares[i])]
  OBVIOUS
<1>5. /\ IsFiniteSet(open) /\ r.left \in Nat /\ r.shares \in [D -> Nat]
      /\ r = [shares |-> r.shares, left |-> r.left] /\ \A i \in D : r.shares[i] <= caps[i]
  BY FS_Subset DEF Rounds
<1>6. PICK shares : shares = [i \in DOMAIN weights |->
                        r.shares[i] + IF i \in open THEN given[i] ELSE 0]
  OBVIOUS
<1>7. Round(r, weights, caps, turn) =
          IF r.left = 0 \/ open = {} THEN r
          ELSE [shares |-> shares, left |-> r.left - SumFunction(given)]
  BY <1>1, <1>2, <1>3, <1>4, <1>6, Zenon DEF Round
<1>8. CASE r.left = 0 \/ open = {}
  BY <1>7, <1>8
<1>9. CASE r.left # 0 /\ open # {}
  <2>1. w \in [open -> Nat] /\ InTurns(open, turn)
    BY <1>2 DEF InTurns
  <2>2. SumFunction(w) # 0
    <3>1. PICK i \in open : w[i] > 0
      BY <1>1, <1>2, <1>9
    <3>2. w \in [open -> Int] /\ \A x \in open : w[x] \in Nat
      BY <2>1
    <3>3. w[i] <= Total(w, open) /\ SumFunction(w) = Total(w, open) /\ Total(w, open) \in Nat
      BY <1>5, <3>2, TotalNat, TotalIsSum
    <3> QED
      BY <3>1, <3>2, <3>3
  <2>3. split \in Seated(open, w, turn, r.left)
    BY <1>3, <1>5, <2>1, <2>2, SplitIsFair
  <2>4. split \in [open -> Nat] /\ Total(split, open) = r.left
    BY <2>3 DEF Seated
  <2>5. ASSUME NEW i \in open
        PROVE  /\ given[i] \in Nat /\ given[i] <= split[i]
               /\ r.shares[i] + given[i] <= caps[i]
    <3>1. PICK x, y, z \in Nat : x = split[i] /\ y = caps[i] /\ z = r.shares[i] /\ z <= y
      BY <1>5, <2>4
    <3>2. given[i] = Least(x, y - z) /\ y - z \in Nat
      BY <1>4, <3>1
    <3>3. given[i] \in Nat /\ given[i] <= x /\ given[i] <= y - z
      BY <3>2, LeastIs
    <3> QED
      BY <3>1, <3>2, <3>3
  <2>6. DOMAIN given = open
    BY <1>4
  <2>7. given \in [open -> Int]
    BY <1>4, <2>5
  <2>8. SumFunction(given) = Total(given, open) /\ Total(given, open) \in Nat
    BY <1>5, <2>5, <2>7, TotalNat, TotalIsSum
  <2>9. Total(given, open) <= Total(split, open)
    <3>1. \A i \in open : given[i] \in Int /\ split[i] \in Int /\ given[i] <= split[i]
      BY <2>4, <2>5
    <3> QED
      BY <1>5, <3>1, TotalLess
  <2>10. r.left - SumFunction(given) \in Nat
    BY <1>5, <2>4, <2>8, <2>9
  <2>11. ASSUME NEW i \in D PROVE shares[i] \in Nat /\ shares[i] <= caps[i]
    <3>1. CASE i \in open
      <4>1. shares[i] = r.shares[i] + given[i]
        BY <1>6, <3>1
      <4>2. r.shares[i] \in Nat /\ given[i] \in Nat
        BY <1>5, <2>5, <3>1
      <4> QED
        BY <2>5, <3>1, <4>1, <4>2
    <3>2. CASE i \notin open
      <4>1. shares[i] = r.shares[i] + 0 /\ r.shares[i] \in Nat
        BY <1>5, <1>6, <3>2
      <4> QED
        BY <1>5, <4>1
    <3> QED
      BY <3>1, <3>2
  <2>12. shares \in [D -> Nat]
    <3>1. shares = [i \in D |-> r.shares[i] + IF i \in open THEN given[i] ELSE 0]
      BY <1>6
    <3>2. shares = [i \in D |-> shares[i]]
      BY <3>1
    <3> QED
      BY <2>11, <3>2
  <2>13. PICK q : q = [shares |-> shares, left |-> r.left - SumFunction(given)]
    OBVIOUS
  <2>14. q \in [shares : [D -> Nat], left : Nat] /\ q.shares = shares
    BY <2>10, <2>12, <2>13
  <2>15. q \in Rounds(D, caps)
    BY <2>11, <2>14 DEF Rounds
  <2> QED
    BY <1>7, <1>9, <2>13, <2>15
<1> QED
  BY <1>8, <1>9

LEMMA ApportionIsChosen ==
    ASSUME NEW total, NEW weights, NEW caps, NEW turn
    PROVE  Apportion(total, weights, caps, turn) =
             (CHOOSE g : g = [k \in Nat |->
                 IF k = 0 THEN [shares |-> [i \in DOMAIN weights |-> 0], left |-> total]
                 ELSE Round(g[k - 1], weights, caps, turn)])
             [Cardinality(DOMAIN weights)].shares
BY Zenon DEF Apportion

\* Nobody gets more than its cap.
LEMMA ApportionFits ==
    ASSUME NEW D, IsFiniteSet(D), NEW weights \in [D -> Nat], NEW caps \in [D -> Nat],
           NEW total \in Nat, NEW turn, InTurns(D, turn)
    PROVE  /\ Apportion(total, weights, caps, turn) \in [D -> Nat]
           /\ \A i \in D : Apportion(total, weights, caps, turn)[i] <= caps[i]
<1>1. PICK b : b = [shares |-> [i \in DOMAIN weights |-> 0], left |-> total]
  OBVIOUS
<1>2. PICK n : n = Cardinality(DOMAIN weights)
  OBVIOUS
<1>3. n \in Nat
  BY <1>2, FS_CardinalityType
<1> DEFINE next(r) == Round(r, weights, caps, turn)
           Fits1(g) == g = [k \in Nat |->
               IF k = 0 THEN [shares |-> [i \in DOMAIN weights |-> 0], left |-> total]
               ELSE next(g[k - 1])]
<1>4. PICK g : g = (CHOOSE it : Fits1(it)) /\ Apportion(total, weights, caps, turn) = g[n].shares
  BY <1>2, ApportionIsChosen
<1>5. PICK X : X = Rounds(D, caps)
  OBVIOUS
<1>6. \A r \in X : next(r) \in X
  BY <1>5, RoundStays
<1> HIDE DEF next
<1>7. PICK F : F = [r \in X |-> next(r)]
  OBVIOUS
<1>8. F \in [X -> X] /\ b \in X
  <2>1. b \in X
    <3>1. b.shares = [i \in D |-> 0] /\ b.left = total
      BY <1>1
    <3>2. b \in [shares : [D -> Nat], left : Nat] /\ \A i \in D : b.shares[i] <= caps[i]
      BY <1>1, <3>1
    <3> QED
      BY <1>5, <3>2 DEF Rounds
  <2> QED
    BY <1>6, <1>7, <2>1
<1>9. PICK h \in [Nat -> X] : StepsBy(h, b, F)
  BY <1>8, StepsExist
<1>10. ASSUME NEW k \in Nat PROVE h[k] = IF k = 0 THEN b ELSE next(h[k - 1])
  <2>1. CASE k = 0
    BY <1>9, <2>1 DEF StepsBy
  <2>2. CASE k # 0
    <3>1. h[k - 1] \in X /\ h[k] = F[h[k - 1]]
      BY <1>9, <2>2 DEF StepsBy
    <3> QED
      BY <1>7, <2>2, <3>1
  <2> QED
    BY <2>1, <2>2
<1>11. Fits1(h)
  <2>1. h = [k \in Nat |-> h[k]]
    OBVIOUS
  <2>2. h = [k \in Nat |-> IF k = 0 THEN b ELSE next(h[k - 1])]
    BY <1>10, <2>1, Zenon
  <2> QED
    BY <1>1, <2>2, Zenon
<1>12. Fits1(g)
  <2> HIDE DEF Fits1
  <2> QED
    BY <1>4, <1>11, Zenon
<1>13. \A k \in Nat : g[k] = IF k = 0 THEN b ELSE next(g[k - 1])
  BY <1>1, <1>12, Zenon
<1>14. PICK Y : Y = [k \in Nat |-> X]
  OBVIOUS
<1>15. \A k \in Nat : Y[k] = X
  BY <1>14
<1>16. g[0] \in Y[0] /\ \A k \in Nat : k # 0 /\ g[k - 1] \in Y[k - 1] => g[k] \in Y[k]
  <2>1. \A k \in Nat : k # 0 => k - 1 \in Nat
    OBVIOUS
  <2> QED
    BY <1>6, <1>8, <1>13, <1>15, <2>1
<1>17. g[n] \in X
  BY <1>3, <1>15, <1>16, StepsKeep
<1>18. /\ g[n].shares \in [D -> Nat]
       /\ \A i \in D : g[n].shares[i] <= caps[i]
  BY <1>5, <1>17 DEF Rounds
<1> QED
  BY <1>4, <1>18

-----------------------------------------------------------------------------
(* The product of the ratios is a common multiple that is not zero.         *)

ProductOf(f) == FoldFunction(LAMBDA a, b : a * b, 1, f)

LEMMA ProductIsChosen ==
    ASSUME NEW f
    PROVE  ProductOf(f) =
             (CHOOSE g : g = [s \in SUBSET DOMAIN f |->
                 IF s = {} THEN 1 ELSE f[AnyOf(s)] * g[s \ {AnyOf(s)}]])[DOMAIN f]
BY Zenon DEF ProductOf, FoldFunction, FoldFunctionOnSet, MapThenFoldSet, AnyOf

LEMMA ProductType ==
    ASSUME NEW D, IsFiniteSet(D), NEW f \in [D -> Nat \ {0}]
    PROVE  ProductOf(f) \in Nat \ {0}
<1>1. PICK X : X = Nat \ {0}
  OBVIOUS
<1>2. 1 \in X /\ \A v, w \in X : v * w \in X
  BY <1>1
<1>3. PICK F : F = [x \in D |-> [v \in X |-> f[x] * v]]
  OBVIOUS
<1>4. F \in [D -> [X -> X]]
  BY <1>1, <1>2, <1>3
<1>5. PICK h \in [SUBSET D -> X] : FoldsBy(h, D, 1, F)
  <2>1. \A b \in X : \A G \in [D -> [X -> X]] : \E k \in [SUBSET D -> X] : FoldsBy(k, D, b, G)
    BY FoldExists
  <2> QED
    BY <1>2, <1>4, <2>1, Zenon
<1>6. ASSUME NEW s \in SUBSET D, s # {}
      PROVE  \E x \in D, t \in SUBSET D : x = AnyOf(s) /\ t = s \ {AnyOf(s)}
  BY <1>6, AnyOfIsIn
<1>7. ASSUME NEW s \in SUBSET D
      PROVE  h[s] = IF s = {} THEN 1 ELSE f[AnyOf(s)] * h[s \ {AnyOf(s)}]
  <2>1. CASE s = {}
    BY <1>5, <2>1 DEF FoldsBy
  <2>2. CASE s # {}
    <3>1. PICK x \in D, t \in SUBSET D : x = AnyOf(s) /\ t = s \ {AnyOf(s)}
      BY <1>6, <2>2
    <3>2. h[s] = F[x][h[t]] /\ h[t] \in X
      BY <1>5, <2>2, <3>1 DEF FoldsBy
    <3>3. h[s] = f[x] * h[t]
      BY <1>3, <3>2
    <3> QED
      BY <2>2, <3>1, <3>3
  <2> QED
    BY <2>1, <2>2
<1> DEFINE Fits1(g) == g = [s \in SUBSET D |->
               IF s = {} THEN 1 ELSE f[AnyOf(s)] * g[s \ {AnyOf(s)}]]
<1>8. Fits1(h)
  <2>1. h = [s \in SUBSET D |-> h[s]]
    OBVIOUS
  <2> QED
    BY <1>7, <2>1, Zenon
<1>9. PICK g : g = (CHOOSE it : Fits1(it)) /\ ProductOf(f) = g[D]
  <2>1. DOMAIN f = D
    OBVIOUS
  <2> QED
    BY <2>1, ProductIsChosen, Zenon
<1>10. Fits1(g)
  <2> HIDE DEF Fits1
  <2> QED
    BY <1>8, <1>9, Zenon
<1>11. \A s \in SUBSET D : g[s] = IF s = {} THEN 1 ELSE f[AnyOf(s)] * g[s \ {AnyOf(s)}]
  BY <1>10, Zenon
<1> DEFINE fails == {s \in SUBSET D : g[s] \notin X}
<1>12. fails = {}
  <2> SUFFICES ASSUME fails # {} PROVE FALSE
    OBVIOUS
  <2>1. PICK s \in fails : \A x \in s : s \ {x} \notin fails
    <3>1. fails \in SUBSET SUBSET D
      OBVIOUS
    <3> HIDE DEF fails
    <3> QED
      BY <3>1, SmallestSet
  <2>2. s \in SUBSET D /\ g[s] \notin X /\ s # {}
    BY <1>2, <1>11
  <2>3. PICK x \in s, t \in SUBSET D : x = AnyOf(s) /\ t = s \ {AnyOf(s)}
    BY <1>6, <2>2, AnyOfIsIn
  <2>4. g[t] \in X /\ f[x] \in X
    BY <1>1, <2>1, <2>2, <2>3
  <2>5. g[s] = f[x] * g[t]
    BY <1>11, <2>2, <2>3
  <2> QED
    BY <1>2, <2>2, <2>4, <2>5
<1>13. D \in SUBSET D
  OBVIOUS
<1>14. g[D] \in X
  BY <1>12, <1>13
<1> QED
  BY <1>1, <1>9, <1>14

-----------------------------------------------------------------------------
(* The order of the layers.                                                 *)

\* m is drawn before l.
Before(policy, m, l) == IF policy = "lifo" THEN Older(l, m) ELSE Older(m, l)

LEMMA DrawnInOrder ==
    ASSUME NEW policy, NEW l \in Layers, NEW m \in Layers
    PROVE  /\ ~Before(policy, l, l)
           /\ l = m \/ Before(policy, l, m) \/ Before(policy, m, l)
           /\ ~(Before(policy, l, m) /\ Before(policy, m, l))
           /\ \A k \in Layers : Before(policy, k, l) /\ Before(policy, l, m) => Before(policy, k, m)
<1>1. \A k \in Layers : k \in Nat /\ Placed[k] \in Nat
  BY PlannerAssumption
<1>2. ASSUME NEW x \in Layers, NEW y \in Layers
      PROVE  /\ ~Older(x, x) /\ (x = y \/ Older(x, y) \/ Older(y, x))
             /\ ~(Older(x, y) /\ Older(y, x))
             /\ \A z \in Layers : Older(z, x) /\ Older(x, y) => Older(z, y)
  BY <1>1 DEF Older
<1>3. CASE policy = "lifo"
  BY <1>2, <1>3 DEF Before
<1>4. CASE policy # "lifo"
  BY <1>2, <1>4 DEF Before
<1> QED
  BY <1>3, <1>4

LEMMA SomeoneIsLast ==
    ASSUME NEW policy, NEW D \in SUBSET Layers, D # {}
    PROVE  \E l \in D : \A m \in D : m = l \/ Before(policy, m, l)
<1> DEFINE fails == {t \in SUBSET D : t # {} /\ ~\E l \in t : \A m \in t : m = l \/ Before(policy, m, l)}
<1>0. IsFiniteSet(D)
  BY PlannerAssumption, FS_Subset
<1> SUFFICES ASSUME fails # {} PROVE FALSE
  <2>1. D \in SUBSET D
    OBVIOUS
  <2> QED
    BY <2>1
<1>1. PICK t \in fails : \A x \in t : t \ {x} \notin fails
  <2>1. fails \in SUBSET SUBSET D
    OBVIOUS
  <2> HIDE DEF fails
  <2> QED
    BY <1>0, <2>1, SmallestSet
<1>2. t \in SUBSET D /\ t # {} /\ ~\E l \in t : \A m \in t : m = l \/ Before(policy, m, l)
  OBVIOUS
<1>3. PICK x \in t : x \in Layers
  BY <1>2
<1>4. PICK u \in SUBSET D : u = t \ {x}
  BY <1>2
<1>5. u # {}
  BY <1>2, <1>4
<1>6. PICK y \in u : \A m \in u : m = y \/ Before(policy, m, y)
  BY <1>1, <1>4, <1>5
<1>7. y \in Layers /\ y \in t /\ y # x /\ \A m \in t : m = x \/ m \in u
  BY <1>2, <1>4
<1>8. CASE Before(policy, x, y)
  BY <1>2, <1>6, <1>7, <1>8
<1>9. CASE Before(policy, y, x)
  <2>1. ASSUME NEW m \in t PROVE m = x \/ Before(policy, m, x)
    <3>1. m \in Layers
      BY <1>2
    <3> QED
      BY <1>3, <1>6, <1>7, <1>9, <3>1, DrawnInOrder
  <2> QED
    BY <1>2, <2>1
<1> QED
  BY <1>3, <1>7, <1>8, <1>9, DrawnInOrder

\* Each layer of a pile has its own turn.
LEMMA TurnsAreOwn ==
    ASSUME NEW ls \in SUBSET Layers PROVE InTurns(ls, Turns(ls))
<1> DEFINE ahead(l) == {m \in ls : Older(m, l)}
<1>1. IsFiniteSet(ls)
  BY PlannerAssumption, FS_Subset
<1>2. \A l \in ls : IsFiniteSet(ahead(l)) /\ Cardinality(ahead(l)) \in Nat
  BY <1>1, FS_Subset, FS_CardinalityType
<1>3. \A l \in ls : Turns(ls)[l] = Cardinality(ahead(l))
  BY DEF Turns
<1>4. ASSUME NEW l \in ls, NEW m \in ls, Older(l, m)
      PROVE  Cardinality(ahead(l)) # Cardinality(ahead(m))
  <2>1. \A k \in Layers : Older(k, l) => Older(k, m)
    <3>1. \A k, i, j : Before("fifo", i, j) <=> Older(i, j)
      BY DEF Before
    <3>2. l \in Layers /\ m \in Layers
      OBVIOUS
    <3> QED
      BY <1>4, <3>1, <3>2, DrawnInOrder
  <2>2. ahead(l) \subseteq ahead(m)
    BY <2>1
  <2>3. l \in ahead(m) /\ l \notin ahead(l)
    <3>1. ~Older(l, l)
      <4>1. l \in Nat /\ Placed[l] \in Nat
        BY PlannerAssumption
      <4> QED
        BY <4>1 DEF Older
    <3> QED
      BY <1>4, <3>1
  <2> QED
    BY <1>2, <2>2, <2>3, FS_Subset
<1>5. ASSUME NEW l \in ls, NEW m \in ls, l # m PROVE Older(l, m) \/ Older(m, l)
  <2>1. l \in Nat /\ m \in Nat /\ Placed[l] \in Nat /\ Placed[m] \in Nat
    BY PlannerAssumption
  <2> QED
    BY <1>5, <2>1 DEF Older
<1>6. \A l, m \in ls : Cardinality(ahead(l)) = Cardinality(ahead(m)) => l = m
  BY <1>4, <1>5
<1> HIDE DEF ahead
<1> QED
  BY <1>2, <1>3, <1>6 DEF InTurns

-----------------------------------------------------------------------------
(* What a load takes from a pile.                                           *)

LEMMA OnGridIs ==
    ASSUME NEW n \in Int
    PROVE  /\ OnGrid(n) \in Int
           /\ n >= 0 => OnGrid(n) \in 0 .. n
           /\ OnGrid(n) >= 0 => n - OnGrid(n) < Grid /\ OnGrid(n) - n < Grid
<1>1. PICK g \in Nat \ {0} : g = Grid
  BY PlannerAssumption
<1>2. ASSUME NEW k \in Nat
      PROVE  g * (k \div g) \in 0 .. k /\ k - g * (k \div g) < g
  <2>1. \A i \in Nat : \A j \in Nat \ {0} : i \div j \in Nat
    OBVIOUS
  <2>2. PICK q \in Nat : q = k \div g
    BY <2>1
  <2>3. g * q <= k /\ k < g * (q + 1) /\ g * (q + 1) = g * q + g /\ g * q \in Nat
    BY <2>2, Quotients
  <2> QED
    BY <2>2, <2>3
<1>3. CASE n >= 0
  <2>1. OnGrid(n) = g * (n \div g) /\ n \in Nat
    BY <1>1, <1>3 DEF OnGrid
  <2> QED
    BY <1>1, <1>2, <2>1
<1>4. CASE ~(n >= 0)
  <2>1. PICK k \in Nat : k = -n
    BY <1>4
  <2>2. PICK v \in Int : v = g * (k \div g) /\ v \in 0 .. k /\ k - v < g
    BY <1>2
  <2>3. OnGrid(n) = -v
    BY <1>1, <1>4, <2>1, <2>2 DEF OnGrid
  <2> QED
    BY <1>1, <1>4, <2>1, <2>2, <2>3
<1> QED
  BY <1>3, <1>4

LEMMA SharesOnGridFit ==
    ASSUME NEW D, IsFiniteSet(D), D # {}, NEW cap \in [D -> Nat], NEW turn, InTurns(D, turn),
           NEW solids \in Nat, solids <= Total(cap, D)
    PROVE  /\ SharesOnGrid(cap, solids, turn) \in [D -> Nat]
           /\ \A l \in D : SharesOnGrid(cap, solids, turn)[l] <= cap[l]
           /\ Total(SharesOnGrid(cap, solids, turn), D) <= solids
           /\ solids - Total(SharesOnGrid(cap, solids, turn), D) < Grid * Cardinality(D)
<1>1. PICK g \in Nat \ {0} : g = Grid
  BY PlannerAssumption
<1>2. PICK weights : weights = [l \in DOMAIN cap |-> cap[l] \div g]
  OBVIOUS
<1>3. ASSUME NEW k \in Nat
      PROVE  k \div g \in Nat /\ g * (k \div g) <= k /\ k < g * (k \div g) + g
  <2>1. \A i \in Nat : \A j \in Nat \ {0} : i \div j \in Nat
    OBVIOUS
  <2>2. PICK q \in Nat : q = k \div g
    BY <2>1
  <2>3. g * q <= k /\ k < g * (q + 1) /\ g * (q + 1) = g * q + g
    BY <2>2, Quotients
  <2> QED
    BY <2>2, <2>3
<1>4. /\ weights \in [D -> Nat] /\ weights \in [D -> Int]
      /\ \A l \in D : /\ weights[l] \in Nat /\ weights[l] \in Int /\ cap[l] \in Int
                      /\ g * weights[l] <= cap[l] /\ cap[l] < g * weights[l] + g
  BY <1>2, <1>3
<1>5. PICK sum \in Nat : sum = SumFunction(weights) /\ sum = Total(weights, D)
  BY <1>4, TotalNat, TotalIsSum
<1>6. PICK units \in Nat : units = solids \div g /\ g * units <= solids /\ solids < g * units + g
  BY <1>3
<1>7. PICK total \in Nat : total = Least(units, sum) /\ total <= units /\ total <= sum
                            /\ total \in {units, sum}
  <2>1. units \in Int /\ sum \in Int /\ units \in Nat /\ sum \in Nat
    OBVIOUS
  <2>2. /\ Least(units, sum) <= units /\ Least(units, sum) <= sum
        /\ Least(units, sum) \in {units, sum} /\ Least(units, sum) \in Nat
    BY <2>1, LeastIs
  <2> QED
    BY <2>2
<1>8. PICK shares : shares = Split(total, weights, turn)
  OBVIOUS
<1>9. /\ shares \in [D -> Nat] /\ Total(shares, D) = total
      /\ \A l \in D : shares[l] <= weights[l]
  <2>1. total \in 0 .. SumFunction(weights)
    BY <1>5, <1>7
  <2> QED
    BY <1>4, <1>8, <2>1, SplitWithin
<1>10. PICK given : given = SharesOnGrid(cap, solids, turn)
  OBVIOUS
<1>11. given = [l \in D |-> g * shares[l]]
  <2>1. DOMAIN cap = D
    OBVIOUS
  <2> QED
    BY <1>1, <1>2, <1>5, <1>6, <1>7, <1>8, <1>10, <2>1, Zenon DEF SharesOnGrid
<1>12. ASSUME NEW l \in D PROVE given[l] \in Nat /\ given[l] <= cap[l]
  <2>1. PICK s, w, c \in Nat : s = shares[l] /\ w = weights[l] /\ c = cap[l] /\ s <= w /\ g * w <= c
    BY <1>4, <1>9
  <2>2. g * s <= g * w
    BY <2>1, Scale
  <2>3. g * s \in Nat /\ g * w \in Nat /\ given[l] = g * s
    BY <1>11, <2>1
  <2> QED
    BY <2>1, <2>2, <2>3
<1>13. given \in [D -> Nat]
  BY <1>11, <1>12
<1>14. Total(given, D) = g * total
  <2>1. \A l \in D : shares[l] \in Int
    BY <1>9
  <2>2. Total([l \in D |-> g * shares[l]], D) = g * Total(shares, D)
    BY <2>1, TotalTimes
  <2> QED
    BY <1>9, <1>11, <2>2
<1>15. PICK n \in Nat : n = Cardinality(D) /\ n > 0
  <2>1. Cardinality(D) \in Nat /\ Cardinality(D) # 0
    BY FS_CardinalityType, FS_EmptySet
  <2> QED
    BY <2>1
<1>16. Total(cap, D) < g * sum + g * n
  <2>1. PICK ones : ones = [l \in D |-> g]
    OBVIOUS
  <2>2. Total(ones, D) = g * n
    <3>1. g \in Int
      OBVIOUS
    <3>2. Total([l \in D |-> g], D) = g * Cardinality(D)
      BY <3>1, TotalOfSame
    <3> QED
      BY <1>15, <2>1, <3>2
  <2>3. PICK tops : tops = [l \in D |-> g * weights[l] + g]
    OBVIOUS
  <2>4. PICK full : full = [l \in D |-> g * weights[l]]
    OBVIOUS
  <2>5. \A l \in D : /\ full[l] \in Int /\ ones[l] \in Int /\ tops[l] = full[l] + ones[l]
                     /\ tops[l] \in Int /\ cap[l] \in Int /\ cap[l] <= tops[l] /\ cap[l] < tops[l]
    BY <1>4, <2>1, <2>3, <2>4
  <2>6. Total(tops, D) = Total(full, D) + Total(ones, D)
    BY <2>5, TotalPlus
  <2>7. PICK l \in D : TRUE
    OBVIOUS
  <2>8. Total(cap, D) < Total(tops, D)
    BY <2>5, <2>7, TotalLess
  <2>9. Total(full, D) = g * sum
    BY <1>4, <1>5, <2>4, TotalTimes
  <2> QED
    BY <2>2, <2>6, <2>8, <2>9
<1>17. PICK a, b, c, t \in Int : a = g * units /\ b = g * sum /\ c = g * n /\ t = g * total
  OBVIOUS
<1>18. t = a \/ t = b
  BY <1>7, <1>17
<1>19. t <= a
  BY <1>7, <1>17, Scale
<1>20. g <= c
  <2>1. g * 1 <= g * n
    BY <1>15, Scale
  <2> QED
    BY <1>17, <2>1
<1>21. Total(cap, D) \in Nat
  <2>1. \A l \in D : cap[l] \in Nat
    OBVIOUS
  <2> QED
    BY <2>1, TotalNat
<1>22. t <= solids /\ solids - t < c
  BY <1>6, <1>16, <1>17, <1>18, <1>19, <1>20, <1>21
<1> QED
  BY <1>1, <1>10, <1>12, <1>13, <1>14, <1>15, <1>17, <1>22

\* As near to the solids as the grid of n layers allows.
OnTheGrid(solids, taken, n) == taken - solids < Grid /\ solids - taken < Grid * n

LEMMA MostIsIn ==
    ASSUME NEW D, IsFiniteSet(D), D # {}, NEW cap \in [D -> Nat], NEW turn, InTurns(D, turn)
    PROVE  MostOf(cap, turn) \in D
<1> DEFINE Leads(l) == \A m \in D : cap[m] <= cap[l] /\ (turn[m] < turn[l] => cap[m] < cap[l])
<1>1. PICK zero \in [D -> Nat] : zero = [l \in D |-> 0]
  OBVIOUS
<1>2. PICK l \in D : Wins(l, D, zero, cap, turn)
  BY SomeoneWins
<1>3. ASSUME NEW m \in D PROVE cap[m] <= cap[l] /\ (turn[m] < turn[l] => cap[m] < cap[l])
  <2>1. PICK a, b \in Nat : a = cap[l] /\ b = cap[m]
    OBVIOUS
  <2>2. zero[l] = 0 /\ zero[m] = 0
    BY <1>1
  <2>3. /\ ~(b * (0 + 1) > a * (0 + 1))
        /\ turn[m] < turn[l] => a * (0 + 1) > b * (0 + 1)
    BY <1>2, <2>1, <2>2 DEF Wins
  <2>4. a * (0 + 1) = a /\ b * (0 + 1) = b
    OBVIOUS
  <2>5. b <= a /\ (turn[m] < turn[l] => b < a)
    BY <2>3, <2>4
  <2> QED
    BY <2>1, <2>5
<1>4. \E x \in D : Leads(x)
  BY <1>3
<1>5. MostOf(cap, turn) = CHOOSE x \in D : Leads(x)
  <2>1. DOMAIN cap = D
    OBVIOUS
  <2> QED
    BY <2>1, Zenon DEF MostOf
<1> HIDE DEF Leads
<1> QED
  BY <1>4, <1>5, Zenon

LEMMA WithRestFits ==
    ASSUME NEW D, IsFiniteSet(D), D # {}, NEW cap \in [D -> Nat], NEW turn, InTurns(D, turn),
           NEW solids \in Nat, solids <= Total(cap, D),
           NEW share \in [D -> Nat], \A l \in D : share[l] <= cap[l]
    PROVE  /\ WithRest(cap, solids, share, turn) \in [D -> Nat]
           /\ \A l \in D : WithRest(cap, solids, share, turn)[l] <= cap[l]
           /\ OnTheGrid(solids, Total(WithRest(cap, solids, share, turn), D), Cardinality(D))
<1>1. PICK most \in D : most = MostOf(cap, turn)
  BY MostIsIn
<1>2. PICK rest : rest = RestOf(cap, solids, share, turn)
  OBVIOUS
<1>3. WithRest(cap, solids, share, turn) =
         IF rest \in 0 .. cap[most] THEN [share EXCEPT ![most] = rest]
         ELSE SharesOnGrid(cap, solids, turn)
  BY <1>1, <1>2 DEF WithRest
<1>4. PICK g \in Nat \ {0}, n \in Nat \ {0} : g = Grid /\ n = Cardinality(D)
  <2>1. Cardinality(D) \in Nat /\ Cardinality(D) # 0
    BY FS_CardinalityType, FS_EmptySet
  <2>2. Grid \in Nat \ {0}
    BY PlannerAssumption
  <2> QED
    BY <2>1, <2>2
<1>5. g <= g * n
  <2>1. g * 1 <= g * n
    BY Scale
  <2> QED
    BY <2>1
<1>6. CASE rest \in 0 .. cap[most]
  <2>1. PICK r : r = [l \in D |-> IF l = most THEN rest ELSE share[l]]
    OBVIOUS
  <2>2. WithRest(cap, solids, share, turn) = r
    BY <1>3, <1>6, <2>1
  <2>3. \A l \in D : r[l] \in Nat /\ r[l] <= cap[l]
    BY <1>6, <2>1
  <2>4. r \in [D -> Nat]
    BY <2>1, <2>3
  <2>5. PICK u \in SUBSET D : u = D \ {most}
    OBVIOUS
  <2>6. IsFiniteSet(u) /\ \A l \in u : share[l] \in Int
    BY FS_Subset
  <2>7. PICK others \in Int : others = Total(share, u)
    BY <2>6, TotalSplit
  <2>8. Total(r, u) = others
    <3>1. \A l \in u : r[l] = share[l]
      BY <2>1, <2>5
    <3> QED
      BY <2>7, <3>1, TotalSame
  <2>9. Total(r, D) = rest + others
    <3>1. \A l \in D : r[l] \in Int
      BY <2>3
    <3>2. Total(r, D) = r[most] + Total(r, D \ {most})
      BY <3>1, TotalSplit
    <3> QED
      BY <2>1, <2>5, <2>8, <3>2
  <2>10. SumFunction(share) - share[most] = others
    <3>1. share \in [D -> Int] /\ \A l \in D : share[l] \in Int
      OBVIOUS
    <3>2. SumFunction(share) = Total(share, D)
      BY <3>1, TotalIsSum
    <3>3. Total(share, D) = share[most] + Total(share, D \ {most})
      BY <3>1, TotalSplit
    <3> QED
      BY <2>5, <2>7, <3>1, <3>2, <3>3
  <2>11. PICK x \in Int : x = solids - others
    OBVIOUS
  <2>12. rest = OnGrid(x)
    BY <1>1, <1>2, <2>10, <2>11 DEF RestOf
  <2>13. rest \in Nat /\ x - rest < g /\ rest - x < g
    <3>1. rest \in Nat
      BY <1>6
    <3>2. OnGrid(x) >= 0
      BY <2>12, <3>1
    <3>3. x - OnGrid(x) < Grid /\ OnGrid(x) - x < Grid
      BY <3>2, OnGridIs
    <3> QED
      BY <1>4, <2>12, <3>1, <3>3
  <2>14. OnTheGrid(solids, rest + others, n)
    <3>1. (rest + others) - solids < g /\ solids - (rest + others) < g
      BY <2>11, <2>13
    <3>2. PICK k \in Int : k = g * n
      OBVIOUS
    <3>3. solids - (rest + others) < k
      BY <1>5, <2>13, <3>1, <3>2
    <3> QED
      BY <1>4, <3>1, <3>2, <3>3 DEF OnTheGrid
  <2> QED
    BY <1>4, <2>2, <2>3, <2>4, <2>9, <2>14
<1>7. CASE rest \notin 0 .. cap[most]
  <2>1. PICK r : r = SharesOnGrid(cap, solids, turn)
    OBVIOUS
  <2>9. r = WithRest(cap, solids, share, turn)
    BY <1>3, <1>7, <2>1
  <2>8. /\ SharesOnGrid(cap, solids, turn) \in [D -> Nat]
        /\ \A l \in D : SharesOnGrid(cap, solids, turn)[l] <= cap[l]
        /\ Total(SharesOnGrid(cap, solids, turn), D) <= solids
        /\ solids - Total(SharesOnGrid(cap, solids, turn), D) < Grid * Cardinality(D)
    BY SharesOnGridFit
  <2>2. /\ r \in [D -> Nat] /\ \A l \in D : r[l] <= cap[l]
        /\ Total(r, D) <= solids /\ solids - Total(r, D) < Grid * Cardinality(D)
    BY <2>1, <2>8
  <2>3. Total(r, D) \in Nat
    <3>1. \A l \in D : r[l] \in Nat
      BY <2>2
    <3> QED
      BY <3>1, TotalNat
  <2>4. Total(r, D) - solids < g
    BY <2>2, <2>3
  <2>5. OnTheGrid(solids, Total(r, D), Cardinality(D))
    BY <1>4, <2>2, <2>4 DEF OnTheGrid
  <2> QED
    BY <2>2, <2>5, <2>9
<1> QED
  BY <1>6, <1>7


LEMMA WholeNumbers ==
    /\ \A i \in Nat : \A j \in Nat \ {0} : i \div j \in Nat
    /\ \A i, j \in Nat : i * j \in Nat
    /\ \A i, j \in Nat \ {0} : i * j \in Nat \ {0}
  OBVIOUS

LEMMA GramsOfType ==
    ASSUME NEW held \in SUBSET Layers, NEW cap \in [held -> Nat \ {0}], held # {}, NEW solids \in Nat
    PROVE  GramsOf(cap, solids) \in Nat
<1>0. IsFiniteSet(held)
  BY PlannerAssumption, FS_Subset
<1>1. PICK ratio : ratio = [l \in held |-> Ratio[l]]
  OBVIOUS
<1>2. ratio \in [held -> Nat \ {0}] /\ Parts \in Nat \ {0}
  BY <1>1, PlannerAssumption
<1>3. PICK common : common = FoldFunction(LAMBDA a, b : a * b, 1, ratio)
  OBVIOUS
<1>5. common \in Nat \ {0}
  <2>1. common = ProductOf(ratio)
    BY <1>3 DEF ProductOf
  <2> QED
    BY <1>0, <1>2, <2>1, ProductType
<1>6. PICK part : part = [l \in held |-> cap[l] * (common \div ratio[l])]
  OBVIOUS
<1>7. part \in [held -> Int] /\ \A l \in held : part[l] \in Nat
  <2>1. ASSUME NEW l \in held PROVE cap[l] * (common \div ratio[l]) \in Nat
    <3>1. common \div ratio[l] \in Nat /\ cap[l] \in Nat
      BY <1>2, <1>5, WholeNumbers
    <3> QED
      BY WholeNumbers, <3>1
  <2> QED
    BY <1>6, <2>1
<1>8. PICK exact \in Nat : exact = SumFunction(part)
  BY <1>0, <1>7, TotalNat, TotalIsSum
<1>9. PICK pile \in Nat \ {0} : pile = SumFunction(cap)
  <2>1. cap \in [held -> Nat] /\ cap \in [held -> Int]
        /\ \A l \in held : cap[l] > 0 /\ cap[l] \in Nat
    OBVIOUS
  <2>2. Total(cap, held) \in Nat /\ \A l \in held : cap[l] <= Total(cap, held)
    BY <1>0, <2>1, TotalNat
  <2>3. Total(cap, held) > 0
    BY <2>1, <2>2
  <2> QED
    BY <2>1, <2>2, <2>3, TotalIsSum
<1>10. HalfUp(solids * exact, pile * common * Parts) \in Nat
  <2>1. solids * exact \in Nat /\ pile * common * Parts \in Nat \ {0}
    BY <1>2, <1>5, WholeNumbers
  <2> QED
    BY <2>1, HalfUpInOrder
<1>11. DOMAIN cap = held
  OBVIOUS
<1>12. GramsOf(cap, solids) = HalfUp(solids * exact, pile * common * Parts)
  <2>1. GramsOf(cap, solids) =
          LET r == [l \in held |-> Ratio[l]]
              m == FoldFunction(LAMBDA a, b : a * b, 1, r)
              x == SumFunction([l \in held |-> cap[l] * (m \div r[l])])
          IN  HalfUp(solids * x, SumFunction(cap) * m * Parts)
    BY <1>11, Zenon DEF GramsOf
  <2> QED
    BY <1>1, <1>3, <1>6, <1>8, <1>9, <2>1, Zenon
<1> QED
  BY <1>10, <1>12

LEMMA GramSharesFit ==
    ASSUME NEW held \in SUBSET Layers, held # {}, NEW bin,
           \A l \in held : bin[l].solids \in Nat \ {0} /\ bin[l].dry \in Nat,
           NEW solids \in Nat
    PROVE  /\ GramShares(bin, held, solids) \in [held -> Nat]
           /\ \A l \in held :
                 GramShares(bin, held, solids)[l] * Ratio[l] * Parts <= bin[l].solids
<1>0. IsFiniteSet(held) /\ InTurns(held, Turns(held))
  BY PlannerAssumption, FS_Subset, TurnsAreOwn
<1>1. Parts \in Nat \ {0} /\ Grid \in Nat \ {0} /\ \A l \in held : Ratio[l] \in Nat \ {0}
  BY PlannerAssumption
<1>2. CapOf(bin, held) \in [held -> Nat \ {0}]
  BY DEF CapOf
<1>3. GramsOf(CapOf(bin, held), solids) \in Nat
  BY <1>2, GramsOfType
<1>11. PICK caps : caps = [l \in held |-> Least(bin[l].solids \div (Ratio[l] * Parts), bin[l].dry)]
  OBVIOUS
<1>12. ASSUME NEW l \in held
       PROVE  caps[l] \in Nat /\ caps[l] * Ratio[l] * Parts <= bin[l].solids
  <2>1. PICK r, k \in Nat \ {0}, c, d \in Nat : /\ r = Ratio[l] /\ k = Parts
                                                /\ c = bin[l].solids /\ d = bin[l].dry
    BY <1>1
  <2>2. PICK q \in Nat \ {0} : q = r * k
    BY WholeNumbers
  <2>a. c \div q \in Nat /\ q * (c \div q) <= c
    <3>1. c \div q \in Nat
      BY WholeNumbers
    <3>2. c \in Int
      OBVIOUS
    <3> QED
      BY Quotients, <3>1, <3>2
  <2>3. PICK v \in Nat : v = c \div q /\ q * v <= c
    BY <2>a
  <2>4. caps[l] = Least(v, d)
    BY <1>11, <2>1, <2>2, <2>3
  <2>b. Least(v, d) \in Nat /\ Least(v, d) <= v
    BY LeastIs
  <2>5. PICK x \in Nat : x = caps[l] /\ x <= v
    BY <2>4, <2>b
  <2>6. q * x <= q * v
    BY <2>5, Scale
  <2>7. x * r * k = q * x /\ q * x \in Nat /\ q * v \in Nat
    BY <2>2
  <2> QED
    BY <2>1, <2>3, <2>5, <2>6, <2>7
<1>13. caps \in [held -> Nat] /\ caps \in [held -> Int]
  BY <1>11, <1>12
<1>14. PICK total \in Nat : total = Least(GramsOf(CapOf(bin, held), solids), SumFunction(caps))
  <2>1. \A l \in held : caps[l] \in Nat
    BY <1>13
  <2>2. SumFunction(caps) \in Nat
    BY <1>0, <1>13, <2>1, TotalNat, TotalIsSum
  <2> QED
    BY <1>3, <2>2, LeastIs
<1>15. PICK weights : weights = [l \in held |-> bin[l].solids \div (Ratio[l] * Grid)]
  OBVIOUS
<1>16. weights \in [held -> Nat]
  <2>1. ASSUME NEW l \in held PROVE bin[l].solids \div (Ratio[l] * Grid) \in Nat
    <3>1. Ratio[l] * Grid \in Nat \ {0} /\ bin[l].solids \in Nat
      BY <1>1, WholeNumbers
    <3> QED
      BY WholeNumbers, <3>1
  <2> QED
    BY <1>15, <2>1
<1>17. PICK grams \in [held -> Nat] :
          /\ grams = Apportion(total, weights, caps, Turns(held))
          /\ \A l \in held : grams[l] <= caps[l]
  <2>1. /\ Apportion(total, weights, caps, Turns(held)) \in [held -> Nat]
        /\ \A l \in held : Apportion(total, weights, caps, Turns(held))[l] <= caps[l]
    BY <1>0, <1>13, <1>16, ApportionFits
  <2> QED
    BY <2>1
<1>19. ASSUME NEW l \in held PROVE grams[l] * Ratio[l] * Parts <= bin[l].solids
  <2>1. PICK r, k \in Nat \ {0}, c, v, x \in Nat :
            /\ r = Ratio[l] /\ k = Parts /\ c = bin[l].solids /\ v = caps[l] /\ x = grams[l]
            /\ x <= v /\ v * r * k <= c
    BY <1>1, <1>12, <1>13, <1>17
  <2>2. PICK q \in Nat : q = r * k
    OBVIOUS
  <2>3. q * x <= q * v
    BY <2>1, Scale
  <2>4. x * r * k = q * x /\ v * r * k = q * v /\ q * x \in Nat /\ q * v \in Nat
    BY <2>2
  <2> QED
    BY <2>1, <2>3, <2>4
<1>20. GramShares(bin, held, solids) = grams
  BY <1>11, <1>14, <1>15, <1>17, Zenon DEF GramShares
<1> QED
  BY <1>17, <1>19, <1>20

LEMMA SharesOfPileFit ==
    ASSUME NEW held \in SUBSET Layers, held # {}, NEW bin,
           \A l \in held : bin[l].solids \in Nat \ {0} /\ bin[l].dry \in Nat,
           NEW solids \in Nat, solids <= Total(CapOf(bin, held), held)
    PROVE  /\ SharesOfPile(bin, held, solids) \in [held -> Nat]
           /\ \A l \in held : SharesOfPile(bin, held, solids)[l] <= bin[l].solids
           /\ OnTheGrid(solids, Total(SharesOfPile(bin, held, solids), held), Cardinality(held))
<1>0. IsFiniteSet(held) /\ InTurns(held, Turns(held))
  BY PlannerAssumption, FS_Subset, TurnsAreOwn
<1>1. Parts \in Nat \ {0} /\ \A l \in held : Ratio[l] \in Nat \ {0}
  BY PlannerAssumption
<1>2. PICK cap \in [held -> Nat] : cap = CapOf(bin, held) /\ \A l \in held : cap[l] = bin[l].solids
  BY DEF CapOf
<1>3. PICK grams \in [held -> Nat] :
         /\ grams = GramShares(bin, held, solids)
         /\ \A l \in held : grams[l] * Ratio[l] * Parts <= bin[l].solids
  <2>1. /\ GramShares(bin, held, solids) \in [held -> Nat]
        /\ \A l \in held :
              GramShares(bin, held, solids)[l] * Ratio[l] * Parts <= bin[l].solids
    BY GramSharesFit
  <2> QED
    BY <2>1
<1>18. PICK share : share = [l \in held |-> grams[l] * Ratio[l] * Parts]
  OBVIOUS
<1>19. ASSUME NEW l \in held PROVE share[l] \in Nat /\ share[l] <= cap[l]
  <2>1. grams[l] * Ratio[l] * Parts \in Nat
    BY <1>1, WholeNumbers
  <2> QED
    BY <1>2, <1>3, <1>18, <2>1
<1>20. share \in [held -> Nat]
  BY <1>18, <1>19
<1>21. SharesOfPile(bin, held, solids) = WithRest(cap, solids, share, Turns(held))
  BY <1>2, <1>3, <1>18, Zenon DEF SharesOfPile
<1>23. PICK t : t = WithRest(cap, solids, share, Turns(held))
  OBVIOUS
<1>24. /\ WithRest(cap, solids, share, Turns(held)) \in [held -> Nat]
       /\ \A l \in held : WithRest(cap, solids, share, Turns(held))[l] <= cap[l]
       /\ OnTheGrid(solids, Total(WithRest(cap, solids, share, Turns(held)), held), Cardinality(held))
  <2>1. solids <= Total(cap, held)
    BY <1>2
  <2> QED
    BY <1>0, <1>19, <1>20, <2>1, WithRestFits
<1> QED
  BY <1>2, <1>21, <1>24

-----------------------------------------------------------------------------
(* What a plan takes from each layer.                                       *)

\* A bin's stock, as far as the plans depend on it.
IsStock(bin) ==
    /\ DOMAIN bin \in SUBSET Layers
    /\ \A l \in DOMAIN bin : bin[l].solids \in Nat /\ bin[l].dry \in Nat

\* Solids are taken from layers that hold them.
TakesHeld(bin, at, taken) ==
    /\ DOMAIN taken \in SUBSET Holding(bin, at)
    /\ \A l \in DOMAIN taken : taken[l] \in 0 .. bin[l].solids

LEMMA PileIs ==
    ASSUME NEW bin, IsStock(bin), NEW at
    PROVE  /\ Holding(bin, at) \in SUBSET Layers /\ IsFiniteSet(Holding(bin, at))
           /\ \A l \in Holding(bin, at) : bin[l].solids \in Nat \ {0} /\ bin[l].dry \in Nat
           /\ SolidsOf(bin, Holding(bin, at)) = Total(CapOf(bin, Holding(bin, at)), Holding(bin, at))
           /\ SolidsOf(bin, Eligible(bin, at)) = Total(CapOf(bin, Holding(bin, at)), Holding(bin, at))
           /\ SolidsOf(bin, Eligible(bin, at)) \in Nat
           /\ SolidsOf(bin, Eligible(bin, at)) > 0 => Holding(bin, at) # {}
<1> DEFINE all == Eligible(bin, at)
           held == Holding(bin, at)
<1>1. /\ all \in SUBSET Layers /\ held \in SUBSET all
      /\ IsFiniteSet(all) /\ IsFiniteSet(held)
  <2>1. all \in SUBSET Layers /\ held \in SUBSET all
    BY DEF Eligible, Holding, IsStock
  <2> QED
    BY <2>1, PlannerAssumption, FS_Subset
<1>2. \A l \in all : bin[l].solids \in Nat /\ bin[l].dry \in Nat
  BY DEF Eligible, IsStock
<1>3. /\ \A l \in held : bin[l].solids \in Nat \ {0}
      /\ \A l \in all \ held : bin[l].solids = 0
  BY <1>2 DEF Holding
<1>4. /\ CapOf(bin, all) \in [all -> Int] /\ CapOf(bin, held) \in [held -> Int]
      /\ \A l \in all : CapOf(bin, all)[l] \in Nat /\ CapOf(bin, all)[l] \in Int
      /\ \A l \in held : CapOf(bin, all)[l] = CapOf(bin, held)[l]
      /\ \A l \in all \ held : CapOf(bin, all)[l] = 0
  BY <1>1, <1>2, <1>3 DEF CapOf
<1> HIDE DEF all, held
<1>5. SolidsOf(bin, held) = Total(CapOf(bin, held), held)
  BY <1>4, TotalIsSum DEF SolidsOf
<1>6. SolidsOf(bin, all) = Total(CapOf(bin, all), all)
  BY <1>4, TotalIsSum DEF SolidsOf
<1>7. Total(CapOf(bin, all), all) = Total(CapOf(bin, all), held)
  BY <1>1, <1>4, TotalWithout
<1>8. Total(CapOf(bin, all), held) = Total(CapOf(bin, held), held)
  BY <1>4, TotalSame
<1>9. SolidsOf(bin, all) \in Nat
  BY <1>1, <1>4, <1>6, TotalNat
<1>10. held = {} => SolidsOf(bin, all) = 0
  BY <1>6, <1>7, TotalEmpty
<1> QED
  BY <1>1, <1>2, <1>3, <1>5, <1>6, <1>7, <1>8, <1>9, <1>10 DEF all, held

LEMMA ProRataFits ==
    ASSUME NEW bin, IsStock(bin), NEW at, NEW solids \in Nat \ {0},
           solids <= SolidsOf(bin, Eligible(bin, at))
    PROVE  /\ TakesHeld(bin, at, ProRata(bin, at, solids))
           /\ OnTheGrid(solids, Total(ProRata(bin, at, solids), DOMAIN ProRata(bin, at, solids)),
                        Cardinality(Holding(bin, at)))
<1> DEFINE held == Holding(bin, at)
           share == SharesOf(bin, held, solids)
           some == {m \in held : share[m] > 0}
<1>1. /\ held \in SUBSET Layers /\ IsFiniteSet(held) /\ held # {}
      /\ \A l \in held : bin[l].solids \in Nat \ {0} /\ bin[l].dry \in Nat
      /\ SolidsOf(bin, held) = Total(CapOf(bin, held), held)
      /\ solids <= Total(CapOf(bin, held), held)
  BY PileIs
<1>2. /\ share \in [held -> Nat] /\ \A l \in held : share[l] <= bin[l].solids
      /\ OnTheGrid(solids, Total(share, held), Cardinality(held))
  <2>1. CASE solids = SolidsOf(bin, held)
    <3>1. share = CapOf(bin, held)
      BY <2>1 DEF SharesOf
    <3>2. CapOf(bin, held) \in [held -> Nat] /\ \A l \in held : CapOf(bin, held)[l] = bin[l].solids
      BY <1>1 DEF CapOf
    <3>3. PICK g, n \in Nat \ {0} : g = Grid /\ n = Cardinality(held)
      <4>1. Cardinality(held) \in Nat /\ Cardinality(held) # 0
        BY <1>1, FS_CardinalityType, FS_EmptySet
      <4>2. Grid \in Nat \ {0}
        BY PlannerAssumption
      <4> QED
        BY <4>1, <4>2
    <3>4. g * n \in Nat \ {0}
      BY WholeNumbers
    <3>5. solids - solids < g /\ solids - solids < g * n
      BY <3>4
    <3>6. OnTheGrid(solids, solids, Cardinality(held))
      BY <3>3, <3>5 DEF OnTheGrid
    <3> QED
      BY <1>1, <2>1, <3>1, <3>2, <3>6
  <2>2. CASE solids # SolidsOf(bin, held)
    <3>1. share = SharesOfPile(bin, held, solids)
      BY <2>2 DEF SharesOf
    <3>2. /\ SharesOfPile(bin, held, solids) \in [held -> Nat]
          /\ \A l \in held : SharesOfPile(bin, held, solids)[l] <= bin[l].solids
          /\ OnTheGrid(solids, Total(SharesOfPile(bin, held, solids), held), Cardinality(held))
      <4> HIDE DEF held
      <4> QED
        BY <1>1, SharesOfPileFit
    <3> QED
      BY <3>1, <3>2
  <2> QED
    BY <2>1, <2>2
<1>3. ProRata(bin, at, solids) = [l \in some |-> share[l]]
  BY DEF ProRata
<1> HIDE DEF held, share
<1>4. some \in SUBSET held /\ \A l \in held \ some : share[l] = 0
  BY <1>2
<1>5. Total(share, held) = Total(share, some)
  BY <1>1, <1>2, <1>4, TotalWithout
<1>6. Total([l \in some |-> share[l]], some) = Total(share, some)
  BY TotalSame
<1>7. \A l \in some : share[l] \in 0 .. bin[l].solids
  BY <1>1, <1>2, <1>4
<1> HIDE DEF some
<1>8. PICK t : t = [l \in some |-> share[l]]
  OBVIOUS
<1>9. DOMAIN t = some /\ \A l \in some : t[l] = share[l]
  BY <1>8
<1> QED
  BY <1>2, <1>3, <1>4, <1>5, <1>6, <1>7, <1>8, <1>9 DEF TakesHeld, held

\* Draws in turn take what is asked for, as far as there is any.
LEMMA InTurnFits ==
    ASSUME NEW bin, IsStock(bin), NEW at, NEW solids \in Nat \ {0},
           solids <= SolidsOf(bin, Eligible(bin, at)), NEW policy
    PROVE  /\ TakesHeld(bin, at, InTurn(bin, at, solids, policy))
           /\ Total(InTurn(bin, at, solids, policy), DOMAIN InTurn(bin, at, solids, policy)) = solids
<1> DEFINE held == Holding(bin, at)
           ahead(l) == {m \in held : Before(policy, m, l)}
           asked(l) == solids - SolidsOf(bin, ahead(l))
           reached == {l \in held : asked(l) > 0}
           turn == InTurn(bin, at, solids, policy)
<1>1. /\ held \in SUBSET Layers /\ IsFiniteSet(held)
      /\ \A l \in held : bin[l].solids \in Nat \ {0}
      /\ solids <= Total(CapOf(bin, held), held)
  BY PileIs
<1>2. turn = [l \in reached |-> Least(asked(l), bin[l].solids)]
  BY Zenon DEF InTurn, Before
<1>3. PICK cap \in [held -> Nat] : cap = CapOf(bin, held) /\ \A l \in held : cap[l] = bin[l].solids
  BY <1>1 DEF CapOf
<1>4. ASSUME NEW s \in SUBSET held
      PROVE  SolidsOf(bin, s) = Total(cap, s) /\ Total(cap, s) \in Nat /\ IsFiniteSet(s)
  <2>1. IsFiniteSet(s)
    BY <1>1, FS_Subset
  <2>2. CapOf(bin, s) = [l \in s |-> cap[l]]
    BY <1>3 DEF CapOf
  <2>3. SolidsOf(bin, s) = Total(cap, s)
    BY <2>2 DEF SolidsOf, Total
  <2>4. \A l \in s : cap[l] \in Nat
    BY <1>3
  <2> QED
    BY <2>1, <2>3, <2>4, TotalNat
<1>5. ASSUME NEW l \in held
      PROVE  ahead(l) \in SUBSET held /\ asked(l) = solids - Total(cap, ahead(l)) /\ asked(l) \in Int
  BY <1>4
<1>6. PICK given : given = [l \in held |-> IF asked(l) > 0 THEN Least(asked(l), cap[l]) ELSE 0]
  OBVIOUS
<1>7. ASSUME NEW l \in held PROVE given[l] \in 0 .. cap[l]
  <2>1. PICK a \in Int, c \in Nat : a = asked(l) /\ c = cap[l]
    BY <1>3, <1>5
  <2>2. given[l] = IF a > 0 THEN Least(a, c) ELSE 0
    BY <1>6, <2>1
  <2> QED
    BY <2>1, <2>2 DEF Least
<1> DEFINE closed(s) == \A l \in s : ahead(l) \in SUBSET s
           fails == {s \in SUBSET held : closed(s) /\ Total(given, s) # Least(solids, Total(cap, s))}
<1> HIDE DEF turn
<1>8. fails = {}
  <2> SUFFICES ASSUME fails # {} PROVE FALSE
    OBVIOUS
  <2>1. PICK t \in fails : \A x \in t : t \ {x} \notin fails
    <3>1. fails \in SUBSET SUBSET held
      OBVIOUS
    <3> HIDE DEF fails
    <3> QED
      BY <1>1, <3>1, SmallestSet
  <2>2. t \in SUBSET held /\ closed(t) /\ Total(given, t) # Least(solids, Total(cap, t))
    OBVIOUS
  <2>3. t # {}
    <3>1. Total(given, {}) = 0 /\ Total(cap, {}) = 0
      BY TotalEmpty
    <3>2. Least(solids, 0) = 0
      BY DEF Least
    <3> QED
      BY <2>2, <3>1, <3>2
  <2>4. PICK l \in t : \A m \in t : m = l \/ Before(policy, m, l)
    BY <1>1, <2>2, <2>3, SomeoneIsLast
  <2>5. PICK u \in SUBSET held : u = t \ {l}
    BY <2>2
  <2>6. ahead(l) = u
    <3>1. \A m \in u : Before(policy, m, l)
      BY <2>4, <2>5
    <3>2. l \in Layers /\ l \in held
      BY <1>1, <2>2
    <3>3. ~Before(policy, l, l)
      BY <3>2, DrawnInOrder
    <3>4. ahead(l) \in SUBSET t
      BY <2>2
    <3> QED
      BY <2>5, <3>1, <3>3, <3>4
  <2>7. closed(u)
    <3> SUFFICES ASSUME NEW k \in u, NEW m \in held, Before(policy, m, k) PROVE m \in u
      OBVIOUS
    <3>1. m \in t
      BY <2>2, <2>5
    <3>2. Before(policy, k, l)
      BY <2>4, <2>5
    <3>3. m \in Layers /\ k \in Layers /\ l \in Layers
      BY <1>1, <2>2, <2>5
    <3>4. m # l
      <4> SUFFICES ASSUME m = l PROVE FALSE
        OBVIOUS
      <4>1. Before(policy, l, k) /\ Before(policy, k, l)
        BY <3>2
      <4> QED
        BY <3>3, <4>1, DrawnInOrder
    <3> QED
      BY <2>5, <3>1, <3>4
  <2>8. Total(given, u) = Least(solids, Total(cap, u))
    <3>1. u \notin fails
      BY <2>1, <2>5
    <3> QED
      BY <2>7, <3>1
  <2>9. l \in held /\ t \in SUBSET held
    BY <2>2
  <2>10. PICK w, c \in Nat : w = Total(cap, u) /\ c = cap[l]
    BY <1>3, <1>4, <2>9
  <2>11. Total(cap, t) = c + w
    <3>1. IsFiniteSet(t) /\ \A x \in t : cap[x] \in Int
      BY <1>3, <1>4, <2>9
    <3>2. Total(cap, t) = cap[l] + Total(cap, t \ {l})
      BY <3>1, TotalSplit
    <3> QED
      BY <2>5, <2>10, <3>2
  <2>12. Total(given, t) = given[l] + Least(solids, w)
    <3>1. IsFiniteSet(t) /\ \A x \in t : given[x] \in Int
      BY <1>3, <1>4, <1>7, <2>9
    <3>2. Total(given, t) = given[l] + Total(given, t \ {l})
      BY <3>1, TotalSplit
    <3> QED
      BY <2>5, <2>8, <2>10, <3>2
  <2>13. given[l] = IF solids - w > 0 THEN Least(solids - w, c) ELSE 0
    BY <1>5, <1>6, <2>6, <2>9, <2>10
  <2>14. given[l] + Least(solids, w) = Least(solids, c + w)
    BY <2>13 DEF Least
  <2> QED
    BY <2>2, <2>11, <2>12, <2>14
<1>9. Total(given, held) = solids
  <2>1. closed(held)
    OBVIOUS
  <2>2. Total(given, held) = Least(solids, Total(cap, held))
    BY <1>8, <2>1
  <2>3. Total(cap, held) \in Nat /\ solids <= Total(cap, held)
    BY <1>1, <1>3, <1>4
  <2> QED
    BY <2>2, <2>3 DEF Least
<1> HIDE DEF fails, closed
<1>10. reached \in SUBSET held /\ \A l \in held \ reached : given[l] = 0
  BY <1>5, <1>6
<1>11. Total(given, held) = Total(given, reached)
  <2>1. \A l \in held : given[l] \in Int
    BY <1>3, <1>7
  <2> QED
    BY <1>1, <1>10, <2>1, TotalWithout
<1>12. DOMAIN turn = reached /\ \A l \in reached : turn[l] = given[l]
  <2>1. DOMAIN turn = reached
    BY <1>2
  <2>2. ASSUME NEW l \in reached PROVE turn[l] = given[l]
    <3>1. l \in held /\ asked(l) > 0
      OBVIOUS
    <3>2. turn[l] = Least(asked(l), bin[l].solids)
      BY <1>2
    <3>3. given[l] = Least(asked(l), cap[l])
      BY <1>6, <3>1
    <3> QED
      BY <1>3, <3>1, <3>2, <3>3
  <2> QED
    BY <2>1, <2>2
<1> HIDE DEF reached
<1>13. Total(turn, reached) = Total(given, reached)
  BY <1>12, TotalSame
<1>14. \A l \in reached : turn[l] \in 0 .. bin[l].solids
  BY <1>3, <1>7, <1>10, <1>12
<1> QED
  BY <1>9, <1>10, <1>11, <1>12, <1>13, <1>14 DEF TakesHeld, turn, held

\* The sources of an ordered load give what they hold, the last one what the
\* grid leaves of it.
LEMMA InOrderFits ==
    ASSUME NEW bin, IsStock(bin), NEW at, NEW request,
           request.wet \in Nat, request.sources \in Seq([layer : Layers, reading : Nat \ {0}]),
           OrderFits(bin, at, request)
    PROVE  TakesHeld(bin, at, InOrder(bin, request))
<1>1. PICK sources : sources = request.sources
  OBVIOUS
<1>2. /\ sources \in Seq([layer : Layers, reading : Nat \ {0}]) /\ sources # <<>>
      /\ \A i \in DOMAIN sources : sources[i].layer \in Holding(bin, at)
      /\ \A i, j \in DOMAIN sources : sources[j].layer = sources[i].layer => i = j
      /\ \A i \in DOMAIN sources : WetLeft(bin, request, i) > 0
      /\ WetLeft(bin, request, Len(sources))
            <= bin[sources[Len(sources)].layer].solids * sources[Len(sources)].reading
  BY <1>1 DEF OrderFits
<1>3. PICK n \in Nat \ {0} : n = Len(sources) /\ DOMAIN sources = 1 .. n /\ n \in 1 .. n
  BY <1>2
<1>4. ASSUME NEW i \in 1 .. n
      PROVE  /\ sources[i].layer \in Holding(bin, at) /\ sources[i].layer \in Layers
             /\ sources[i].reading \in Nat \ {0}
             /\ bin[sources[i].layer].solids \in Nat \ {0}
  <2>1. sources[i] \in [layer : Layers, reading : Nat \ {0}]
    <3>1. i \in 1 .. Len(sources)
      BY <1>3
    <3> QED
      BY <1>2, <3>1, ElementOfSeq
  <2>2. sources[i].layer \in Holding(bin, at)
    BY <1>2, <1>3
  <2>3. \A l \in Holding(bin, at) : bin[l].solids \in Nat \ {0}
    BY PileIs
  <2> QED
    BY <2>1, <2>2, <2>3
<1>5. PICK final \in Nat, reading \in Nat \ {0} :
          final = bin[sources[n].layer].solids /\ reading = sources[n].reading
  BY <1>3, <1>4
<1>6. WetLeft(bin, request, n) \in Int
  <2>1. PICK gone : gone = [j \in 1 .. n - 1 |->
                              bin[request.sources[j].layer].solids * request.sources[j].reading]
    OBVIOUS
  <2>2. ASSUME NEW j \in 1 .. n - 1
        PROVE  bin[request.sources[j].layer].solids * request.sources[j].reading \in Nat
    <3>1. j \in 1 .. n
      OBVIOUS
    <3> QED
      BY <1>1, <1>4, <3>1, WholeNumbers
  <2>3. gone \in [1 .. n - 1 -> Int] /\ \A j \in 1 .. n - 1 : gone[j] \in Int
    BY <2>1, <2>2
  <2>4. IsFiniteSet(1 .. n - 1)
    <3>1. 1 \in Int /\ n - 1 \in Int
      OBVIOUS
    <3> QED
      BY <3>1, FS_Interval
  <2>5. SumFunction(gone) = Total(gone, 1 .. n - 1)
    BY <2>3, TotalIsSum
  <2>6. SumFunction(gone) \in Int
    BY <2>3, <2>4, <2>5, TotalSplit
  <2> QED
    BY <2>1, <2>6 DEF WetLeft
<1>7. PICK wet \in Nat \ {0} : wet = WetLeft(bin, request, n) /\ wet <= final * reading
  <2>1. PICK w \in Int : w = WetLeft(bin, request, n)
    BY <1>6
  <2>2. w > 0
    BY <1>2, <1>3, <2>1
  <2>3. w <= final * reading
    BY <1>2, <1>3, <1>5, <2>1
  <2>4. w \in Nat \ {0}
    BY <2>2
  <2> QED
    BY <2>1, <2>3, <2>4
<1>8. OnGrid(wet \div reading) \in 0 .. final
  <2>0. wet \div reading \in Nat /\ reading * (wet \div reading) <= wet
    <3>1. wet \div reading \in Nat
      BY WholeNumbers
    <3>2. wet \in Int
      OBVIOUS
    <3> QED
      BY <3>1, <3>2, Quotients
  <2>1. PICK q \in Int : q = wet \div reading /\ q \in Nat /\ reading * q <= wet
    BY <2>0
  <2>2. q \in Nat
    BY <2>1
  <2>3. reading * q <= reading * final
    <3>1. PICK u, v \in Int : u = reading * q /\ v = final * reading
      OBVIOUS
    <3>2. v = reading * final
      BY <3>1
    <3>3. u <= v
      BY <1>7, <2>1, <3>1
    <3> QED
      BY <3>1, <3>2, <3>3
  <2>4. q <= final
    BY <2>2, <2>3, Cancel
  <2>5. OnGrid(q) \in 0 .. q
    <3>1. q \in Int /\ q >= 0
      BY <2>2
    <3> QED
      BY <3>1, OnGridIs
  <2> QED
    BY <2>1, <2>2, <2>4, <2>5
<1>10. ASSUME NEW i \in 1 .. n PROVE TakenFrom(bin, request, i) \in 0 .. bin[sources[i].layer].solids
  <2>1. CASE i < n
    <3>1. TakenFrom(bin, request, i) = bin[sources[i].layer].solids
      BY <1>1, <1>3, <2>1 DEF TakenFrom
    <3> QED
      BY <1>4, <3>1
  <2>2. CASE i = n
    <3>1. TakenFrom(bin, request, n) \in {final, OnGrid(wet \div reading)}
      BY <1>1, <1>5, <1>7 DEF TakenFrom
    <3> QED
      BY <1>5, <1>8, <2>2, <3>1
  <2> QED
    BY <2>1, <2>2
<1> DEFINE from == {sources[i].layer : i \in DOMAIN sources}
           source(l) == CHOOSE i \in DOMAIN sources : sources[i].layer = l
<1>9. InOrder(bin, request) = [l \in from |-> TakenFrom(bin, request, source(l))]
  BY <1>1 DEF InOrder
<1>11. ASSUME NEW l \in from
       PROVE  l \in Holding(bin, at) /\ TakenFrom(bin, request, source(l)) \in 0 .. bin[l].solids
  <2>1. source(l) \in 1 .. n /\ sources[source(l)].layer = l
    BY <1>3
  <2> HIDE DEF source
  <2> QED
    BY <1>4, <1>10, <2>1
<1> HIDE DEF from, source
<1> QED
  BY <1>9, <1>11 DEF TakesHeld

\* A measured load, a count or an ordered load, of solids.
IsRequest(r) ==
    \/ r.kind \in {"wet", "count"} /\ r.solids \in Nat
    \/ /\ r.kind = "ordered" /\ r.wet \in Nat
       /\ r.sources \in Seq([layer : Layers, reading : Nat \ {0}])

\* planOutputStock takes from each layer no more than it holds, by age, in
\* proportion or in the operator's order, and a measured load takes what was
\* measured, to the grid.
THEOREM TakingsFit ==
    ASSUME NEW bin, IsStock(bin), NEW at, NEW request, IsRequest(request), NEW policy,
           Fits(bin, at, request, policy)
    PROVE  /\ TakesHeld(bin, at, Takings(bin, at, request, policy))
           /\ request.kind = "wet" =>
                 OnTheGrid(request.solids,
                           Total(Takings(bin, at, request, policy),
                                 DOMAIN Takings(bin, at, request, policy)),
                           Cardinality(Holding(bin, at)))
<1>1. PICK taken : taken = Takings(bin, at, request, policy)
  OBVIOUS
<1>2. PICK pile \in Nat : pile = SolidsOf(bin, Eligible(bin, at))
  BY PileIs
<1>3. PICK asked : asked = IF request.kind = "count" THEN pile - request.solids
                           ELSE request.solids
  OBVIOUS
<1>4. taken = CASE request.kind = "ordered" -> InOrder(bin, request)
                [] request.kind # "ordered" /\ asked <= 0 -> <<>>
                [] request.kind # "ordered" /\ asked > 0 /\ policy \in {"fifo", "lifo"} ->
                      InTurn(bin, at, asked, policy)
                [] OTHER -> ProRata(bin, at, asked)
  BY <1>1, <1>2, <1>3, Zenon DEF Takings
<1>5. CASE request.kind = "ordered"
  <2>1. taken = InOrder(bin, request)
    BY <1>4, <1>5
  <2>2. OrderFits(bin, at, request)
    BY <1>5 DEF Fits
  <2>3. request.wet \in Nat /\ request.sources \in Seq([layer : Layers, reading : Nat \ {0}])
    BY <1>5 DEF IsRequest
  <2> QED
    BY <1>1, <1>5, <2>1, <2>2, <2>3, InOrderFits
<1>6. CASE request.kind # "ordered"
  <2>1. request.kind \in {"wet", "count"} /\ request.solids \in Nat
    BY <1>6 DEF IsRequest
  <2>2. request.kind = "wet" => request.solids \in 1 .. pile
    BY <1>2 DEF Fits
  <2>3. asked \in Int /\ asked <= pile /\ (request.kind = "wet" => asked = request.solids /\ asked > 0)
    BY <1>3, <2>1, <2>2
  <2>4. CASE asked <= 0
    <3>0. ~(asked > 0)
      BY <2>3, <2>4
    <3>1. taken = <<>>
      BY <1>4, <1>6, <2>4, <3>0, Zenon
    <3>2. DOMAIN taken = {}
      BY <3>1
    <3>3. TakesHeld(bin, at, taken)
      BY <3>2 DEF TakesHeld
    <3> QED
      BY <1>1, <2>3, <2>4, <3>3
  <2>5. CASE asked > 0
    <3>1. asked \in Nat \ {0} /\ asked <= SolidsOf(bin, Eligible(bin, at))
      BY <1>2, <2>3, <2>5
    <3>2. CASE policy \in {"fifo", "lifo"}
      <4>1. taken = InTurn(bin, at, asked, policy)
        BY <1>4, <1>6, <2>3, <2>5, <3>2
      <4>2. TakesHeld(bin, at, taken) /\ Total(taken, DOMAIN taken) = asked
        BY <3>1, <4>1, InTurnFits
      <4>3. request.kind = "wet" => OnTheGrid(asked, asked, Cardinality(Holding(bin, at)))
        <5> SUFFICES OnTheGrid(asked, asked, Cardinality(Holding(bin, at)))
          OBVIOUS
        <5>1. IsFiniteSet(Holding(bin, at)) /\ Holding(bin, at) # {}
          BY <3>1, PileIs
        <5>2. Cardinality(Holding(bin, at)) \in Nat /\ Cardinality(Holding(bin, at)) # 0
          BY <5>1, FS_CardinalityType, FS_EmptySet
        <5>6. Grid \in Nat \ {0}
          BY PlannerAssumption
        <5>3. PICK g, n \in Nat \ {0} : g = Grid /\ n = Cardinality(Holding(bin, at))
          BY <5>2, <5>6
        <5>4. g * n \in Nat \ {0}
          BY WholeNumbers
        <5>5. asked - asked < g /\ asked - asked < g * n
          BY <2>3, <5>4
        <5> QED
          BY <5>3, <5>5 DEF OnTheGrid
      <4> QED
        BY <1>1, <2>3, <4>2, <4>3
    <3>3. CASE policy \notin {"fifo", "lifo"}
      <4>1. taken = ProRata(bin, at, asked)
        BY <1>4, <1>6, <2>3, <2>5, <3>3
      <4> QED
        BY <1>1, <2>3, <3>1, <4>1, ProRataFits
    <3> QED
      BY <3>2, <3>3
  <2> QED
    BY <2>3, <2>4, <2>5
<1> QED
  BY <1>5, <1>6
=============================================================================
