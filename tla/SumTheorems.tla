----------------------------- MODULE SumTheorems -----------------------------
(***************************************************************************)
(* Sums over finite sets.  MapThenSumSet is a recursive function over the  *)
(* subsets of a set; what it does is shown here by the least-number        *)
(* principle, applied to the sizes of the subsets a claim would fail for.  *)
(***************************************************************************)
EXTENDS Naturals, FiniteSets, FiniteSetsExt, FiniteSetTheorems, WellFoundedInduction, TLAPS

LessThan == {p \in Nat \X Nat : p[1] < p[2]}

\* Every set of naturals with an element has a least one.
LEMMA LeastNatural ==
    ASSUME NEW T \in SUBSET Nat, T # {}
    PROVE  \E n \in T : \A m \in T : n <= m
  <1>1. IsWellFoundedOn(LessThan, Nat)
    BY NatLessThanWellFounded DEF OpToRel, LessThan
  <1>2. PICK n \in T : \A m \in T : ~(<<m, n>> \in LessThan)
    BY <1>1, WFMin
  <1>3. \A m \in T : n \in Nat /\ m \in Nat /\ ~(m < n)
    BY <1>2 DEF LessThan
  <1>4. \A m \in T : n <= m
    BY <1>3
  <1>5. QED BY <1>4

\* Induction over the naturals, for a set of them.
LEMMA SetInduction ==
    ASSUME NEW T \in SUBSET Nat, 0 \in T, \A n \in T : n + 1 \in T
    PROVE  T = Nat
  <1> SUFFICES ASSUME Nat \ T # {} PROVE FALSE
    OBVIOUS
  <1>1. PICK n \in Nat \ T : \A m \in Nat \ T : n <= m
    <2> DEFINE U == Nat \ T
    <2>1. U \in SUBSET Nat /\ U # {}
      OBVIOUS
    <2>2. \E n \in U : \A m \in U : n <= m
      <3> HIDE DEF U
      <3> QED BY <2>1, LeastNatural
    <2> QED BY <2>2
  <1>2. n - 1 \in Nat /\ n - 1 \notin Nat \ T
    BY <1>1
  <1>3. QED BY <1>1, <1>2

\* Induction over the subsets of a finite set, for a set of them.
LEMMA SubsetInduction ==
    ASSUME NEW S, IsFiniteSet(S), NEW F \in SUBSET (SUBSET S), {} \in F,
           \A s \in SUBSET S : s # {} /\ (\A x \in s : s \ {x} \in F) => s \in F
    PROVE  F = SUBSET S
  <1> DEFINE T == {n \in Nat : \A s \in SUBSET S : Cardinality(s) <= n => s \in F}
  <1>1. \A s \in SUBSET S : IsFiniteSet(s) /\ Cardinality(s) \in Nat
    BY FS_Subset, FS_CardinalityType
  <1>2. 0 \in T
    <2>1. \A s \in SUBSET S : Cardinality(s) <= 0 => s = {}
      BY <1>1, FS_EmptySet
    <2> QED BY <2>1
  <1>3. ASSUME NEW n \in T PROVE n + 1 \in T
    <2> SUFFICES ASSUME NEW s \in SUBSET S, Cardinality(s) <= n + 1
                 PROVE  s \in F
      BY <1>3
    <2>1. ASSUME NEW x \in s PROVE s \ {x} \in F
      <3>1. Cardinality(s \ {x}) = Cardinality(s) - 1 /\ s \ {x} \in SUBSET S
        BY <1>1, FS_RemoveElement
      <3>2. Cardinality(s \ {x}) <= n
        BY <1>1, <3>1
      <3> QED BY <3>1, <3>2
    <2> QED BY <2>1
  <1>4. T = Nat
    <2>1. T \in SUBSET Nat
      OBVIOUS
    <2> HIDE DEF T
    <2> QED BY <1>2, <1>3, <2>1, SetInduction
  <1>5. ASSUME NEW s \in SUBSET S PROVE s \in F
    <2>1. Cardinality(s) \in T
      BY <1>1, <1>4
    <2> QED BY <1>1, <2>1
  <1>6. QED BY <1>5

-----------------------------------------------------------------------------
(* The sum of g over S                                                     *)

SumOver(g, S) == MapThenSumSet(LAMBDA x : g[x], S)

\* The element the fold takes out of s first.
First(s) == CHOOSE x \in s : TRUE

\* One level of the recursion, which h is unfolded to.
SumStep(g, h, s) == IF s = {} THEN 0 ELSE g[First(s)] + h[s \ {First(s)}]

\* The recursive function of the fold.
PartialSums(g, S) == CHOOSE h : h = [s \in SUBSET S |-> SumStep(g, h, s)]

\* The fold is its recursive function, applied to the whole set.
LEMMA SumIsPartialSum ==
    ASSUME NEW g, NEW S
    PROVE  SumOver(g, S) = PartialSums(g, S)[S]
  BY DEF SumOver, MapThenSumSet, MapThenFoldSet, PartialSums, SumStep, First

\* A function that satisfies the recursion exists: it is built up by the size of
\* the subsets.
LEMMA PartialSumsUnfold ==
    ASSUME NEW g, NEW S, IsFiniteSet(S)
    PROVE  \A s \in SUBSET S : PartialSums(g, S)[s] = SumStep(g, PartialSums(g, S), s)
  <1> DEFINE Upto(h, n) == \A s \in SUBSET S : Cardinality(s) <= n => h[s] = SumStep(g, h, s)
             T == {n \in Nat : \E h : Upto(h, n)}
  <1>1. \A s \in SUBSET S : IsFiniteSet(s) /\ Cardinality(s) \in Nat
    BY FS_Subset, FS_CardinalityType
  <1>2. \A s \in SUBSET S : s # {} =>
           /\ First(s) \in s /\ s \ {First(s)} \in SUBSET S
           /\ Cardinality(s \ {First(s)}) = Cardinality(s) - 1
    BY <1>1, FS_RemoveElement DEF First
  <1>3. 0 \in T
    <2> DEFINE h == [s \in SUBSET S |-> 0]
    <2>1. \A s \in SUBSET S : Cardinality(s) <= 0 => s = {}
      BY <1>1, FS_EmptySet
    <2>2. Upto(h, 0)
      BY <2>1 DEF SumStep
    <2> QED BY <2>2
  <1>4. ASSUME NEW n \in T PROVE n + 1 \in T
    <2>1. PICK h : Upto(h, n)
      BY <1>4
    <2> DEFINE k == [s \in SUBSET S |-> SumStep(g, h, s)]
    <2>2. ASSUME NEW s \in SUBSET S, Cardinality(s) <= n PROVE k[s] = h[s]
      BY <2>1, <2>2
    <2>3. ASSUME NEW s \in SUBSET S, Cardinality(s) <= n + 1 PROVE k[s] = SumStep(g, k, s)
      <3>1. CASE s = {}
        BY <3>1 DEF SumStep
      <3>2. CASE s # {}
        <4>1. Cardinality(s \ {First(s)}) <= n /\ s \ {First(s)} \in SUBSET S
          BY <1>1, <1>2, <2>3, <3>2
        <4>2. k[s \ {First(s)}] = h[s \ {First(s)}]
          BY <2>2, <4>1
        <4>3. k[s] = SumStep(g, h, s)
          OBVIOUS
        <4> HIDE DEF k
        <4> QED BY <3>2, <4>2, <4>3 DEF SumStep
      <3> QED BY <3>1, <3>2
    <2>4. Upto(k, n + 1)
      BY <2>3
    <2>5. \E f : Upto(f, n + 1)
      <3> HIDE DEF k, Upto
      <3> QED BY <2>4
    <2> QED BY <2>5
  <1>5. T = Nat
    <2>1. T \in SUBSET Nat
      OBVIOUS
    <2> HIDE DEF T
    <2> QED BY <1>3, <1>4, <2>1, SetInduction
  <1>6. PICK h : Upto(h, Cardinality(S))
    <2>1. Cardinality(S) \in T
      BY <1>1, <1>5
    <2> QED BY <2>1
  <1>7. \A s \in SUBSET S : Cardinality(s) <= Cardinality(S)
    BY FS_Subset
  <1> DEFINE k == [s \in SUBSET S |-> h[s]]
  <1>8. ASSUME NEW s \in SUBSET S PROVE h[s] = SumStep(g, k, s)
    <2>1. h[s] = SumStep(g, h, s)
      BY <1>6, <1>7
    <2>2. s # {} => k[s \ {First(s)}] = h[s \ {First(s)}]
      BY <1>2
    <2> QED BY <2>1, <2>2 DEF SumStep
  <1>9. k = [s \in SUBSET S |-> SumStep(g, k, s)]
    BY <1>8
  <1>10. PartialSums(g, S) = [s \in SUBSET S |-> SumStep(g, PartialSums(g, S), s)]
    <2> HIDE DEF k
    <2> QED BY <1>9 DEF PartialSums
  <1>11. QED BY <1>10

\* Sums of naturals are naturals.
LEMMA SumType ==
    ASSUME NEW S, IsFiniteSet(S), NEW g \in [S -> Nat]
    PROVE  \A s \in SUBSET S : PartialSums(g, S)[s] \in Nat
  <1> DEFINE H == PartialSums(g, S)
             F == {s \in SUBSET S : H[s] \in Nat}
  <1>1. \A s \in SUBSET S : H[s] = SumStep(g, H, s)
    BY PartialSumsUnfold
  <1>2. {} \in F
    BY <1>1 DEF SumStep
  <1>3. ASSUME NEW s \in SUBSET S, s # {}, \A x \in s : s \ {x} \in F PROVE s \in F
    <2>1. First(s) \in s
      BY <1>3 DEF First
    <2>2. g[First(s)] \in Nat /\ H[s \ {First(s)}] \in Nat
      BY <1>3, <2>1
    <2>3. H[s] = g[First(s)] + H[s \ {First(s)}]
      BY <1>1, <1>3 DEF SumStep
    <2>4. H[s] \in Nat
      BY <2>2, <2>3
    <2> QED BY <2>4
  <1>4. F = SUBSET S
    <2>1. F \in SUBSET (SUBSET S)
      OBVIOUS
    <2> HIDE DEF F
    <2> QED BY <1>2, <1>3, <2>1, SubsetInduction
  <1>5. QED BY <1>4

\* The whole sum is one of them.
LEMMA SumIsNat ==
    ASSUME NEW S, IsFiniteSet(S), NEW g \in [S -> Nat]
    PROVE  SumOver(g, S) \in Nat
  BY SumType, SumIsPartialSum

\* Nothing adds up to nothing.
LEMMA SumOfZeros ==
    ASSUME NEW S, IsFiniteSet(S), NEW g, \A x \in S : g[x] = 0
    PROVE  SumOver(g, S) = 0
  <1> DEFINE H == PartialSums(g, S)
             F == {s \in SUBSET S : H[s] = 0}
  <1>1. \A s \in SUBSET S : H[s] = SumStep(g, H, s)
    BY PartialSumsUnfold
  <1>2. {} \in F
    BY <1>1 DEF SumStep
  <1>3. ASSUME NEW s \in SUBSET S, s # {}, \A x \in s : s \ {x} \in F PROVE s \in F
    <2>1. First(s) \in s
      BY <1>3 DEF First
    <2>2. g[First(s)] = 0 /\ H[s \ {First(s)}] = 0
      BY <1>3, <2>1
    <2>3. H[s] = g[First(s)] + H[s \ {First(s)}]
      BY <1>1, <1>3 DEF SumStep
    <2>4. H[s] = 0
      BY <2>2, <2>3
    <2> QED BY <2>4
  <1>4. F = SUBSET S
    <2>1. F \in SUBSET (SUBSET S)
      OBVIOUS
    <2> HIDE DEF F
    <2> QED BY <1>2, <1>3, <2>1, SubsetInduction
  <1>5. QED BY <1>4, SumIsPartialSum

\* A sum changes by as much as its one summand that changes.
LEMMA SumChange ==
    ASSUME NEW S, IsFiniteSet(S), NEW f \in [S -> Nat], NEW g \in [S -> Nat], NEW x \in S,
           \A y \in S \ {x} : g[y] = f[y]
    PROVE  SumOver(g, S) + f[x] = SumOver(f, S) + g[x]
  <1> DEFINE G == PartialSums(g, S)
             H == PartialSums(f, S)
             F == {s \in SUBSET S : IF x \in s THEN G[s] + f[x] = H[s] + g[x] ELSE G[s] = H[s]}
  <1>1. \A s \in SUBSET S : /\ G[s] = SumStep(g, G, s) /\ G[s] \in Nat
                            /\ H[s] = SumStep(f, H, s) /\ H[s] \in Nat
    BY PartialSumsUnfold, SumType
  <1>2. {} \in F
    BY <1>1 DEF SumStep
  <1>3. ASSUME NEW s \in SUBSET S, s # {}, \A y \in s : s \ {y} \in F PROVE s \in F
    <2> DEFINE y == First(s)
               t == s \ {y}
    <2>1. y \in s /\ y \in S /\ t \in SUBSET S /\ t \in F
      BY <1>3 DEF First
    <2>2. G[s] = g[y] + G[t] /\ H[s] = f[y] + H[t]
      BY <1>1, <1>3 DEF SumStep
    <2>3. G[t] \in Nat /\ H[t] \in Nat /\ f[x] \in Nat /\ g[x] \in Nat /\ f[y] \in Nat /\ g[y] \in Nat
      BY <1>1, <2>1
    <2>4. CASE y = x
      <3>1. G[t] = H[t] /\ x \in s
        BY <2>1, <2>4
      <3>2. G[s] + f[x] = H[s] + g[x]
        BY <2>2, <2>3, <2>4, <3>1
      <3> QED BY <3>1, <3>2
    <2>5. CASE y # x /\ x \in s
      <3>1. G[t] + f[x] = H[t] + g[x] /\ g[y] = f[y]
        BY <2>1, <2>5
      <3>2. G[s] + f[x] = H[s] + g[x]
        BY <2>2, <2>3, <3>1
      <3> QED BY <2>5, <3>2
    <2>6. CASE x \notin s
      <3>1. G[t] = H[t] /\ g[y] = f[y]
        BY <2>1, <2>6
      <3>2. G[s] = H[s]
        BY <2>2, <3>1
      <3> QED BY <2>6, <3>2
    <2> QED BY <2>4, <2>5, <2>6
  <1>4. F = SUBSET S
    <2>1. F \in SUBSET (SUBSET S)
      OBVIOUS
    <2> HIDE DEF F
    <2> QED BY <1>2, <1>3, <2>1, SubsetInduction
  <1>5. QED BY <1>4, SumIsPartialSum

\* A sum of naturals is no less than any one of them.
LEMMA SumBoundsEach ==
    ASSUME NEW S, IsFiniteSet(S), NEW g \in [S -> Nat], NEW x \in S
    PROVE  g[x] <= SumOver(g, S)
  <1> DEFINE f == [g EXCEPT ![x] = 0]
  <1>1. f \in [S -> Nat] /\ f[x] = 0 /\ \A y \in S \ {x} : g[y] = f[y]
    OBVIOUS
  <1> HIDE DEF f
  <1>2. SumOver(g, S) + f[x] = SumOver(f, S) + g[x]
    BY <1>1, SumChange
  <1>3. SumOver(g, S) \in Nat /\ SumOver(f, S) \in Nat /\ g[x] \in Nat
    BY <1>1, SumIsNat
  <1>4. QED BY <1>1, <1>2, <1>3

\* A summand that grows by one makes the sum grow by one.
LEMMA SumGrows ==
    ASSUME NEW S, IsFiniteSet(S), NEW f \in [S -> Nat], NEW x \in S
    PROVE  SumOver([f EXCEPT ![x] = @ + 1], S) = SumOver(f, S) + 1
  <1> DEFINE g == [f EXCEPT ![x] = f[x] + 1]
  <1>1. g \in [S -> Nat] /\ g[x] = f[x] + 1 /\ \A y \in S \ {x} : g[y] = f[y]
    OBVIOUS
  <1>2. g = [f EXCEPT ![x] = @ + 1]
    OBVIOUS
  <1> HIDE DEF g
  <1>3. SumOver(g, S) + f[x] = SumOver(f, S) + g[x]
    BY <1>1, SumChange
  <1>4. SumOver(g, S) \in Nat /\ SumOver(f, S) \in Nat /\ f[x] \in Nat
    BY <1>1, SumIsNat
  <1>5. SumOver(g, S) = SumOver(f, S) + 1
    BY <1>1, <1>3, <1>4
  <1>6. QED BY <1>2, <1>5

-----------------------------------------------------------------------------
(* The sums over parts of a set                                            *)

\* A sum looks at nothing but the values on its set.
LEMMA SumAgrees ==
    ASSUME NEW S, IsFiniteSet(S), NEW f, NEW g, \A x \in S : f[x] = g[x]
    PROVE  SumOver(f, S) = SumOver(g, S)
  <1> DEFINE G == PartialSums(g, S)
             H == PartialSums(f, S)
             F == {s \in SUBSET S : G[s] = H[s]}
  <1>1. \A s \in SUBSET S : G[s] = SumStep(g, G, s) /\ H[s] = SumStep(f, H, s)
    BY PartialSumsUnfold
  <1>2. {} \in F
    BY <1>1 DEF SumStep
  <1>3. ASSUME NEW s \in SUBSET S, s # {}, \A x \in s : s \ {x} \in F PROVE s \in F
    <2>1. First(s) \in s
      BY <1>3 DEF First
    <2>2. G[s \ {First(s)}] = H[s \ {First(s)}] /\ g[First(s)] = f[First(s)]
      BY <1>3, <2>1
    <2>3. G[s] = g[First(s)] + G[s \ {First(s)}] /\ H[s] = f[First(s)] + H[s \ {First(s)}]
      BY <1>1, <1>3 DEF SumStep
    <2> QED BY <2>2, <2>3
  <1>4. F = SUBSET S
    <2>1. F \in SUBSET (SUBSET S)
      OBVIOUS
    <2> HIDE DEF F
    <2> QED BY <1>2, <1>3, <2>1, SubsetInduction
  <1>5. G[S] = H[S]
    BY <1>4
  <1>6. QED BY <1>5, SumIsPartialSum

\* The recursive function of a set is that of each of its subsets.
LEMMA SumWithin ==
    ASSUME NEW S, IsFiniteSet(S), NEW g, NEW T \in SUBSET S
    PROVE  SumOver(g, T) = PartialSums(g, S)[T]
  <1> DEFINE G == PartialSums(g, S)
             H == PartialSums(g, T)
             F == {s \in SUBSET T : G[s] = H[s]}
  <1>1. IsFiniteSet(T)
    BY FS_Subset
  <1>2. /\ \A s \in SUBSET S : G[s] = SumStep(g, G, s)
        /\ \A s \in SUBSET T : H[s] = SumStep(g, H, s)
    BY <1>1, PartialSumsUnfold
  <1>3. {} \in F
    BY <1>2 DEF SumStep
  <1>4. ASSUME NEW s \in SUBSET T, s # {}, \A x \in s : s \ {x} \in F PROVE s \in F
    <2>1. First(s) \in s
      BY <1>4 DEF First
    <2>2. G[s \ {First(s)}] = H[s \ {First(s)}]
      BY <1>4, <2>1
    <2>3. G[s] = g[First(s)] + G[s \ {First(s)}] /\ H[s] = g[First(s)] + H[s \ {First(s)}]
      <3>1. s \in SUBSET S
        OBVIOUS
      <3> QED BY <1>2, <1>4, <3>1 DEF SumStep
    <2> QED BY <2>2, <2>3
  <1>5. F = SUBSET T
    <2>1. F \in SUBSET (SUBSET T)
      OBVIOUS
    <2> HIDE DEF F
    <2> QED BY <1>1, <1>3, <1>4, <2>1, SubsetInduction
  <1>6. G[T] = H[T]
    BY <1>5
  <1>7. QED BY <1>1, <1>6, SumIsPartialSum

\* The fold takes its elements in an order of its own: any other would do.
LEMMA SumTakesAny ==
    ASSUME NEW S, IsFiniteSet(S), NEW g \in [S -> Nat], NEW s \in SUBSET S, NEW x \in s
    PROVE  PartialSums(g, S)[s] = g[x] + PartialSums(g, S)[s \ {x}]
  <1> DEFINE H == PartialSums(g, S)
             F == {t \in SUBSET S : \A y \in t : H[t] = g[y] + H[t \ {y}]}
  <1>1. \A t \in SUBSET S : H[t] = SumStep(g, H, t) /\ H[t] \in Nat
    BY PartialSumsUnfold, SumType
  <1>2. {} \in F
    OBVIOUS
  <1>3. ASSUME NEW t \in SUBSET S, t # {}, \A y \in t : t \ {y} \in F PROVE t \in F
    <2> SUFFICES ASSUME NEW y \in t PROVE H[t] = g[y] + H[t \ {y}]
      OBVIOUS
    <2> DEFINE z == First(t)
    <2>1. z \in t
      BY <1>3 DEF First
    <2>2. H[t] = g[z] + H[t \ {z}]
      BY <1>1, <1>3 DEF SumStep
    <2> HIDE DEF z, H
    <2>3. CASE y = z
      BY <2>2, <2>3
    <2>4. CASE y # z
      <3>1. H[t \ {z}] = g[y] + H[(t \ {z}) \ {y}]
        BY <1>3, <2>1, <2>4
      <3>2. H[t \ {y}] = g[z] + H[(t \ {y}) \ {z}]
        BY <1>3, <2>1, <2>4
      <3>3. (t \ {y}) \ {z} = (t \ {z}) \ {y}
        OBVIOUS
      <3>4. H[(t \ {z}) \ {y}] \in Nat /\ g[y] \in Nat /\ g[z] \in Nat
        BY <1>1, <2>1
      <3>5. PICK c \in Nat : c = H[(t \ {z}) \ {y}]
        BY <3>4
      <3>6. H[t \ {y}] = g[z] + c /\ H[t \ {z}] = g[y] + c
        BY <3>1, <3>2, <3>3, <3>5
      <3>7. H[t] = g[z] + (g[y] + c) /\ g[y] + H[t \ {y}] = g[y] + (g[z] + c)
        BY <2>2, <3>6
      <3>8. g[z] + (g[y] + c) = g[y] + (g[z] + c)
        BY <3>4
      <3> QED BY <3>7, <3>8
    <2> QED BY <2>3, <2>4
  <1>4. F = SUBSET S
    <2>1. F \in SUBSET (SUBSET S)
      OBVIOUS
    <2> HIDE DEF F
    <2> QED BY <1>2, <1>3, <2>1, SubsetInduction
  <1>5. QED BY <1>4

\* One element more adds its value.
LEMMA SumOfOneMore ==
    ASSUME NEW S, IsFiniteSet(S)
    PROVE  \A g \in [S -> Nat], T \in SUBSET S : \A x \in S \ T :
              SumOver(g, T \cup {x}) = SumOver(g, T) + g[x]
  <1> SUFFICES ASSUME NEW g \in [S -> Nat], NEW T \in SUBSET S, NEW x \in S \ T
               PROVE  SumOver(g, T \cup {x}) = SumOver(g, T) + g[x]
    OBVIOUS
  <1> DEFINE H == PartialSums(g, S)
  <1>1. T \cup {x} \in SUBSET S /\ x \in T \cup {x} /\ (T \cup {x}) \ {x} = T
    OBVIOUS
  <1>2. H[T \cup {x}] = g[x] + H[(T \cup {x}) \ {x}]
    BY <1>1, SumTakesAny
  <1>3. SumOver(g, T \cup {x}) = H[T \cup {x}] /\ SumOver(g, T) = H[T]
    BY <1>1, SumWithin
  <1>4. H[T] \in Nat /\ g[x] \in Nat
    BY SumType
  <1> HIDE DEF H
  <1>5. SumOver(g, T \cup {x}) = g[x] + H[T]
    BY <1>1, <1>2, <1>3
  <1>6. g[x] + H[T] = H[T] + g[x]
    BY <1>4
  <1>7. QED BY <1>3, <1>5, <1>6

\* A part does not add up to more than the whole.
LEMMA SumOfPart ==
    ASSUME NEW S, IsFiniteSet(S), NEW g \in [S -> Nat], NEW T \in SUBSET S
    PROVE  /\ SumOver(g, T) \in Nat /\ SumOver(g, S) \in Nat
           /\ SumOver(g, T) <= SumOver(g, S)
  <1> DEFINE H == PartialSums(g, S)
             F == {s \in SUBSET (S \ T) : H[T] <= H[T \cup s]}
  <1>1. \A s \in SUBSET S : H[s] \in Nat
    BY SumType
  <1>2. {} \in F
    BY <1>1
  <1>3. ASSUME NEW s \in SUBSET (S \ T), s # {}, \A x \in s : s \ {x} \in F PROVE s \in F
    <2>1. PICK x \in s : TRUE
      BY <1>3
    <2>2. /\ T \cup s \in SUBSET S /\ x \in T \cup s
          /\ (T \cup s) \ {x} = T \cup (s \ {x}) /\ T \cup (s \ {x}) \in SUBSET S
      OBVIOUS
    <2>3. H[T \cup s] = g[x] + H[T \cup (s \ {x})]
      BY <2>2, SumTakesAny
    <2>4. H[T] <= H[T \cup (s \ {x})]
      BY <1>3
    <2>5. /\ H[T] \in Nat /\ H[T \cup s] \in Nat /\ H[T \cup (s \ {x})] \in Nat
          /\ g[x] \in Nat
      BY <1>1, <2>2
    <2> HIDE DEF H
    <2>6. H[T] <= H[T \cup s]
      BY <2>3, <2>4, <2>5
    <2> QED BY <2>6
  <1>4. F = SUBSET (S \ T)
    <2>1. F \in SUBSET (SUBSET (S \ T)) /\ IsFiniteSet(S \ T)
      BY FS_Subset
    <2> HIDE DEF F
    <2> QED BY <1>2, <1>3, <2>1, SubsetInduction
  <1>5. H[T] <= H[T \cup (S \ T)] /\ T \cup (S \ T) = S
    BY <1>4
  <1>6. SumOver(g, T) = H[T] /\ SumOver(g, S) = H[S]
    BY SumWithin
  <1>7. QED BY <1>1, <1>5, <1>6

\* Summands that are no larger add up to no more.
LEMMA SumAtMost ==
    ASSUME NEW S, IsFiniteSet(S), NEW f \in [S -> Nat], NEW g \in [S -> Nat],
           \A x \in S : f[x] <= g[x]
    PROVE  /\ SumOver(f, S) \in Nat /\ SumOver(g, S) \in Nat
           /\ SumOver(f, S) <= SumOver(g, S)
  <1> DEFINE G == PartialSums(g, S)
             H == PartialSums(f, S)
             F == {s \in SUBSET S : H[s] <= G[s]}
  <1>1. \A s \in SUBSET S : /\ G[s] = SumStep(g, G, s) /\ G[s] \in Nat
                            /\ H[s] = SumStep(f, H, s) /\ H[s] \in Nat
    <2>1. \A s \in SUBSET S : G[s] = SumStep(g, G, s) /\ H[s] = SumStep(f, H, s)
      BY PartialSumsUnfold
    <2>2. \A s \in SUBSET S : G[s] \in Nat /\ H[s] \in Nat
      BY SumType
    <2> QED BY <2>1, <2>2
  <1>2. {} \in F
    <2>1. G[{}] = 0 /\ H[{}] = 0
      BY <1>1 DEF SumStep
    <2> QED BY <2>1
  <1>3. ASSUME NEW s \in SUBSET S, s # {}, \A x \in s : s \ {x} \in F PROVE s \in F
    <2>1. PICK x \in s : x = First(s)
      BY <1>3 DEF First
    <2>2. G[s] = g[x] + G[s \ {x}] /\ H[s] = f[x] + H[s \ {x}]
      BY <1>1, <1>3, <2>1 DEF SumStep
    <2>3. H[s \ {x}] <= G[s \ {x}] /\ s \ {x} \in SUBSET S /\ x \in S
      BY <1>3
    <2>4. /\ f[x] \in Nat /\ g[x] \in Nat /\ f[x] <= g[x]
          /\ G[s] \in Nat /\ H[s] \in Nat /\ G[s \ {x}] \in Nat /\ H[s \ {x}] \in Nat
      BY <1>1, <2>3
    <2> HIDE DEF G, H
    <2>5. H[s] <= G[s]
      BY <2>2, <2>3, <2>4
    <2> QED BY <2>5
  <1>4. F = SUBSET S
    <2>1. F \in SUBSET (SUBSET S)
      OBVIOUS
    <2> HIDE DEF F
    <2> QED BY <1>2, <1>3, <2>1, SubsetInduction
  <1>5. H[S] <= G[S]
    BY <1>4
  <1>6. QED BY <1>5, SumIsNat, SumIsPartialSum

\* The same, when one summand is smaller.
LEMMA SumLess ==
    ASSUME NEW S, IsFiniteSet(S), NEW f \in [S -> Nat], NEW g \in [S -> Nat],
           \A x \in S : f[x] <= g[x], NEW z \in S, f[z] + 1 <= g[z]
    PROVE  SumOver(f, S) + 1 <= SumOver(g, S)
  <1> DEFINE h == [f EXCEPT ![z] = f[z] + 1]
  <1>1. h \in [S -> Nat] /\ \A x \in S : h[x] <= g[x]
    OBVIOUS
  <1>2. h = [f EXCEPT ![z] = @ + 1]
    OBVIOUS
  <1>3. SumOver(h, S) = SumOver(f, S) + 1
    BY <1>2, SumGrows
  <1> HIDE DEF h
  <1>4. SumOver(h, S) <= SumOver(g, S)
    BY <1>1, SumAtMost
  <1> QED BY <1>3, <1>4

\* Two sets that agree but for one element.
LEMMA SetsButOne ==
    ASSUME NEW U, IsFiniteSet(U), NEW S \in SUBSET U, NEW T \in SUBSET U,
           NEW r \in U, \A q \in U \ {r} : q \in S <=> q \in T
    PROVE  /\ Cardinality(S) \in Nat /\ Cardinality(T) \in Nat
           /\ Cardinality(T) + (IF r \in S THEN 1 ELSE 0) = Cardinality(S) + (IF r \in T THEN 1 ELSE 0)
  <1> DEFINE R == S \ {r}
  <1>1. IsFiniteSet(S) /\ IsFiniteSet(T) /\ IsFiniteSet(R) /\ R \in SUBSET U
    BY FS_Subset
  <1>2. Cardinality(R) \in Nat /\ Cardinality(S) \in Nat /\ Cardinality(T) \in Nat
    BY <1>1, FS_CardinalityType
  <1>3. r \notin R /\ (S = IF r \in S THEN R \cup {r} ELSE R) /\ (T = IF r \in T THEN R \cup {r} ELSE R)
    OBVIOUS
  <1>4. Cardinality(R \cup {r}) = Cardinality(R) + 1
    BY <1>1, <1>3, FS_AddElement
  <1> HIDE DEF R
  <1>5. Cardinality(S) = Cardinality(R) + (IF r \in S THEN 1 ELSE 0)
    <2>1. CASE r \in S
      <3>1. S = R \cup {r}
        BY <1>3, <2>1
      <3>2. Cardinality(S) = Cardinality(R) + 1
        BY <1>4, <3>1
      <3> QED BY <2>1, <3>2
    <2>2. CASE r \notin S
      <3>1. S = R
        BY <1>3, <2>2
      <3> QED BY <1>2, <2>2, <3>1
    <2> QED BY <2>1, <2>2
  <1>6. Cardinality(T) = Cardinality(R) + (IF r \in T THEN 1 ELSE 0)
    <2>1. CASE r \in T
      <3>1. T = R \cup {r}
        BY <1>3, <2>1
      <3>2. Cardinality(T) = Cardinality(R) + 1
        BY <1>4, <3>1
      <3> QED BY <2>1, <3>2
    <2>2. CASE r \notin T
      <3>1. T = R
        BY <1>3, <2>2
      <3> QED BY <1>2, <2>2, <3>1
    <2> QED BY <2>1, <2>2
  <1> QED BY <1>2, <1>5, <1>6

\* A sequence of values moved up by one place, with nothing in the first.
LEMMA SumMovesUp ==
    ASSUME NEW m \in Nat, NEW g \in [0 .. m -> Nat], NEW h \in [0 .. m -> Nat],
           h[0] = 0, \A i \in 1 .. m : h[i] = g[i - 1], NEW k \in 0 .. m
    PROVE  SumOver(h, 0 .. k) = SumOver(g, 0 .. (k - 1))
  <1> DEFINE S == 0 .. m
             T == {n \in Nat : n <= m => SumOver(h, 0 .. n) = SumOver(g, 0 .. (n - 1))}
  <1>0. g \in [S -> Nat] /\ h \in [S -> Nat]
    OBVIOUS
  <1>1. IsFiniteSet(S)
    BY FS_Interval
  <1>2. \A f \in [S -> Nat], U \in SUBSET S : \A x \in S \ U :
           SumOver(f, U \cup {x}) = SumOver(f, U) + f[x]
    <2> HIDE DEF S
    <2> QED BY <1>1, SumOfOneMore, Zenon
  <1>3. 0 \in T
    <2>1. 0 .. 0 = {0} /\ 0 .. (0 - 1) = {}
      OBVIOUS
    <2>2. SumOver(h, {0}) = 0 /\ SumOver(g, {}) = 0
      BY FS_Singleton, FS_EmptySet, SumOfZeros
    <2> QED BY <2>1, <2>2
  <1>4. ASSUME NEW n \in T PROVE n + 1 \in T
    <2> SUFFICES ASSUME n + 1 <= m
                 PROVE  SumOver(h, 0 .. (n + 1)) = SumOver(g, 0 .. (n + 1 - 1))
      OBVIOUS
    <2>1. n \in Nat /\ n <= m /\ SumOver(h, 0 .. n) = SumOver(g, 0 .. (n - 1))
      OBVIOUS
    <2> HIDE DEF T
    <2>2. /\ 0 .. (n + 1) = (0 .. n) \cup {n + 1} /\ n + 1 \in S \ (0 .. n)
          /\ 0 .. (n + 1 - 1) = (0 .. (n - 1)) \cup {n} /\ n \in S \ (0 .. (n - 1))
          /\ 0 .. n \in SUBSET S /\ 0 .. (n - 1) \in SUBSET S
      <3>1. n + 1 \in S /\ n \in S /\ n + 1 \notin 0 .. n /\ n \notin 0 .. (n - 1)
        BY <2>1
      <3>2. 0 .. n \subseteq S /\ 0 .. (n - 1) \subseteq S
        BY <2>1
      <3>3. 0 .. (n + 1) = (0 .. n) \cup {n + 1}
        BY <2>1
      <3>4. 0 .. (n + 1 - 1) = (0 .. (n - 1)) \cup {n}
        BY <2>1
      <3> QED BY <3>1, <3>2, <3>3, <3>4
    <2>3. SumOver(h, (0 .. n) \cup {n + 1}) = SumOver(h, 0 .. n) + h[n + 1]
      <3> HIDE DEF S
      <3> QED BY <1>0, <1>2, <2>2, Zenon
    <2>4. SumOver(g, (0 .. (n - 1)) \cup {n}) = SumOver(g, 0 .. (n - 1)) + g[n]
      <3> HIDE DEF S
      <3> QED BY <1>0, <1>2, <2>2, Zenon
    <2>5. h[n + 1] = g[n]
      <3>1. n + 1 \in 1 .. m /\ n + 1 - 1 = n
        BY <2>1
      <3>2. h[n + 1] = g[n + 1 - 1]
        BY <2>1, <3>1
      <3> QED BY <3>1, <3>2
    <2> QED BY <2>1, <2>2, <2>3, <2>4, <2>5
  <1>5. T = Nat
    <2>1. T \in SUBSET Nat
      OBVIOUS
    <2> HIDE DEF T
    <2> QED BY <1>3, <1>4, <2>1, SetInduction
  <1>6. k \in Nat /\ k <= m
    OBVIOUS
  <1>7. k \in T
    <2> HIDE DEF T
    <2> QED BY <1>5, <1>6
  <1>8. QED BY <1>6, <1>7

=============================================================================
