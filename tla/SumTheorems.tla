----------------------------- MODULE SumTheorems -----------------------------
(***************************************************************************)
(* What the sums of the models come to: MapThenSumSet of the community     *)
(* modules, over a finite set and for natural numbers.  It is a fold, that *)
(* is a recursive function on the subsets; each fact about it is shown for *)
(* a subset of least cardinality that would contradict it.                 *)
(***************************************************************************)
EXTENDS Integers, FiniteSets, FiniteSetsExt, TLAPS, FiniteSetTheorems, WellFoundedInduction

\* A set of naturals has a least element.
LEMMA LeastOfSet ==
  ASSUME NEW T \in SUBSET Nat, T # {}
  PROVE  \E n \in T : \A m \in T : n <= m
<1> DEFINE R == {ss \in Nat \X Nat : ss[1] < ss[2]}
<1>1. IsWellFoundedOn(R, Nat)
  BY NatLessThanWellFounded DEF OpToRel
<1>2. PICK n \in T : \A m \in T : ~(<<m, n>> \in R)
  BY <1>1, WFMin
<1>3. \A m \in T : ~(m < n)
  BY <1>2
<1>. QED  BY <1>3

\* The element a fold takes out of a set first.
One(s) == CHOOSE x \in s : TRUE

\* f gives the sum of G over each subset of S.
Adds(f, G, s) == IF s = {} THEN 0 ELSE G[One(s)] + f[s \ {One(s)}]
IsSum(f, G, S) == f = [s \in SUBSET S |-> Adds(f, G, s)]

\* The sum of G over S.
Total(G, S) == MapThenSumSet(LAMBDA x : G[x], S)

\* The subsets of a finite set that have an element less than another.
LEMMA Smaller ==
  ASSUME NEW S, IsFiniteSet(S), NEW s \in SUBSET S, NEW x \in s
  PROVE  /\ s \ {x} \in SUBSET S /\ IsFiniteSet(s)
         /\ Cardinality(s) \in Nat /\ Cardinality(s \ {x}) \in Nat
         /\ Cardinality(s \ {x}) = Cardinality(s) - 1
<1>1. IsFiniteSet(s)
  BY FS_Subset
<1>. QED  BY <1>1, FS_RemoveElement, FS_CardinalityType

\* A set of subsets of a finite set has a member of least cardinality.
LEMMA LeastSubset ==
  ASSUME NEW S, IsFiniteSet(S), NEW U \in SUBSET SUBSET S, U # {}
  PROVE  \E s \in U : \A x \in s : s \ {x} \notin U
<1> DEFINE T == {Cardinality(s) : s \in U}
<1>1. \A s \in U : Cardinality(s) \in Nat
  BY FS_Subset, FS_CardinalityType
<1>2. T \in SUBSET Nat /\ T # {}
  BY <1>1
<1>3. PICK n \in T : \A m \in T : n <= m
  BY <1>2, LeastOfSet
<1>4. PICK s \in U : n = Cardinality(s)
  BY <1>3
<1>5. ASSUME NEW x \in s, s \ {x} \in U PROVE FALSE
  <2>1. n <= Cardinality(s \ {x})
    BY <1>3, <1>5
  <2>. QED  BY <2>1, <1>4, <1>5, Smaller
<1>. QED  BY <1>5

\* Two sums of functions that agree on S agree on its subsets.
LEMMA SumsAgree ==
  ASSUME NEW S, IsFiniteSet(S), NEW S1, NEW S2, S \subseteq S1, S \subseteq S2, NEW G1, NEW G2,
         \A x \in S : G1[x] = G2[x], NEW f1, NEW f2, IsSum(f1, G1, S1), IsSum(f2, G2, S2)
  PROVE  \A s \in SUBSET S : f1[s] = f2[s]
<1> DEFINE U == {s \in SUBSET S : f1[s] # f2[s]}
<1>. SUFFICES ASSUME U # {} PROVE FALSE
  OBVIOUS
<1>1. PICK s \in U : \A x \in s : s \ {x} \notin U
  BY LeastSubset
<1>2. s \in SUBSET S1 /\ s \in SUBSET S2 /\ s \in SUBSET S
  OBVIOUS
<1>3. /\ f1[s] = IF s = {} THEN 0 ELSE G1[One(s)] + f1[s \ {One(s)}]
      /\ f2[s] = IF s = {} THEN 0 ELSE G2[One(s)] + f2[s \ {One(s)}]
  BY <1>2 DEF IsSum, Adds
<1>4. CASE s = {}
  BY <1>3, <1>4
<1>5. CASE s # {}
  <2>1. One(s) \in s
    BY <1>5 DEF One
  <2>2. f1[s \ {One(s)}] = f2[s \ {One(s)}]
    BY <1>1, <1>2, <2>1
  <2>. QED  BY <1>2, <1>3, <1>5, <2>1, <2>2
<1>. QED  BY <1>4, <1>5

\* There is a sum over the subsets with up to k elements.
UpTo(k, S) == {s \in SUBSET S : Cardinality(s) <= k}
HasSum(k, G, S) == \E f \in [UpTo(k, S) -> Nat] : \A s \in UpTo(k, S) : f[s] = Adds(f, G, s)

\* There is a sum over the empty set.
LEMMA NoneHasSum == ASSUME NEW S, IsFiniteSet(S), NEW G PROVE HasSum(0, G, S)
<1> DEFINE f == [s \in UpTo(0, S) |-> 0]
<1>1. ASSUME NEW s \in UpTo(0, S) PROVE s = {}
  <2>1. IsFiniteSet(s) /\ Cardinality(s) \in Nat /\ Cardinality(s) <= 0
    BY FS_Subset, FS_CardinalityType DEF UpTo
  <2>. QED  BY <2>1, FS_EmptySet
<1>2. f \in [UpTo(0, S) -> Nat] /\ \A s \in UpTo(0, S) : f[s] = Adds(f, G, s)
  BY <1>1 DEF Adds
<1>. HIDE DEF f
<1>. QED  BY <1>2 DEF HasSum

\* There is one over the subsets with one element more.
LEMMA OneMoreHasSum ==
  ASSUME NEW S, IsFiniteSet(S), NEW G, \A x \in S : G[x] \in Nat, NEW k \in Nat \ {0}, HasSum(k - 1, G, S)
  PROVE  HasSum(k, G, S)
<1>1. PICK f \in [UpTo(k - 1, S) -> Nat] : \A s \in UpTo(k - 1, S) : f[s] = Adds(f, G, s)
  BY DEF HasSum
<1> DEFINE g == [s \in UpTo(k, S) |-> Adds(f, G, s)]
<1>2. ASSUME NEW s \in UpTo(k, S), s # {} PROVE One(s) \in S /\ s \ {One(s)} \in UpTo(k - 1, S)
  <2>1. One(s) \in s
    BY <1>2 DEF One
  <2>. QED  BY <2>1, Smaller DEF UpTo
<1>3. \A s \in UpTo(k, S) : Adds(f, G, s) \in Nat
  BY <1>1, <1>2 DEF Adds
<1>4. ASSUME NEW s \in UpTo(k - 1, S) PROVE s \in UpTo(k, S) /\ g[s] = f[s]
  <2>1. Cardinality(s) \in Nat
    BY FS_Subset, FS_CardinalityType DEF UpTo
  <2>2. s \in UpTo(k, S)
    BY <2>1 DEF UpTo
  <2>. QED  BY <1>1, <2>2
<1>5. \A s \in UpTo(k, S) : g[s] = Adds(g, G, s)
  BY <1>2, <1>4 DEF Adds
<1>6. g \in [UpTo(k, S) -> Nat]
  BY <1>3
<1>. HIDE DEF g
<1>. QED  BY <1>5, <1>6 DEF HasSum

\* The sum exists, and is a natural number.
LEMMA SumExists ==
  ASSUME NEW S, IsFiniteSet(S), NEW G, \A x \in S : G[x] \in Nat
  PROVE  \E f \in [SUBSET S -> Nat] : IsSum(f, G, S)
<1>. PICK n : n = Cardinality(S)
  OBVIOUS
<1>1. n \in Nat
  BY FS_CardinalityType
<1>2. HasSum(n, G, S)
  <2> DEFINE Bad == {k \in Nat : ~HasSum(k, G, S)}
  <2>. SUFFICES ASSUME Bad # {} PROVE FALSE
    BY <1>1
  <2>1. PICK k \in Bad : \A m \in Bad : k <= m
    BY LeastOfSet
  <2>2. k \in Nat \ {0}
    BY <2>1, NoneHasSum
  <2>3. HasSum(k - 1, G, S)
    BY <2>1, <2>2
  <2>. QED  BY <2>1, <2>2, <2>3, OneMoreHasSum
<1>3. UpTo(n, S) = SUBSET S
  BY FS_Subset DEF UpTo
<1>4. PICK f \in [SUBSET S -> Nat] : \A s \in SUBSET S : f[s] = Adds(f, G, s)
  BY <1>2, <1>3 DEF HasSum
<1>5. f = [s \in SUBSET S |-> Adds(f, G, s)]
  BY <1>4
<1>. QED  BY <1>5 DEF IsSum
StepByStep(f, G, S) == \A s \in SUBSET S : \A x \in s : f[s] = G[x] + f[s \ {x}]

\* The sum over a set is the sum without one of its elements and that element,
\* whichever element it is.
LEMMA SumSteps ==
  ASSUME NEW S, IsFiniteSet(S), NEW G, \A x \in S : G[x] \in Nat,
         NEW f \in [SUBSET S -> Nat], IsSum(f, G, S)
  PROVE  StepByStep(f, G, S)
<1> DEFINE U == {s \in SUBSET S : \E x \in s : f[s] # G[x] + f[s \ {x}]}
<1>. SUFFICES ASSUME U # {} PROVE FALSE
  BY DEF StepByStep
<1>1. PICK s \in U : \A x \in s : s \ {x} \notin U
  BY LeastSubset
<1>2. PICK x \in s : f[s] # G[x] + f[s \ {x}]
  OBVIOUS
<1>. PICK y : y = One(s)
  OBVIOUS
<1>3. y \in s
  BY <1>2 DEF One
<1>4. f[s] = G[y] + f[s \ {y}]
  BY <1>3 DEF IsSum, Adds
<1>5. y # x
  BY <1>2, <1>4
<1> DEFINE t == (s \ {x}) \ {y}
<1>6. t = (s \ {y}) \ {x} /\ t \in SUBSET S /\ f[t] \in Nat
  OBVIOUS
<1>7. f[s \ {y}] = G[x] + f[t]
  <2>1. s \ {y} \in SUBSET S /\ x \in s \ {y}
    BY <1>5
  <2>2. \A z \in s \ {y} : f[s \ {y}] = G[z] + f[(s \ {y}) \ {z}]
    BY <1>1, <1>3, <2>1
  <2>. QED  BY <1>6, <2>1, <2>2
<1>8. f[s \ {x}] = G[y] + f[t]
  <2>1. s \ {x} \in SUBSET S /\ y \in s \ {x}
    BY <1>3, <1>5
  <2>2. \A z \in s \ {x} : f[s \ {x}] = G[z] + f[(s \ {x}) \ {z}]
    BY <1>1, <1>2, <2>1
  <2>. QED  BY <2>1, <2>2
<1>9. G[x] \in Nat /\ G[y] \in Nat
  BY <1>2, <1>3
<1>. HIDE DEF t
<1>. QED  BY <1>2, <1>4, <1>6, <1>7, <1>8, <1>9

\* A fold over a set is the value of the sum at that set.
LEMMA TotalIs ==
  ASSUME NEW S, IsFiniteSet(S), NEW G, \A x \in S : G[x] \in Nat, NEW f, IsSum(f, G, S),
         NEW T \in SUBSET S
  PROVE  Total(G, T) = f[T]
<1>. PICK h : h = (CHOOSE e : IsSum(e, G, T))
  OBVIOUS
<1>1. IsFiniteSet(T)
  BY FS_Subset
<1>2. \E e : IsSum(e, G, T)
  BY <1>1, SumExists
<1>3. IsSum(h, G, T)
  BY <1>2
<1>4. Total(G, T) = h[T]
  BY DEF Total, MapThenSumSet, MapThenFoldSet, IsSum, Adds, One
<1>5. h[T] = f[T]
  BY <1>1, <1>3, SumsAgree
<1>. QED  BY <1>4, <1>5

\* The sum over a finite set is a natural number, is 0 over the empty set, and
\* grows by the element that is added.
THEOREM TotalSums ==
  ASSUME NEW S, IsFiniteSet(S), NEW G, \A x \in S : G[x] \in Nat
  PROVE  /\ \A T \in SUBSET S : Total(G, T) \in Nat
         /\ Total(G, {}) = 0
         /\ \A T \in SUBSET S : \A x \in T : Total(G, T) = G[x] + Total(G, T \ {x})
<1>1. PICK f \in [SUBSET S -> Nat] : IsSum(f, G, S)
  BY SumExists
<1>2. \A T \in SUBSET S : Total(G, T) = f[T]
  BY <1>1, TotalIs
<1>3. f[{}] = 0
  BY <1>1 DEF IsSum, Adds
<1>4. \A T \in SUBSET S : \A x \in T : f[T] = G[x] + f[T \ {x}]
  <2>1. StepByStep(f, G, S)
    BY <1>1, SumSteps
  <2>. QED  BY <2>1 DEF StepByStep
<1>5. \A T \in SUBSET S : f[T] \in Nat
  BY <1>1
<1>. QED  BY <1>2, <1>3, <1>4, <1>5

\* Two functions that agree on a set have the same sum over it.
THEOREM TotalsAgree ==
  ASSUME NEW S, IsFiniteSet(S), NEW G, NEW H, \A x \in S : G[x] \in Nat /\ H[x] = G[x]
  PROVE  Total(G, S) = Total(H, S)
<1>1. PICK f \in [SUBSET S -> Nat] : IsSum(f, G, S)
  BY SumExists
<1>2. PICK g \in [SUBSET S -> Nat] : IsSum(g, H, S)
  BY SumExists
<1>3. f[S] = g[S]
  BY <1>1, <1>2, SumsAgree
<1>. QED  BY <1>1, <1>2, <1>3, TotalIs

\* A sum over fewer elements is no larger.
THEOREM TotalGrows ==
  ASSUME NEW S, IsFiniteSet(S), NEW G, \A x \in S : G[x] \in Nat, NEW T \in SUBSET S
  PROVE  Total(G, T) <= Total(G, S)
<1> DEFINE U == {s \in SUBSET S : T \subseteq s /\ ~(Total(G, T) <= Total(G, s))}
<1>. SUFFICES ASSUME U # {} PROVE FALSE
  OBVIOUS
<1>0. U \in SUBSET SUBSET S
  OBVIOUS
<1>1. PICK s \in U : \A x \in s : s \ {x} \notin U
  <2>. HIDE DEF U
  <2>. QED  BY <1>0, LeastSubset
<1>2. Total(G, T) \in Nat
  BY TotalSums
<1>2a. s # T
  BY <1>2
<1>3. PICK x \in s : x \notin T
  BY <1>2a
<1>4. Total(G, T) <= Total(G, s \ {x})
  BY <1>1, <1>3
<1>5. /\ Total(G, s) = G[x] + Total(G, s \ {x}) /\ G[x] \in Nat
      /\ Total(G, T) \in Nat /\ Total(G, s \ {x}) \in Nat
  BY <1>3, TotalSums
<1>. QED  BY <1>4, <1>5

\* Noughts add up to nought.
THEOREM NoughtsAddToNought ==
  ASSUME NEW S, IsFiniteSet(S)
  PROVE  Total([x \in S |-> 0], S) = 0
<1> DEFINE G == [x \in S |-> 0]
           U == {s \in SUBSET S : Total(G, s) # 0}
<1>1. \A x \in S : G[x] = 0
  OBVIOUS
<1>0. U \in SUBSET SUBSET S
  OBVIOUS
<1>. SUFFICES Total(G, S) = 0
  OBVIOUS
<1>. HIDE DEF G
<1>. SUFFICES ASSUME U # {} PROVE FALSE
  OBVIOUS
<1>7. Total(G, {}) = 0
  BY <1>1, TotalSums
<1>2. PICK s \in U : \A x \in s : s \ {x} \notin U
  <2>. HIDE DEF U
  <2>. QED  BY <1>0, LeastSubset
<1>3. s # {}
  BY <1>7
<1>4. PICK x \in s : TRUE
  BY <1>3
<1>5. Total(G, s \ {x}) = 0
  BY <1>2, <1>4
<1>6. Total(G, s) = G[x] + Total(G, s \ {x})
  BY <1>1, <1>4, TotalSums
<1>. QED  BY <1>1, <1>5, <1>6

\* A sum is no larger than another whose terms are no smaller, when what the other
\* leaves out is nought.
THEOREM TotalIsNoLarger ==
  ASSUME NEW S, IsFiniteSet(S), NEW T \in SUBSET S, NEW G, NEW H,
         \A x \in S : G[x] \in Nat, \A x \in T : H[x] \in Nat /\ G[x] <= H[x],
         \A x \in S \ T : G[x] = 0
  PROVE  Total(G, S) <= Total(H, T)
<1> DEFINE U == {s \in SUBSET S : ~(Total(G, s) <= Total(H, s \cap T))}
<1>. SUFFICES ASSUME U # {} PROVE FALSE
  <2>1. S \cap T = T
    OBVIOUS
  <2>. QED  BY <2>1
<1>0. U \in SUBSET SUBSET S
  OBVIOUS
<1>1. PICK s \in U : \A x \in s : s \ {x} \notin U
  <2>. HIDE DEF U
  <2>. QED  BY <1>0, LeastSubset
<1>2. IsFiniteSet(T)
  BY FS_Subset
<1>3. s # {}
  <2>1. Total(G, {}) = 0 /\ Total(H, {}) = 0 /\ {} \cap T = {}
    BY <1>2, TotalSums
  <2>. QED  BY <2>1
<1>4. PICK x \in s : TRUE
  BY <1>3
<1>5. Total(G, s \ {x}) <= Total(H, (s \ {x}) \cap T)
  BY <1>1, <1>4
<1>6. Total(G, s) = G[x] + Total(G, s \ {x}) /\ G[x] \in Nat /\ Total(G, s \ {x}) \in Nat
  BY <1>4, TotalSums
<1>7. \A t \in SUBSET T : Total(H, t) \in Nat
  BY <1>2, TotalSums
<1>8. CASE x \in T
  <2>1. Total(H, s \cap T) = H[x] + Total(H, (s \cap T) \ {x})
    BY <1>2, <1>4, <1>8, TotalSums
  <2>2. (s \cap T) \ {x} = (s \ {x}) \cap T
    OBVIOUS
  <2>3. Total(H, (s \ {x}) \cap T) \in Nat /\ H[x] \in Nat /\ G[x] <= H[x]
    BY <1>7, <1>8
  <2>4. Total(G, s) <= Total(H, s \cap T)
    BY <1>5, <1>6, <2>1, <2>2, <2>3
  <2>. QED  BY <2>4
<1>9. CASE x \notin T
  <2>1. G[x] = 0
    BY <1>4, <1>9
  <2>2. (s \ {x}) \cap T = s \cap T
    BY <1>9
  <2>3. Total(G, s) <= Total(H, s \cap T)
    <3>1. Total(H, (s \ {x}) \cap T) = Total(H, s \cap T)
      BY <2>2
    <3>. QED  BY <1>5, <1>6, <2>1, <3>1
  <2>. QED  BY <2>3
<1>. QED  BY <1>8, <1>9

\* When one term rises by n, so does the sum.
THEOREM TotalRises ==
  ASSUME NEW S, IsFiniteSet(S), NEW y \in S, NEW n \in Nat, NEW G, NEW H,
         \A x \in S : G[x] \in Nat, \A x \in S \ {y} : H[x] = G[x], H[y] = G[y] + n
  PROVE  Total(H, S) = Total(G, S) + n
<1>1. \A x \in S : H[x] \in Nat
  OBVIOUS
<1>2. /\ Total(G, S) = G[y] + Total(G, S \ {y}) /\ Total(G, S \ {y}) \in Nat
      /\ Total(H, S) = H[y] + Total(H, S \ {y})
  BY <1>1, TotalSums
<1>3. Total(H, S \ {y}) = Total(G, S \ {y})
  <2>1. IsFiniteSet(S \ {y}) /\ \A x \in S \ {y} : G[x] \in Nat /\ H[x] = G[x]
    BY FS_Subset
  <2>. QED  BY <2>1, TotalsAgree
<1>4. G[y] \in Nat
  OBVIOUS
<1>. QED  BY <1>2, <1>3, <1>4
=============================================================================
