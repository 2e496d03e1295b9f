----------------------------- MODULE SumTheorems -----------------------------
(***************************************************************************)
(* Facts about sums over finite sets and about least and greatest members, *)
(* shared by the proofs of the other modules.  MapThenSumSet is a recursive*)
(* function on subsets; a sum is reasoned about through Sums(v, S, g), "g  *)
(* sums v over every subset of S", and an induction on the size of the     *)
(* subset, stated as: the set of the sizes at which a fact fails has no    *)
(* least element.                                                          *)
(***************************************************************************)
EXTENDS Integers, FiniteSetsExt, FiniteSetTheorems, WellFoundedInduction, TLAPS

(* Every nonempty set of naturals has a least element: the form in which   *)
(* induction is used below.                                                *)
LEMMA LeastNat ==
  ASSUME NEW T, T \subseteq Nat, T # {}
  PROVE  \E n \in T : \A m \in T : n <= m
<1>1. \E n \in T : \A m \in T : ~(<<m, n>> \in OpToRel(<, Nat))
  BY NatLessThanWellFounded, WFMin
<1>2. PICK n \in T : \A m \in T : ~(<<m, n>> \in OpToRel(<, Nat))
  BY <1>1
<1>3. ASSUME NEW m \in T PROVE n <= m
  <2>1. <<m, n>> \in Nat \X Nat
    OBVIOUS
  <2>2. ~(m < n)
    BY <1>2, <2>1 DEF OpToRel
  <2> QED
    BY <2>2
<1> QED
  BY <1>3

(* A nonempty set of positions has a greatest one, the one FoldLeft takes  *)
(* last.                                                                   *)
LEMMA GreatestIn ==
  ASSUME NEW n \in Nat, NEW T, T \subseteq 1..n, T # {}
  PROVE  Max(T) \in T /\ \A m \in T : m <= Max(T)
<1> DEFINE U == {k \in Nat : n - k \in T}
<1>1. U # {}
  <2>1. PICK m \in T : TRUE
    OBVIOUS
  <2>2. n - m \in Nat /\ n - (n - m) = m
    BY <2>1
  <2> QED
    BY <2>1, <2>2
<1>2. PICK k \in U : \A m \in U : k <= m
  BY <1>1, LeastNat
<1>3. n - k \in T
  OBVIOUS
<1>4. ASSUME NEW m \in T PROVE m <= n - k
  <2>1. n - m \in Nat /\ n - (n - m) = m /\ m \in Int
    OBVIOUS
  <2>2. n - m \in U
    BY <2>1
  <2> QED
    BY <1>2, <2>1, <2>2
<1> QED
  BY <1>3, <1>4 DEF Max

(* The element a sum takes next, and the functions that sum v.             *)
Pick(s) == CHOOSE x \in s : TRUE

(* The functions that sum v over the subsets of S.                         *)
Sums(v, S, g) == g = [s \in SUBSET S |-> IF s = {} THEN 0 ELSE v[Pick(s)] + g[s \ {Pick(s)}]]

(* The subsets of a finite set are finite, and lose one element when the   *)
(* chosen one is removed.                                                  *)
LEMMA SubsetFacts ==
  ASSUME NEW S, IsFiniteSet(S), NEW T, T \subseteq S
  PROVE  /\ IsFiniteSet(T) /\ Cardinality(T) \in Nat
         /\ Cardinality(T) = 0 <=> T = {}
         /\ T # {} => /\ Pick(T) \in T
                      /\ Cardinality(T \ {Pick(T)}) = Cardinality(T) - 1
<1>1. IsFiniteSet(T) /\ Cardinality(T) \in Nat
  BY FS_Subset, FS_CardinalityType
<1>2. T # {} => Pick(T) \in T
  BY DEF Pick
<1>3. T # {} => Cardinality(T \ {Pick(T)}) = Cardinality(T) - 1
  BY <1>1, <1>2, FS_RemoveElement
<1>4. Cardinality(T) = 0 <=> T = {}
  BY <1>1, FS_EmptySet
<1> QED
  BY <1>1, <1>2, <1>3, <1>4

(* The recursive definition of a sum over a finite set has a solution.     *)
LEMMA IterExists ==
  ASSUME NEW S, IsFiniteSet(S), NEW v
  PROVE  \E g : Sums(v, S, g)
<1> DEFINE D(n) == {T \in SUBSET S : Cardinality(T) \in 0..n}
           Good(n) == \E g : g = [s \in D(n) |-> IF s = {} THEN 0 ELSE v[Pick(s)] + g[s \ {Pick(s)}]]
           Bad == {n \in Nat : ~Good(n)}
<1>2. Good(0)
  <2> DEFINE g == [s \in D(0) |-> 0]
  <2>1. ASSUME NEW s \in D(0) PROVE s = {}
    <3>1. s \subseteq S /\ Cardinality(s) = 0
      OBVIOUS
    <3> QED
      BY <3>1, SubsetFacts
  <2>2. g = [s \in D(0) |-> IF s = {} THEN 0 ELSE v[Pick(s)] + g[s \ {Pick(s)}]]
    BY <2>1
  <2> QED
    BY <2>2
<1>3. ASSUME NEW n \in Nat, Good(n) PROVE Good(n + 1)
  <2>1. PICK g : g = [s \in D(n) |-> IF s = {} THEN 0 ELSE v[Pick(s)] + g[s \ {Pick(s)}]]
    BY <1>3
  <2> DEFINE h == [s \in D(n + 1) |-> IF s = {} THEN 0 ELSE v[Pick(s)] + g[s \ {Pick(s)}]]
  <2>2. ASSUME NEW s \in D(n) PROVE s \in D(n + 1) /\ h[s] = g[s]
    <3>1. s \in D(n + 1)
      OBVIOUS
    <3> QED
      BY <2>1, <3>1
  <2>3. ASSUME NEW s \in D(n + 1), s # {} PROVE s \ {Pick(s)} \in D(n)
    BY <2>3, SubsetFacts
  <2> HIDE DEF D
  <2>4. h = [s \in D(n + 1) |-> IF s = {} THEN 0 ELSE v[Pick(s)] + h[s \ {Pick(s)}]]
    BY <2>2, <2>3
  <2> QED
    BY <2>4
<1> HIDE DEF Good
<1>4. Bad = {}
  <2> SUFFICES ASSUME Bad # {} PROVE FALSE
    OBVIOUS
  <2>1. PICK n \in Bad : \A m \in Bad : n <= m
    BY LeastNat
  <2>2. n # 0
    BY <1>2, <2>1
  <2>3. n - 1 \in Nat /\ Good(n - 1)
    BY <2>1, <2>2
  <2>4. Good((n - 1) + 1)
    BY <1>3, <2>3
  <2> QED
    BY <2>1, <2>4
<1>5. D(Cardinality(S)) = SUBSET S
  BY FS_Subset, FS_CardinalityType
<1>6. Good(Cardinality(S))
  BY <1>4, FS_CardinalityType
<1> QED
  BY <1>5, <1>6 DEF Sums, Good

(* The sum of v over S.                                                    *)
SumOver(v, S) == MapThenSumSet(LAMBDA x : v[x], S)

(* Two solutions for values that agree on U agree on every subset of U.    *)
LEMMA SumsAgree ==
  ASSUME NEW S, IsFiniteSet(S), NEW U, U \subseteq S,
         NEW v, NEW w, \A x \in U : v[x] = w[x],
         NEW g, Sums(v, S, g), NEW h, Sums(w, U, h)
  PROVE  \A T \in SUBSET U : g[T] = h[T]
<1> DEFINE Bad == {n \in Nat : \E T \in SUBSET U : Cardinality(T) = n /\ g[T] # h[T]}
<1>1. Bad = {}
  <2> SUFFICES ASSUME Bad # {} PROVE FALSE
    OBVIOUS
  <2>1. PICK n \in Bad : \A m \in Bad : n <= m
    BY LeastNat
  <2>2. PICK T \in SUBSET U : Cardinality(T) = n /\ g[T] # h[T]
    BY <2>1
  <2>3. T # {}
    BY <2>2 DEF Sums
  <2>4. T \subseteq S
    OBVIOUS
  <2>5. Pick(T) \in T /\ Cardinality(T \ {Pick(T)}) = n - 1 /\ n - 1 \in Nat
    <3>1. Pick(T) \in T /\ Cardinality(T \ {Pick(T)}) = Cardinality(T) - 1
      BY <2>3, <2>4, SubsetFacts
    <3>2. Cardinality(T) # 0 /\ Cardinality(T) \in Nat
      BY <2>3, <2>4, SubsetFacts
    <3> QED
      BY <2>2, <3>1, <3>2
  <2>6. n - 1 \notin Bad
    BY <2>1, <2>5
  <2>7. g[T \ {Pick(T)}] = h[T \ {Pick(T)}]
    BY <2>5, <2>6
  <2>8. g[T] = v[Pick(T)] + g[T \ {Pick(T)}]
    BY <2>3, <2>4 DEF Sums
  <2>9. h[T] = w[Pick(T)] + h[T \ {Pick(T)}]
    BY <2>3 DEF Sums
  <2> QED
    BY <2>2, <2>5, <2>7, <2>8, <2>9
<1>2. ASSUME NEW T \in SUBSET U PROVE Cardinality(T) \in Nat
  BY SubsetFacts, FS_Subset
<1> QED
  BY <1>1, <1>2

(* The sum is what any solution says of the whole set.                     *)
LEMMA SumOverIs ==
  ASSUME NEW S, IsFiniteSet(S), NEW v, NEW g, Sums(v, S, g)
  PROVE  SumOver(v, S) = g[S]
<1> DEFINE f == CHOOSE h : h = [s \in SUBSET S |-> IF s = {} THEN 0 ELSE v[Pick(s)] + h[s \ {Pick(s)}]]
<1>1. Sums(v, S, f)
  <2>1. \E h : h = [s \in SUBSET S |-> IF s = {} THEN 0 ELSE v[Pick(s)] + h[s \ {Pick(s)}]]
    BY DEF Sums
  <2> QED
    BY <2>1 DEF Sums
<1>2. SumOver(v, S) = f[S]
  BY DEF SumOver, MapThenSumSet, MapThenFoldSet, Pick
<1>3. f[S] = g[S]
  <2> HIDE DEF f
  <2> QED
    BY <1>1, SumsAgree
<1> QED
  BY <1>2, <1>3

(* The sum over no element is zero.                                        *)
LEMMA SumEmpty == ASSUME NEW v PROVE SumOver(v, {}) = 0
<1>1. IsFiniteSet({})
  BY FS_EmptySet
<1>2. PICK g : Sums(v, {}, g)
  BY <1>1, IterExists
<1> QED
  BY <1>1, <1>2, SumOverIs DEF Sums

(* A sum is one value and the sum over the rest.                           *)
LEMMA SumPick ==
  ASSUME NEW S, IsFiniteSet(S), NEW v, S # {}
  PROVE  SumOver(v, S) = v[Pick(S)] + SumOver(v, S \ {Pick(S)})
<1> DEFINE U == S \ {Pick(S)}
<1>1. IsFiniteSet(U) /\ U \subseteq S
  BY FS_Subset
<1>2. PICK g : Sums(v, S, g)
  BY IterExists
<1>3. PICK h : Sums(v, U, h)
  BY <1>1, IterExists
<1>4. g[U] = h[U]
  <2> HIDE DEF U
  <2>1. \A T \in SUBSET U : g[T] = h[T]
    BY <1>1, <1>2, <1>3, SumsAgree
  <2> QED
    BY <2>1
<1>5. g[S] = v[Pick(S)] + g[U]
  BY <1>2 DEF Sums
<1>6. SumOver(v, S) = g[S] /\ SumOver(v, U) = h[U]
  BY <1>1, <1>2, <1>3, SumOverIs
<1> QED
  BY <1>4, <1>5, <1>6

(* A sum depends on the values of the elements of the set only.            *)
LEMMA SumCongruence ==
  ASSUME NEW S, IsFiniteSet(S), NEW v, NEW w, \A x \in S : v[x] = w[x]
  PROVE  SumOver(v, S) = SumOver(w, S)
<1>1. PICK g : Sums(v, S, g)
  BY IterExists
<1>2. PICK h : Sums(w, S, h)
  BY IterExists
<1>3. g[S] = h[S]
  <2>1. S \subseteq S
    OBVIOUS
  <2>2. \A T \in SUBSET S : g[T] = h[T]
    BY <1>1, <1>2, <2>1, SumsAgree
  <2> QED
    BY <2>2
<1> QED
  BY <1>1, <1>2, <1>3, SumOverIs

(* A sum of integers is an integer.                                        *)
LEMMA SumType ==
  ASSUME NEW S, IsFiniteSet(S), NEW v, \A x \in S : v[x] \in Int
  PROVE  SumOver(v, S) \in Int
<1> DEFINE Bad == {n \in Nat : \E T \in SUBSET S : Cardinality(T) = n /\ SumOver(v, T) \notin Int}
<1>1. Bad = {}
  <2> SUFFICES ASSUME Bad # {} PROVE FALSE
    OBVIOUS
  <2>1. PICK n \in Bad : \A m \in Bad : n <= m
    BY LeastNat
  <2>2. PICK T \in SUBSET S : Cardinality(T) = n /\ SumOver(v, T) \notin Int
    BY <2>1
  <2>3. T # {}
    BY <2>2, SumEmpty
  <2>4. IsFiniteSet(T) /\ Cardinality(T) \in Nat /\ Cardinality(T) # 0
    BY <2>3, SubsetFacts
  <2>5. Pick(T) \in T /\ Cardinality(T \ {Pick(T)}) = Cardinality(T) - 1
    BY <2>3, SubsetFacts
  <2>6. n - 1 \notin Bad /\ n - 1 \in Nat
    BY <2>1, <2>2, <2>4
  <2>7. SumOver(v, T \ {Pick(T)}) \in Int
    BY <2>2, <2>5, <2>6
  <2>8. SumOver(v, T) = v[Pick(T)] + SumOver(v, T \ {Pick(T)})
    BY <2>3, <2>4, SumPick
  <2> QED
    BY <2>2, <2>5, <2>7, <2>8
<1>2. Cardinality(S) \in Nat
  BY FS_CardinalityType
<1> QED
  BY <1>1, <1>2

(* One more element adds its value, whichever element the sum takes first. *)
LEMMA SumAdd ==
  ASSUME NEW V, IsFiniteSet(V), NEW v, \A y \in V : v[y] \in Int,
         NEW S, S \subseteq V, NEW x \in V \ S
  PROVE  SumOver(v, S \cup {x}) = SumOver(v, S) + v[x]
<1> DEFINE Wrong(T, y) == SumOver(v, T \cup {y}) # SumOver(v, T) + v[y]
           Bad == {n \in Nat : \E T \in SUBSET V : Cardinality(T) = n /\ \E y \in V \ T : Wrong(T, y)}
<1>1. ASSUME Bad # {} PROVE FALSE
  <2>1. PICK n \in Bad : \A m \in Bad : n <= m
    BY <1>1, LeastNat
  <2>2. PICK T \in SUBSET V : Cardinality(T) = n /\ \E y \in V \ T : Wrong(T, y)
    BY <2>1
  <2>3. PICK y \in V \ T : Wrong(T, y)
    BY <2>2
  <2> DEFINE U == T \cup {y}
             R == T \ {Pick(U)}
  <2>4. IsFiniteSet(T) /\ IsFiniteSet(U) /\ U # {} /\ U \subseteq V
    BY FS_Subset, FS_AddElement
  <2>5. PICK p : p = Pick(U) /\ p \in U
    BY DEF Pick
  <2>6. SumOver(v, U) = v[p] + SumOver(v, U \ {p})
    BY <2>4, <2>5, SumPick
  <2>7. SumOver(v, T) \in Int /\ v[y] \in Int /\ v[p] \in Int
    <3>1. \A z \in T : v[z] \in Int
      OBVIOUS
    <3> QED
      BY <2>4, <2>5, <3>1, SumType
  <2>8. p # y
    <3> SUFFICES ASSUME p = y PROVE FALSE
      OBVIOUS
    <3>1. U \ {p} = T
      OBVIOUS
    <3>2. SumOver(v, U) = v[y] + SumOver(v, T)
      BY <2>6, <3>1
    <3> QED
      BY <2>3, <2>7, <3>2
  <2>9. R = T \ {p} /\ p \in T
    BY <2>5, <2>8
  <2>10. IsFiniteSet(R) /\ Cardinality(R) = n - 1 /\ n - 1 \in Nat
    <3>1. Cardinality(T) \in Nat /\ Cardinality(T) # 0
      BY <2>4, <2>9, SubsetFacts
    <3>2. IsFiniteSet(R) /\ Cardinality(R) = Cardinality(T) - 1
      BY <2>4, <2>9, FS_RemoveElement
    <3> QED
      BY <2>2, <3>1, <3>2
  <2>11. \A z \in V \ R : SumOver(v, R \cup {z}) = SumOver(v, R) + v[z]
    <3>1. n - 1 \notin Bad
      BY <2>1, <2>10
    <3> QED
      BY <2>10, <3>1
  <2>12. y \in V \ R /\ p \in V \ R /\ R \cup {p} = T /\ U \ {p} = R \cup {y}
    BY <2>8, <2>9
  <2>13. SumOver(v, R) \in Int
    BY <2>10, SumType
  <2>14. SumOver(v, U \ {p}) = SumOver(v, R) + v[y]
    BY <2>11, <2>12
  <2>15. SumOver(v, T) = SumOver(v, R) + v[p]
    BY <2>11, <2>12
  <2> HIDE DEF U, R
  <2>16. SumOver(v, U) = SumOver(v, T) + v[y]
    BY <2>6, <2>7, <2>13, <2>14, <2>15
  <2> QED
    BY <2>3, <2>16 DEF U
<1>2. Cardinality(S) \in Nat
  BY FS_CardinalityType, FS_Subset
<1> QED
  BY <1>1, <1>2

(* A sum of naturals is a natural.                                         *)
LEMMA SumNat ==
  ASSUME NEW S, IsFiniteSet(S), NEW v, \A x \in S : v[x] \in Nat
  PROVE  SumOver(v, S) \in Nat
<1> DEFINE Bad == {n \in Nat : \E T \in SUBSET S : Cardinality(T) = n /\ SumOver(v, T) \notin Nat}
<1>1. ASSUME Bad # {} PROVE FALSE
  <2>1. PICK n \in Bad : \A m \in Bad : n <= m
    BY <1>1, LeastNat
  <2>2. PICK T \in SUBSET S : Cardinality(T) = n /\ SumOver(v, T) \notin Nat
    BY <2>1
  <2>3. T # {}
    BY <2>2, SumEmpty
  <2>4. IsFiniteSet(T) /\ Cardinality(T) \in Nat /\ Cardinality(T) # 0
    BY <2>3, SubsetFacts
  <2>5. Pick(T) \in T /\ Cardinality(T \ {Pick(T)}) = Cardinality(T) - 1
    BY <2>3, SubsetFacts
  <2>6. n - 1 \notin Bad /\ n - 1 \in Nat
    BY <2>1, <2>2, <2>4
  <2>7. SumOver(v, T \ {Pick(T)}) \in Nat
    BY <2>2, <2>5, <2>6
  <2>8. SumOver(v, T) = v[Pick(T)] + SumOver(v, T \ {Pick(T)})
    BY <2>3, <2>4, SumPick
  <2> QED
    BY <2>2, <2>5, <2>7, <2>8
<1>2. Cardinality(S) \in Nat
  BY FS_CardinalityType
<1> QED
  BY <1>1, <1>2

(* The sum over two disjoint sets is the sum of their sums.                *)
LEMMA SumUnion ==
  ASSUME NEW V, IsFiniteSet(V), NEW v, \A y \in V : v[y] \in Int,
         NEW S, S \subseteq V, NEW T, T \subseteq V, S \cap T = {}
  PROVE  SumOver(v, S \cup T) = SumOver(v, S) + SumOver(v, T)
<1> DEFINE Wrong(U) == SumOver(v, S \cup U) # SumOver(v, S) + SumOver(v, U)
           Bad == {n \in Nat : \E U \in SUBSET T : Cardinality(U) = n /\ Wrong(U)}
<1>0. SumOver(v, S) \in Int
  <2>1. IsFiniteSet(S) /\ \A y \in S : v[y] \in Int
    BY FS_Subset
  <2> QED
    BY <2>1, SumType
<1>1. ASSUME Bad # {} PROVE FALSE
  <2>1. PICK n \in Bad : \A m \in Bad : n <= m
    BY <1>1, LeastNat
  <2>2. PICK U \in SUBSET T : Cardinality(U) = n /\ Wrong(U)
    BY <2>1
  <2>3. IsFiniteSet(U) /\ IsFiniteSet(T)
    BY FS_Subset
  <2>4. U # {}
    <3> SUFFICES ASSUME U = {} PROVE ~Wrong(U)
      BY <2>2
    <3>1. S \cup U = S
      OBVIOUS
    <3> QED
      BY <1>0, <3>1, SumEmpty
  <2>5. PICK p \in U : TRUE
    BY <2>4
  <2> DEFINE R == U \ {p}
  <2>6. IsFiniteSet(R) /\ Cardinality(R) = n - 1 /\ n - 1 \in Nat
    <3>1. Cardinality(U) \in Nat /\ Cardinality(U) # 0
      BY <2>3, <2>4, SubsetFacts
    <3>2. IsFiniteSet(R) /\ Cardinality(R) = Cardinality(U) - 1
      BY <2>3, <2>5, FS_RemoveElement
    <3> QED
      BY <2>2, <3>1, <3>2
  <2>7. SumOver(v, S \cup R) = SumOver(v, S) + SumOver(v, R)
    <3>1. n - 1 \notin Bad
      BY <2>1, <2>6
    <3> QED
      BY <2>6, <3>1
  <2>8. SumOver(v, R \cup {p}) = SumOver(v, R) + v[p]
    <3>1. R \subseteq V /\ p \in V \ R
      OBVIOUS
    <3> HIDE DEF R
    <3> QED
      BY <3>1, SumAdd
  <2>9. SumOver(v, (S \cup R) \cup {p}) = SumOver(v, S \cup R) + v[p]
    <3>1. S \cup R \subseteq V /\ p \in V \ (S \cup R)
      OBVIOUS
    <3> HIDE DEF R
    <3> QED
      BY <3>1, SumAdd
  <2>10. R \cup {p} = U /\ (S \cup R) \cup {p} = S \cup U
    OBVIOUS
  <2>11. SumOver(v, R) \in Int /\ v[p] \in Int
    <3>1. \A y \in R : v[y] \in Int
      OBVIOUS
    <3> QED
      BY <2>6, <3>1, SumType
  <2> HIDE DEF R
  <2>12. /\ SumOver(v, U) = SumOver(v, R) + v[p]
         /\ SumOver(v, S \cup U) = SumOver(v, S \cup R) + v[p]
    BY <2>8, <2>9, <2>10
  <2> QED
    BY <1>0, <2>2, <2>7, <2>11, <2>12
<1>2. Cardinality(T) \in Nat
  BY FS_CardinalityType, FS_Subset
<1> QED
  BY <1>1, <1>2

(* Zeros sum to zero.                                                      *)
LEMMA SumZero ==
  ASSUME NEW S, IsFiniteSet(S), NEW v, \A x \in S : v[x] = 0
  PROVE  SumOver(v, S) = 0
<1> DEFINE Bad == {n \in Nat : \E T \in SUBSET S : Cardinality(T) = n /\ SumOver(v, T) # 0}
<1>1. ASSUME Bad # {} PROVE FALSE
  <2>1. PICK n \in Bad : \A m \in Bad : n <= m
    BY <1>1, LeastNat
  <2>2. PICK T \in SUBSET S : Cardinality(T) = n /\ SumOver(v, T) # 0
    BY <2>1
  <2>3. T # {}
    BY <2>2, SumEmpty
  <2>4. IsFiniteSet(T) /\ Cardinality(T) \in Nat /\ Cardinality(T) # 0
    BY <2>3, SubsetFacts
  <2>5. Pick(T) \in T /\ Cardinality(T \ {Pick(T)}) = Cardinality(T) - 1
    BY <2>3, SubsetFacts
  <2>6. n - 1 \notin Bad /\ n - 1 \in Nat
    BY <2>1, <2>2, <2>4
  <2>7. SumOver(v, T \ {Pick(T)}) = 0
    BY <2>2, <2>5, <2>6
  <2>8. SumOver(v, T) = v[Pick(T)] + SumOver(v, T \ {Pick(T)})
    BY <2>3, <2>4, SumPick
  <2> QED
    BY <2>2, <2>5, <2>7, <2>8
<1>2. Cardinality(S) \in Nat
  BY FS_CardinalityType
<1> QED
  BY <1>1, <1>2

(* Elements of value zero can be left out.                                 *)
LEMMA SumRestrict ==
  ASSUME NEW V, IsFiniteSet(V), NEW v, \A y \in V : v[y] \in Int,
         NEW T, T \subseteq V, \A y \in V \ T : v[y] = 0
  PROVE  SumOver(v, V) = SumOver(v, T)
<1>1. IsFiniteSet(T) /\ IsFiniteSet(V \ T)
  BY FS_Subset
<1>2. SumOver(v, T \cup (V \ T)) = SumOver(v, T) + SumOver(v, V \ T)
  BY SumUnion
<1>3. SumOver(v, V \ T) = 0
  BY <1>1, SumZero
<1>4. T \cup (V \ T) = V
  OBVIOUS
<1>5. SumOver(v, T) \in Int
  BY <1>1, SumType
<1>6. SumOver(v, V) = SumOver(v, T) + SumOver(v, V \ T)
  BY <1>2, <1>4
<1> QED
  BY <1>3, <1>5, <1>6

(* Greater values have the greater sum.                                    *)
LEMMA SumBelow ==
  ASSUME NEW S, IsFiniteSet(S), NEW v, NEW w,
         \A x \in S : v[x] \in Int /\ w[x] \in Int /\ v[x] <= w[x]
  PROVE  SumOver(v, S) <= SumOver(w, S)
<1> DEFINE Bad == {n \in Nat : \E T \in SUBSET S : Cardinality(T) = n /\ ~(SumOver(v, T) <= SumOver(w, T))}
<1>1. ASSUME Bad # {} PROVE FALSE
  <2>1. PICK n \in Bad : \A m \in Bad : n <= m
    BY <1>1, LeastNat
  <2>2. PICK T \in SUBSET S : Cardinality(T) = n /\ ~(SumOver(v, T) <= SumOver(w, T))
    BY <2>1
  <2>3. T # {}
    BY <2>2, SumEmpty
  <2>4. IsFiniteSet(T) /\ Cardinality(T) \in Nat /\ Cardinality(T) # 0
    BY <2>3, SubsetFacts
  <2>5. PICK p : p = Pick(T) /\ p \in T /\ Cardinality(T \ {p}) = Cardinality(T) - 1
    BY <2>3, SubsetFacts
  <2> DEFINE U == T \ {p}
  <2>6. n - 1 \notin Bad /\ n - 1 \in Nat
    BY <2>1, <2>2, <2>4
  <2>7. SumOver(v, U) <= SumOver(w, U)
    BY <2>2, <2>5, <2>6
  <2>8. SumOver(v, T) = v[p] + SumOver(v, U) /\ SumOver(w, T) = w[p] + SumOver(w, U)
    BY <2>3, <2>4, <2>5, SumPick
  <2>9. IsFiniteSet(U) /\ \A x \in U : v[x] \in Int /\ w[x] \in Int
    BY <2>4, <2>5, FS_Subset
  <2>10. SumOver(v, U) \in Int /\ SumOver(w, U) \in Int
    BY <2>9, SumType
  <2>11. v[p] \in Int /\ w[p] \in Int /\ v[p] <= w[p]
    BY <2>5
  <2> HIDE DEF U
  <2> QED
    BY <2>2, <2>7, <2>8, <2>10, <2>11
<1>2. Cardinality(S) \in Nat
  BY FS_CardinalityType
<1> QED
  BY <1>1, <1>2

(* Fewer naturals have the smaller sum.                                    *)
LEMMA SumPart ==
  ASSUME NEW V, IsFiniteSet(V), NEW v, \A x \in V : v[x] \in Nat, NEW T, T \subseteq V
  PROVE  SumOver(v, T) <= SumOver(v, V) /\ SumOver(v, T) \in Nat /\ SumOver(v, V) \in Nat
<1>1. IsFiniteSet(T) /\ IsFiniteSet(V \ T) /\ T \cup (V \ T) = V /\ T \cap (V \ T) = {}
  BY FS_Subset
<1>2. SumOver(v, T) \in Nat /\ SumOver(v, V \ T) \in Nat /\ SumOver(v, V) \in Nat
  BY <1>1, SumNat
<1> DEFINE R == V \ T
<1>3. R \subseteq V
  OBVIOUS
<1> HIDE DEF R
<1>4. T \cap R = {} /\ T \cup R = V
  BY <1>1 DEF R
<1>5. \A y \in V : v[y] \in Int
  OBVIOUS
<1>6. SumOver(v, T \cup R) = SumOver(v, T) + SumOver(v, R)
  BY <1>3, <1>4, <1>5, SumUnion
<1> QED
  BY <1>2, <1>4, <1>6 DEF R

(* A value is no more than a sum of naturals it is part of.                *)
LEMMA SumMember ==
  ASSUME NEW S, IsFiniteSet(S), NEW v, \A x \in S : v[x] \in Nat, NEW x \in S
  PROVE  v[x] <= SumOver(v, S)
<1>1. SumOver(v, {} \cup {x}) = SumOver(v, {}) + v[x]
  <2>1. {} \subseteq S /\ x \in S \ {} /\ \A y \in S : v[y] \in Int
    OBVIOUS
  <2> QED
    BY <2>1, SumAdd
<1>2. {} \cup {x} = {x} /\ SumOver(v, {}) = 0
  BY SumEmpty
<1>3. SumOver(v, {x}) <= SumOver(v, S)
  BY SumPart
<1> QED
  BY <1>1, <1>2, <1>3

(* The sum over one element is its value.                                  *)
LEMMA SumOne ==
  ASSUME NEW v, NEW x, v[x] \in Int
  PROVE  SumOver(v, {x}) = v[x]
<1>1. IsFiniteSet({x}) /\ \A y \in {x} : v[y] \in Int
  BY FS_Singleton
<1>2. SumOver(v, {} \cup {x}) = SumOver(v, {}) + v[x]
  <2> DEFINE V == {x}
  <2>1. {} \subseteq V /\ x \in V \ {} /\ \A y \in V : v[y] \in Int
    OBVIOUS
  <2> HIDE DEF V
  <2> QED
    BY <1>1, <2>1, SumAdd DEF V
<1>3. {} \cup {x} = {x} /\ SumOver(v, {}) = 0
  BY SumEmpty
<1> QED
  BY <1>2, <1>3

(* The sums of two functions add up.                                       *)
LEMMA SumPlus ==
  ASSUME NEW S, IsFiniteSet(S), NEW v, NEW w, NEW x,
         \A i \in S : v[i] \in Int /\ w[i] \in Int /\ x[i] = v[i] + w[i]
  PROVE  SumOver(x, S) = SumOver(v, S) + SumOver(w, S)
<1> DEFINE Bad == {n \in Nat : \E T \in SUBSET S : /\ Cardinality(T) = n
                                                   /\ SumOver(x, T) # SumOver(v, T) + SumOver(w, T)}
<1>1. ASSUME Bad # {} PROVE FALSE
  <2>1. PICK n \in Bad : \A m \in Bad : n <= m
    BY <1>1, LeastNat
  <2>2. PICK T \in SUBSET S : Cardinality(T) = n /\ SumOver(x, T) # SumOver(v, T) + SumOver(w, T)
    BY <2>1
  <2>3. T # {}
    <3>1. SumOver(x, {}) = 0 /\ SumOver(v, {}) = 0 /\ SumOver(w, {}) = 0
      BY SumEmpty
    <3>2. T = {} => SumOver(x, T) = 0 /\ SumOver(v, T) = 0 /\ SumOver(w, T) = 0
      BY <3>1
    <3> QED
      BY <2>2, <3>2
  <2>4. IsFiniteSet(T) /\ Cardinality(T) \in Nat /\ Cardinality(T) # 0
    BY <2>3, SubsetFacts
  <2>5. Pick(T) \in T /\ Cardinality(T \ {Pick(T)}) = Cardinality(T) - 1
    BY <2>3, SubsetFacts
  <2>6. n - 1 \notin Bad /\ n - 1 \in Nat
    BY <2>1, <2>2, <2>4
  <2> DEFINE R == T \ {Pick(T)}
  <2>7. SumOver(x, R) = SumOver(v, R) + SumOver(w, R)
    BY <2>2, <2>5, <2>6
  <2>8. /\ SumOver(x, T) = x[Pick(T)] + SumOver(x, R)
        /\ SumOver(v, T) = v[Pick(T)] + SumOver(v, R)
        /\ SumOver(w, T) = w[Pick(T)] + SumOver(w, R)
    BY <2>3, <2>4, SumPick
  <2>9. IsFiniteSet(R) /\ R \subseteq S
    BY <2>4, FS_Subset
  <2>10. SumOver(v, R) \in Int /\ SumOver(w, R) \in Int
    BY <2>9, SumType
  <2> QED
    BY <2>2, <2>5, <2>7, <2>8, <2>10
<1>2. Cardinality(S) \in Nat
  BY FS_CardinalityType
<1> QED
  BY <1>1, <1>2

(* A multiple of a sum is the sum of the multiples.                        *)
LEMMA SumTimes ==
  ASSUME NEW S, IsFiniteSet(S), NEW c \in Int, NEW v, NEW x,
         \A i \in S : v[i] \in Int /\ x[i] = c * v[i]
  PROVE  SumOver(x, S) = c * SumOver(v, S)
<1> DEFINE Bad == {n \in Nat : \E T \in SUBSET S : /\ Cardinality(T) = n
                                                   /\ SumOver(x, T) # c * SumOver(v, T)}
<1>1. ASSUME Bad # {} PROVE FALSE
  <2>1. PICK n \in Bad : \A m \in Bad : n <= m
    BY <1>1, LeastNat
  <2>2. PICK T \in SUBSET S : Cardinality(T) = n /\ SumOver(x, T) # c * SumOver(v, T)
    BY <2>1
  <2>3. T # {}
    <3>1. SumOver(x, {}) = 0 /\ SumOver(v, {}) = 0 /\ c * 0 = 0
      BY SumEmpty
    <3> QED
      BY <2>2, <3>1
  <2>4. IsFiniteSet(T) /\ Cardinality(T) \in Nat /\ Cardinality(T) # 0
    BY <2>3, SubsetFacts
  <2>5. Pick(T) \in T /\ Cardinality(T \ {Pick(T)}) = Cardinality(T) - 1
    BY <2>3, SubsetFacts
  <2>6. n - 1 \notin Bad /\ n - 1 \in Nat
    BY <2>1, <2>2, <2>4
  <2> DEFINE R == T \ {Pick(T)}
  <2>7. SumOver(x, R) = c * SumOver(v, R)
    BY <2>2, <2>5, <2>6
  <2>8. /\ SumOver(x, T) = x[Pick(T)] + SumOver(x, R)
        /\ SumOver(v, T) = v[Pick(T)] + SumOver(v, R)
    BY <2>3, <2>4, SumPick
  <2>9. IsFiniteSet(R) /\ R \subseteq S
    BY <2>4, FS_Subset
  <2>10. SumOver(v, R) \in Int
    BY <2>9, SumType
  <2>11. ASSUME NEW a \in Int, NEW b \in Int PROVE c * (a + b) = c * a + c * b
    OBVIOUS
  <2>12. v[Pick(T)] \in Int /\ x[Pick(T)] = c * v[Pick(T)]
    BY <2>5
  <2> QED
    BY <2>2, <2>7, <2>8, <2>10, <2>11, <2>12
<1>2. Cardinality(S) \in Nat
  BY FS_CardinalityType
<1> QED
  BY <1>1, <1>2

(* A finite set has finitely many images.                                  *)
LEMMA ImageFinite ==
  ASSUME NEW S, IsFiniteSet(S), NEW g
  PROVE  IsFiniteSet({g[x] : x \in S})
<1> DEFINE T == {g[x] : x \in S}
           h == [x \in S |-> g[x]]
<1>1. h \in [S -> T] /\ \A y \in T : \E x \in S : h[x] = y
  OBVIOUS
<1>2. h \in Surjection(S, T)
  BY <1>1 DEF Surjection
<1> QED
  BY <1>2, FS_Surjection

(* A sum over the images of different elements is a sum over the elements. *)
LEMMA SumImage ==
  ASSUME NEW S, IsFiniteSet(S), NEW g, NEW v, NEW w,
         \A x \in S : v[g[x]] \in Int /\ w[x] = v[g[x]],
         \A x, y \in S : g[x] = g[y] => x = y
  PROVE  SumOver(v, {g[x] : x \in S}) = SumOver(w, S)
<1> DEFINE Im(R) == {g[x] : x \in R}
           Bad == {n \in Nat : \E R \in SUBSET S : Cardinality(R) = n /\ SumOver(v, Im(R)) # SumOver(w, R)}
<1>1. ASSUME Bad # {} PROVE FALSE
  <2>1. PICK n \in Bad : \A m \in Bad : n <= m
    BY <1>1, LeastNat
  <2>2. PICK R \in SUBSET S : Cardinality(R) = n /\ SumOver(v, Im(R)) # SumOver(w, R)
    BY <2>1
  <2>3. R # {}
    <3> SUFFICES ASSUME R = {} PROVE FALSE
      OBVIOUS
    <3>1. Im(R) = {}
      OBVIOUS
    <3>2. SumOver(v, {}) = 0 /\ SumOver(w, {}) = 0
      BY SumEmpty
    <3> QED
      BY <2>2, <3>1, <3>2
  <2>4. IsFiniteSet(R) /\ Cardinality(R) \in Nat /\ Cardinality(R) # 0
    BY <2>3, SubsetFacts
  <2>5. PICK p : p = Pick(R) /\ p \in R /\ Cardinality(R \ {p}) = Cardinality(R) - 1
    BY <2>3, SubsetFacts
  <2> DEFINE U == R \ {p}
  <2>6. n - 1 \notin Bad /\ n - 1 \in Nat
    <3>1. n \in Nat /\ n # 0
      BY <2>2, <2>4
    <3> HIDE DEF Bad
    <3> QED
      BY <2>1, <3>1
  <2>7. SumOver(v, Im(U)) = SumOver(w, U)
    <3>1. U \in SUBSET S /\ Cardinality(U) = n - 1
      BY <2>2, <2>5
    <3> HIDE DEF Im, U
    <3> QED
      BY <2>6, <3>1
  <2>8. SumOver(w, R) = w[p] + SumOver(w, U)
    BY <2>3, <2>4, <2>5, SumPick
  <2>9. IsFiniteSet(U) /\ \A x \in U : w[x] \in Int
    BY <2>4, <2>5, FS_Subset
  <2>10. SumOver(w, U) \in Int /\ w[p] \in Int /\ w[p] = v[g[p]]
    BY <2>5, <2>9, SumType
  <2>11. Im(R) = Im(U) \cup {g[p]}
    BY <2>5
  <2>12. g[p] \notin Im(U)
    BY <2>5
  <2>13. IsFiniteSet(Im(R)) /\ \A y \in Im(R) : v[y] \in Int
    BY <2>4, ImageFinite
  <2>14. SumOver(v, Im(U) \cup {g[p]}) = SumOver(v, Im(U)) + v[g[p]]
    <3> DEFINE A == Im(R)
               B == Im(U)
    <3>1. PICK q : q = g[p]
      OBVIOUS
    <3>2. B \subseteq A /\ q \in A \ B /\ IsFiniteSet(A) /\ \A y \in A : v[y] \in Int
      BY <2>11, <2>12, <2>13, <3>1
    <3> HIDE DEF A, B
    <3>3. SumOver(v, B \cup {q}) = SumOver(v, B) + v[q]
      BY <3>2, SumAdd
    <3> QED
      BY <3>1, <3>3 DEF B
  <2> HIDE DEF Im, U
  <2> QED
    BY <2>2, <2>7, <2>8, <2>10, <2>11, <2>14
<1>2. Cardinality(S) \in Nat
  BY FS_CardinalityType
<1> QED
  BY <1>1, <1>2

(* A nonempty finite set has an element of greatest value.                 *)
LEMMA GreatestOf ==
  ASSUME NEW S, IsFiniteSet(S), S # {}, NEW v, \A x \in S : v[x] \in Nat
  PROVE  \E x \in S : \A y \in S : v[y] <= v[x]
<1> DEFINE N == SumOver(v, S)
           T == {k \in Nat : \E x \in S : k = N - v[x]}
<1>1. N \in Nat /\ \A x \in S : v[x] <= N
  BY SumNat, SumMember
<1> HIDE DEF N
<1>2. \A x \in S : N - v[x] \in T
  BY <1>1
<1>3. T # {} /\ T \subseteq Nat
  BY <1>2
<1>4. PICK k \in T : \A m \in T : k <= m
  BY <1>3, LeastNat
<1>5. PICK x \in S : k = N - v[x]
  BY <1>4
<1>6. ASSUME NEW y \in S PROVE v[y] <= v[x]
  <2>1. k <= N - v[y] /\ v[y] \in Nat /\ v[x] \in Nat
    BY <1>2, <1>4
  <2> QED
    BY <1>1, <1>5, <2>1
<1> QED
  BY <1>6
=============================================================================
