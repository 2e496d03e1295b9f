------------------------ MODULE EventBacktestProofs -------------------------
(***************************************************************************)
(* Proofs about EventBacktest.                                              *)
(*                                                                          *)
(* The ledger of the engine is compared with sums over the fills: cash and  *)
(* position with the fills that were applied, an order with its own fills,  *)
(* the lots with the position.  The invariant keeps each of these sums as   *)
(* a sum over all fills of an amount that is zero where a fill has no part, *)
(* so that an event, which changes one fill, changes each sum by the        *)
(* amounts of that fill.  What a fill does to the lots is proved for lots   *)
(* of any number and size (ConsumeUnits).                                   *)
(***************************************************************************)
EXTENDS EventBacktest, SumTheorems, SequenceTheorems, TLAPS

-----------------------------------------------------------------------------
(* When one value changes, the sum changes by the difference.              *)
LEMMA SumChange ==
  ASSUME NEW S, IsFiniteSet(S), NEW x \in S, NEW v, NEW w,
         \A y \in S : v[y] \in Int /\ w[y] \in Int,
         \A y \in S \ {x} : v[y] = w[y]
  PROVE  SumOver(w, S) = SumOver(v, S) - v[x] + w[x]
<1> DEFINE R == S \ {x}
<1>1. IsFiniteSet(R) /\ R \subseteq S /\ x \in S \ R /\ R \cup {x} = S
  BY FS_RemoveElement
<1>2. SumOver(v, R) = SumOver(w, R)
  BY <1>1, SumCongruence
<1>3. SumOver(v, R) \in Int
  BY <1>1, SumType
<1> HIDE DEF R
<1>4. SumOver(v, R \cup {x}) = SumOver(v, R) + v[x]
  BY <1>1, SumAdd
<1>5. SumOver(w, R \cup {x}) = SumOver(w, R) + w[x]
  BY <1>1, SumAdd
<1>6. SumOver(v, S) = SumOver(v, R) + v[x] /\ SumOver(w, S) = SumOver(w, R) + w[x]
  BY <1>1, <1>4, <1>5
<1> QED
  BY <1>1, <1>2, <1>3, <1>6

(* Positive values that sum to nothing are no values.                      *)
LEMMA SumPositive ==
  ASSUME NEW S, IsFiniteSet(S), NEW v, \A x \in S : v[x] \in Nat \ {0},
         SumOver(v, S) <= 0
  PROVE  S = {}
<1> SUFFICES ASSUME S # {} PROVE FALSE
  OBVIOUS
<1>1. Pick(S) \in S /\ IsFiniteSet(S \ {Pick(S)})
  BY FS_RemoveElement DEF Pick
<1>2. SumOver(v, S \ {Pick(S)}) \in Nat
  BY <1>1, SumNat
<1>3. SumOver(v, S) = v[Pick(S)] + SumOver(v, S \ {Pick(S)})
  BY SumPick
<1> QED
  BY <1>1, <1>2, <1>3

-----------------------------------------------------------------------------
(* Sums over the first positions of a sequence, which is what FoldLeft     *)
(* computes.                                                               *)

Prefix(v, k) == SumOver(v, 1..k)

(* A prefix sum grows by the next value.                                   *)
LEMMA PrefixStep ==
  ASSUME NEW n \in Nat, NEW v, \A i \in 1..n : v[i] \in Int
  PROVE  /\ Prefix(v, 0) = 0
         /\ \A k \in 0..n : Prefix(v, k) \in Int
         /\ \A k \in 1..n : Prefix(v, k) = Prefix(v, k - 1) + v[k]
<1>1. \A k \in 0..n : IsFiniteSet(1..k)
  BY FS_Interval
<1>2. Prefix(v, 0) = 0
  <2>1. 1..0 = {}
    OBVIOUS
  <2> QED
    BY <2>1, SumEmpty DEF Prefix
<1>3. ASSUME NEW k \in 0..n PROVE Prefix(v, k) \in Int
  <2>1. \A i \in 1..k : v[i] \in Int
    OBVIOUS
  <2> QED
    BY <1>1, <2>1, SumType DEF Prefix
<1>4. ASSUME NEW k \in 1..n PROVE Prefix(v, k) = Prefix(v, k - 1) + v[k]
  <2> DEFINE V == 1..k
             R == 1..(k - 1)
  <2>1. PICK w, x : w = v /\ x = k
    OBVIOUS
  <2>2. R \subseteq V /\ x \in V \ R /\ R \cup {x} = V /\ \A i \in V : w[i] \in Int
    BY <2>1
  <2>3. IsFiniteSet(V)
    BY <1>1
  <2>4. Prefix(v, k) = SumOver(w, V) /\ Prefix(v, k - 1) = SumOver(w, R)
    BY <2>1 DEF Prefix
  <2> HIDE DEF V, R
  <2>5. SumOver(w, R \cup {x}) = SumOver(w, R) + w[x]
    BY <2>2, <2>3, SumAdd
  <2>6. SumOver(w, V) = SumOver(w, R) + w[x]
    BY <2>2, <2>5
  <2> QED
    BY <2>1, <2>4, <2>6
<1> QED
  BY <1>2, <1>3, <1>4

-----------------------------------------------------------------------------
(* Sequences of lots: UnitsOf, KeepLots and Consume.                       *)

(* The units of the lots of a sequence, by position.                       *)
LotUnits(lots) == [k \in 1..Len(lots) |-> lots[k].quantity]

(* UnitsOf, a FoldLeft, is the prefix sum of the units.                    *)
LEMMA UnitsOfIs ==
  ASSUME NEW A, NEW lots \in Seq(A), \A k \in 1..Len(lots) : lots[k].quantity \in Int
  PROVE  UnitsOf(lots) = Prefix(LotUnits(lots), Len(lots))
<1> DEFINE n == Len(lots)
           v == LotUnits(lots)
           Fits(g) == g = [s \in SUBSET (1..n) |-> IF s = {} THEN 0 ELSE g[s \ {Max(s)}] + lots[Max(s)].quantity]
           g == [s \in SUBSET (1..n) |-> SumOver(v, s)]
           f == CHOOSE h : h = [s \in SUBSET (1..n) |-> IF s = {} THEN 0 ELSE h[s \ {Max(s)}] + lots[Max(s)].quantity]
<1>1. n \in Nat /\ DOMAIN lots = 1..n /\ IsFiniteSet(1..n) /\ \A i \in 1..n : v[i] \in Int /\ v[i] = lots[i].quantity
  BY FS_Interval DEF LotUnits
<1>2. Fits(g)
  <2>1. g[{}] = 0
    BY SumEmpty
  <2>2. ASSUME NEW s \in SUBSET (1..n), s # {} PROVE g[s] = g[s \ {Max(s)}] + lots[Max(s)].quantity
    <3>1. Max(s) \in s
      BY <1>1, <2>2, GreatestIn
    <3> DEFINE V == 1..n
               m == Max(s)
               R == s \ {m}
    <3>2. R \subseteq V /\ m \in V \ R /\ R \cup {m} = s
      BY <3>1
    <3>3. IsFiniteSet(V) /\ \A i \in V : v[i] \in Int
      BY <1>1
    <3>4. g[s] = SumOver(v, s) /\ g[R] = SumOver(v, R) /\ v[m] = lots[m].quantity
      BY <1>1, <3>1, <3>2
    <3> HIDE DEF v, V, m, R
    <3>5. SumOver(v, R \cup {m}) = SumOver(v, R) + v[m]
      BY <3>2, <3>3, SumAdd
    <3>6. SumOver(v, s) = SumOver(v, R) + v[m]
      BY <3>2, <3>5
    <3> HIDE DEF g
    <3> QED
      BY <3>4, <3>6 DEF m, R
  <2> QED
    BY <2>1, <2>2
<1>3. Fits(f)
  <2>1. \E h : h = [s \in SUBSET (1..n) |-> IF s = {} THEN 0 ELSE h[s \ {Max(s)}] + lots[Max(s)].quantity]
    BY <1>2
  <2> QED
    BY <2>1
<1>4. UnitsOf(lots) = f[1..n]
  BY <1>1 DEF UnitsOf, FoldLeft, MapThenFoldSet
<1> HIDE DEF f, g, v, Fits
<1>5. f[1..n] = g[1..n]
  <2> DEFINE Bad == {k \in Nat : k <= n /\ f[1..k] # g[1..k]}
  <2>1. ASSUME Bad # {} PROVE FALSE
    <3>1. PICK k \in Bad : \A m \in Bad : k <= m
      BY <2>1, LeastNat
    <3>2. CASE k = 0
      <4>1. 1..k = {}
        BY <3>2
      <4> QED
        BY <1>2, <1>3, <3>1, <4>1 DEF Fits
    <3>3. CASE k # 0
      <4>1. k - 1 \in Nat /\ k - 1 <= n /\ k - 1 \notin Bad /\ 1..k \in SUBSET (1..n) /\ 1..k # {}
        BY <1>1, <3>1, <3>3
      <4>2. Max(1..k) = k
        <5>1. Max(1..k) \in 1..k /\ \A m \in 1..k : m <= Max(1..k)
          BY <1>1, <4>1, GreatestIn
        <5> QED
          BY <3>3, <5>1
      <4>3. (1..k) \ {k} = 1..(k - 1)
        BY <3>3
      <4>4. f[1..(k - 1)] = g[1..(k - 1)]
        BY <4>1
      <4>5. f[1..k] = f[(1..k) \ {k}] + lots[k].quantity
        BY <1>3, <4>1, <4>2 DEF Fits
      <4>6. g[1..k] = g[(1..k) \ {k}] + lots[k].quantity
        BY <1>2, <4>1, <4>2 DEF Fits
      <4> QED
        BY <3>1, <4>3, <4>4, <4>5, <4>6
    <3> QED
      BY <3>2, <3>3
  <2> QED
    BY <1>1, <2>1
<1>6. g[1..n] = Prefix(v, n)
  BY DEF g, Prefix
<1> QED
  BY <1>4, <1>5, <1>6 DEF v

(* What starts at zero and grows by the values is the prefix sum.          *)
LEMMA PrefixRule ==
  ASSUME NEW n \in Nat, NEW v, \A i \in 1..n : v[i] \in Int,
         NEW g, g[0] = 0, \A k \in 1..n : g[k] = g[k - 1] + v[k]
  PROVE  \A k \in 0..n : Prefix(v, k) = g[k]
<1> DEFINE Bad == {k \in Nat : k <= n /\ Prefix(v, k) # g[k]}
<1>1. /\ Prefix(v, 0) = 0
      /\ \A k \in 1..n : Prefix(v, k) = Prefix(v, k - 1) + v[k]
  BY PrefixStep
<1>2. ASSUME Bad # {} PROVE FALSE
  <2>1. PICK k \in Bad : \A m \in Bad : k <= m
    BY <1>2, LeastNat
  <2>2. k # 0
    BY <1>1, <2>1
  <2>3. k \in 1..n /\ k - 1 \in Nat /\ k - 1 <= n /\ k - 1 \notin Bad
    BY <2>1, <2>2
  <2>4. Prefix(v, k - 1) = g[k - 1]
    BY <2>3
  <2> QED
    BY <1>1, <2>1, <2>3, <2>4
<1> QED
  BY <1>2

(* Prefix sums of values that agree agree.                                 *)
LEMMA PrefixCongruence ==
  ASSUME NEW n \in Nat, NEW v, NEW w, \A i \in 1..n : v[i] = w[i]
  PROVE  Prefix(v, n) = Prefix(w, n)
<1>1. IsFiniteSet(1..n)
  BY FS_Interval
<1> QED
  BY <1>1, SumCongruence DEF Prefix

(* A lot while it is being consumed may be empty.                          *)
LooseLot == [quantity : Nat, sellable : Int]

(* UnitsOf is a natural, for lots of any size.                             *)
LEMMA LotUnitsFacts ==
  ASSUME NEW lots \in Seq(LooseLot)
  PROVE  /\ Len(lots) \in Nat
         /\ \A k \in 1..Len(lots) : lots[k].quantity \in Nat /\ LotUnits(lots)[k] = lots[k].quantity
         /\ UnitsOf(lots) = Prefix(LotUnits(lots), Len(lots))
         /\ UnitsOf(lots) \in Nat
<1>1. Len(lots) \in Nat /\ \A k \in 1..Len(lots) : lots[k] \in LooseLot
  BY LenProperties, ElementOfSeq
<1>2. \A k \in 1..Len(lots) : lots[k].quantity \in Nat /\ LotUnits(lots)[k] = lots[k].quantity
  BY <1>1 DEF LooseLot, LotUnits
<1>3. UnitsOf(lots) = Prefix(LotUnits(lots), Len(lots))
  BY <1>2, UnitsOfIs
<1>4. Prefix(LotUnits(lots), Len(lots)) \in Nat
  <2>1. IsFiniteSet(1..Len(lots))
    BY <1>1, FS_Interval
  <2>2. \A k \in 1..Len(lots) : LotUnits(lots)[k] \in Nat
    BY <1>2
  <2> QED
    BY <2>1, <2>2, SumNat DEF Prefix
<1> QED
  BY <1>1, <1>2, <1>3, <1>4

(* No lots hold no units.                                                  *)
LEMMA UnitsEmpty == UnitsOf(<<>>) = 0
<1>1. <<>> \in Seq(LooseLot) /\ Len(<<>>) = 0
  BY EmptySeq
<1>2. UnitsOf(<<>>) = Prefix(LotUnits(<<>>), 0)
  BY <1>1, LotUnitsFacts
<1> QED
  BY <1>2, PrefixStep

(* A lot opened at the end adds its units.                                 *)
LEMMA UnitsAppend ==
  ASSUME NEW lots \in Seq(LooseLot), NEW l \in LooseLot
  PROVE  Append(lots, l) \in Seq(LooseLot) /\ UnitsOf(Append(lots, l)) = UnitsOf(lots) + l.quantity
<1> DEFINE n == Len(lots)
           more == Append(lots, l)
           v == LotUnits(lots)
           w == LotUnits(more)
<1>1. /\ more \in Seq(LooseLot) /\ Len(more) = n + 1 /\ n \in Nat
      /\ \A i \in 1..n : more[i] = lots[i]
      /\ more[n + 1] = l
  BY AppendProperties, LenProperties
<1> HIDE DEF more
<1>2. /\ \A i \in 1..(n + 1) : w[i] \in Nat /\ w[i] = more[i].quantity
      /\ UnitsOf(more) = Prefix(w, n + 1)
  BY <1>1, LotUnitsFacts
<1>3. UnitsOf(lots) = Prefix(v, n) /\ \A i \in 1..n : v[i] = lots[i].quantity
  BY LotUnitsFacts
<1> HIDE DEF v, w
<1>4. Prefix(v, n) = Prefix(w, n)
  <2>1. \A i \in 1..n : v[i] = w[i]
    BY <1>1, <1>2, <1>3
  <2> QED
    BY <1>1, <2>1, PrefixCongruence
<1>5. Prefix(w, n + 1) = Prefix(w, (n + 1) - 1) + w[n + 1]
  <2>1. n + 1 \in Nat /\ n + 1 \in 1..(n + 1) /\ \A i \in 1..(n + 1) : w[i] \in Int
    BY <1>1, <1>2
  <2> QED
    BY <2>1, PrefixStep
<1>6. (n + 1) - 1 = n /\ w[n + 1] = l.quantity
  BY <1>1, <1>2
<1> QED
  BY <1>1, <1>2, <1>3, <1>4, <1>5, <1>6 DEF more

(* Prefix sums of two sequences put one after the other add up.            *)
LEMMA PrefixConcat ==
  \A a, b \in Nat : \A v, w, x :
    /\ \A i \in 1..a : v[i] \in Int /\ x[i] = v[i]
    /\ \A i \in 1..b : w[i] \in Int /\ x[a + i] = w[i]
    => Prefix(x, a + b) = Prefix(v, a) + Prefix(w, b)
<1> SUFFICES ASSUME NEW a \in Nat, NEW b \in Nat, NEW v, NEW w, NEW x,
                    \A i \in 1..a : v[i] \in Int /\ x[i] = v[i],
                    \A i \in 1..b : w[i] \in Int /\ x[a + i] = w[i]
             PROVE  Prefix(x, a + b) = Prefix(v, a) + Prefix(w, b)
  OBVIOUS
<1> DEFINE h == [k \in 0..b |-> Prefix(x, a + k) - Prefix(v, a)]
<1>1. \A i \in 1..(a + b) : x[i] \in Int
  <2> SUFFICES ASSUME NEW i \in 1..(a + b) PROVE x[i] \in Int
    OBVIOUS
  <2>1. CASE i <= a
    BY <2>1
  <2>2. CASE i > a
    <3>1. i - a \in 1..b /\ a + (i - a) = i
      BY <2>2
    <3> QED
      BY <3>1
  <2> QED
    BY <2>1, <2>2
<1>2. a + b \in Nat
  OBVIOUS
<1>3. /\ \A k \in 0..(a + b) : Prefix(x, k) \in Int
      /\ \A k \in 1..(a + b) : Prefix(x, k) = Prefix(x, k - 1) + x[k]
  BY <1>1, <1>2, PrefixStep
<1>4. Prefix(x, a) = Prefix(v, a) /\ Prefix(v, a) \in Int
  <2>1. \A i \in 1..a : x[i] = v[i]
    OBVIOUS
  <2>2. Prefix(x, a) = Prefix(v, a)
    BY <2>1, PrefixCongruence
  <2>3. a \in 0..(a + b)
    OBVIOUS
  <2> QED
    BY <1>3, <2>2, <2>3
<1>5. h[0] = 0
  BY <1>4
<1>6. ASSUME NEW k \in 1..b PROVE h[k] = h[k - 1] + w[k]
  <2>1. a + k \in 1..(a + b) /\ (a + k) - 1 = a + (k - 1) /\ a + (k - 1) \in 0..(a + b)
    OBVIOUS
  <2>2. h[k] = Prefix(x, a + k) - Prefix(v, a) /\ h[k - 1] = Prefix(x, a + (k - 1)) - Prefix(v, a)
    OBVIOUS
  <2>3. Prefix(x, a + k) = Prefix(x, a + (k - 1)) + w[k] /\ w[k] \in Int
    BY <1>3, <2>1
  <2>4. Prefix(x, a + (k - 1)) \in Int
    BY <1>3, <2>1
  <2> HIDE DEF h
  <2> QED
    BY <1>4, <2>2, <2>3, <2>4
<1>7. b \in 0..b /\ h[b] = Prefix(x, a + b) - Prefix(v, a)
  OBVIOUS
<1>8. a + b \in 0..(a + b)
  OBVIOUS
<1> HIDE DEF h
<1>9. Prefix(w, b) = h[b]
  <2>1. \A k \in 0..b : Prefix(w, k) = h[k]
    <3>1. \A i \in 1..b : w[i] \in Int
      OBVIOUS
    <3>2. \A k \in 1..b : h[k] = h[k - 1] + w[k]
      BY <1>6
    <3> QED
      BY <1>5, <3>1, <3>2, PrefixRule
  <2> QED
    BY <1>7, <2>1
<1>10. Prefix(x, a + b) \in Int
  BY <1>3, <1>8
<1> QED
  BY <1>4, <1>7, <1>9, <1>10

(* So do the units of two sequences of lots.                               *)
LEMMA UnitsConcat ==
  ASSUME NEW s \in Seq(LooseLot), NEW t \in Seq(LooseLot)
  PROVE  s \o t \in Seq(LooseLot) /\ UnitsOf(s \o t) = UnitsOf(s) + UnitsOf(t)
<1> DEFINE a == Len(s)
           b == Len(t)
           u == s \o t
           v == LotUnits(s)
           w == LotUnits(t)
           x == LotUnits(u)
<1>1. /\ u \in Seq(LooseLot) /\ Len(u) = a + b /\ a \in Nat /\ b \in Nat
      /\ \A i \in 1..(a + b) : u[i] = IF i <= a THEN s[i] ELSE t[i - a]
  BY ConcatProperties, LenProperties
<1> HIDE DEF u
<1>2. /\ \A i \in 1..(a + b) : x[i] \in Nat /\ x[i] = u[i].quantity
      /\ UnitsOf(u) = Prefix(x, a + b)
  BY <1>1, LotUnitsFacts
<1>3. /\ UnitsOf(s) = Prefix(v, a) /\ \A i \in 1..a : v[i] \in Nat /\ v[i] = s[i].quantity
      /\ UnitsOf(t) = Prefix(w, b) /\ \A i \in 1..b : w[i] \in Nat /\ w[i] = t[i].quantity
  BY LotUnitsFacts
<1> HIDE DEF v, w, x, a, b
<1>4. ASSUME NEW i \in 1..a PROVE v[i] \in Int /\ x[i] = v[i]
  <2>1. i \in 1..(a + b) /\ i <= a
    BY <1>1
  <2>2. u[i] = s[i]
    BY <1>1, <2>1
  <2>3. x[i] = u[i].quantity /\ v[i] = s[i].quantity /\ v[i] \in Nat
    BY <1>2, <1>3, <2>1
  <2> QED
    BY <2>2, <2>3
<1>5. ASSUME NEW i \in 1..b PROVE w[i] \in Int /\ x[a + i] = w[i]
  <2>1. a + i \in 1..(a + b) /\ ~(a + i <= a) /\ (a + i) - a = i
    BY <1>1
  <2>2. u[a + i] = t[i]
    BY <1>1, <2>1
  <2> QED
    BY <1>2, <1>3, <2>1, <2>2
<1>6. Prefix(x, a + b) = Prefix(v, a) + Prefix(w, b)
  <2>1. a \in Nat /\ b \in Nat
    BY <1>1
  <2>2. \A i \in 1..a : v[i] \in Int /\ x[i] = v[i]
    BY <1>4
  <2>3. \A i \in 1..b : w[i] \in Int /\ x[a + i] = w[i]
    BY <1>5
  <2>4. \A f, g, h :
          /\ \A i \in 1..a : f[i] \in Int /\ h[i] = f[i]
          /\ \A i \in 1..b : g[i] \in Int /\ h[a + i] = g[i]
          => Prefix(h, a + b) = Prefix(f, a) + Prefix(g, b)
    BY <2>1, PrefixConcat
  <2>5. /\ \A i \in 1..a : v[i] \in Int /\ x[i] = v[i]
        /\ \A i \in 1..b : w[i] \in Int /\ x[a + i] = w[i]
        => Prefix(x, a + b) = Prefix(v, a) + Prefix(w, b)
    BY <2>4, Zenon
  <2> QED
    BY <2>2, <2>3, <2>5, Zenon
<1> QED
  BY <1>1, <1>2, <1>3, <1>6 DEF u

(* KeepLots, a FoldLeft, position by position.                             *)
LEMMA KeepLotsSteps ==
  ASSUME NEW A, NEW lots \in Seq(A), NEW kept
  PROVE  \E d : /\ d[0] = <<>>
                /\ \A k \in 1..Len(lots) :
                     d[k] = IF lots[k] \in kept THEN Append(d[k - 1], lots[k]) ELSE d[k - 1]
                /\ KeepLots(lots, kept) = d[Len(lots)]
<1> DEFINE n == Len(lots)
           Top(s) == Max(s)
           Step(s, h) == IF lots[Top(s)] \in kept THEN Append(h[s \ {Top(s)}], lots[Top(s)]) ELSE h[s \ {Top(s)}]
           D(m) == {T \in SUBSET (1..n) : Cardinality(T) \in 0..m}
           Good(m) == \E h : h = [s \in D(m) |-> IF s = {} THEN <<>> ELSE Step(s, h)]
           Bad == {m \in Nat : ~Good(m)}
           f == CHOOSE h : h = [s \in SUBSET (1..n) |->
                  IF s = {} THEN <<>>
                  ELSE IF lots[Top(s)] \in kept THEN Append(h[s \ {Top(s)}], lots[Top(s)]) ELSE h[s \ {Top(s)}]]
<1>1. n \in Nat /\ DOMAIN lots = 1..n /\ IsFiniteSet(1..n) /\ Cardinality(1..n) \in Nat
  BY LenProperties, FS_Interval, FS_CardinalityType
<1>2. ASSUME NEW s \in SUBSET (1..n), s # {}
      PROVE  Top(s) \in s /\ Cardinality(s \ {Top(s)}) = Cardinality(s) - 1 /\ Cardinality(s) \in Nat
  <2>1. Top(s) \in s
    BY <1>1, <1>2, GreatestIn
  <2>2. IsFiniteSet(s)
    BY <1>1, FS_Subset
  <2> HIDE DEF Top
  <2> QED
    BY <2>1, <2>2, FS_RemoveElement, FS_CardinalityType
<1> HIDE DEF Top
<1>3. Good(0)
  <2> DEFINE h == [s \in D(0) |-> <<>>]
  <2>1. ASSUME NEW s \in D(0) PROVE s = {}
    <3>1. s \in SUBSET (1..n) /\ Cardinality(s) = 0
      OBVIOUS
    <3>2. IsFiniteSet(s)
      BY <1>1, <3>1, FS_Subset
    <3> QED
      BY <3>1, <3>2, FS_EmptySet
  <2>2. h = [s \in D(0) |-> IF s = {} THEN <<>> ELSE Step(s, h)]
    BY <2>1
  <2> QED
    BY <2>2
<1>4. ASSUME NEW m \in Nat, Good(m) PROVE Good(m + 1)
  <2>1. PICK g : g = [s \in D(m) |-> IF s = {} THEN <<>> ELSE Step(s, g)]
    BY <1>4
  <2> DEFINE h == [s \in D(m + 1) |-> IF s = {} THEN <<>> ELSE Step(s, g)]
  <2>2. ASSUME NEW s \in D(m) PROVE s \in D(m + 1) /\ h[s] = g[s]
    <3>1. s \in D(m + 1)
      OBVIOUS
    <3> QED
      BY <2>1, <3>1
  <2>3. ASSUME NEW s \in D(m + 1), s # {} PROVE s \ {Top(s)} \in D(m)
    <3>1. s \in SUBSET (1..n) /\ Cardinality(s) \in 0..(m + 1)
      OBVIOUS
    <3> DEFINE r == s \ {Top(s)}
    <3>2. Top(s) \in s /\ Cardinality(r) = Cardinality(s) - 1 /\ Cardinality(s) \in Nat
      BY <1>2, <2>3, <3>1
    <3>3. IsFiniteSet(r) /\ r \in SUBSET (1..n)
      BY <1>1, <3>1, FS_Subset
    <3>4. Cardinality(r) \in Nat
      BY <3>3, FS_CardinalityType
    <3> HIDE DEF r
    <3>5. Cardinality(r) \in 0..m
      BY <3>1, <3>2, <3>4
    <3> QED
      BY <3>3, <3>5 DEF r
  <2> HIDE DEF D
  <2>4. ASSUME NEW s \in D(m + 1), s # {} PROVE Step(s, g) = Step(s, h)
    <3>1. g[s \ {Top(s)}] = h[s \ {Top(s)}]
      BY <2>2, <2>3, <2>4
    <3> HIDE DEF h
    <3> QED
      BY <3>1
  <2>5. h = [s \in D(m + 1) |-> IF s = {} THEN <<>> ELSE Step(s, h)]
    <3> HIDE DEF Step
    <3> QED
      BY <2>4
  <2> QED
    BY <2>5
<1> HIDE DEF Good
<1>5. Bad = {}
  <2> SUFFICES ASSUME Bad # {} PROVE FALSE
    OBVIOUS
  <2>1. PICK m \in Bad : \A j \in Bad : m <= j
    BY LeastNat
  <2>2. m # 0
    BY <1>3, <2>1
  <2>3. m - 1 \in Nat /\ Good(m - 1)
    BY <2>1, <2>2
  <2>4. Good((m - 1) + 1)
    BY <1>4, <2>3
  <2> QED
    BY <2>1, <2>4
<1>6. D(Cardinality(1..n)) = SUBSET (1..n)
  BY <1>1, FS_Subset, FS_CardinalityType
<1>7. \E h : h = [s \in SUBSET (1..n) |-> IF s = {} THEN <<>> ELSE Step(s, h)]
  <2>1. Good(Cardinality(1..n))
    BY <1>1, <1>5
  <2> QED
    BY <1>6, <2>1 DEF Good
<1>8. f = [s \in SUBSET (1..n) |-> IF s = {} THEN <<>> ELSE Step(s, f)]
  BY <1>7
<1>9. KeepLots(lots, kept) = f[1..n]
  BY <1>1 DEF KeepLots, FoldLeft, MapThenFoldSet, Top
<1> HIDE DEF f
<1> DEFINE d == [k \in 0..n |-> f[1..k]]
<1>10. d[0] = <<>>
  <2>1. 1..0 = {} /\ 0 \in 0..n
    BY <1>1
  <2> QED
    BY <1>8, <2>1
<1>11. ASSUME NEW k \in 1..n
       PROVE  d[k] = IF lots[k] \in kept THEN Append(d[k - 1], lots[k]) ELSE d[k - 1]
  <2> HIDE DEF n
  <2>1. /\ 1..k \in SUBSET (1..n) /\ 1..k # {}
        /\ (1..k) \ {k} = 1..(k - 1)
        /\ k - 1 \in 0..n /\ k \in 0..n
    <3>1. 1..k \in SUBSET (1..n) /\ 1..k # {}
      <4>1. n \in Nat /\ k \in Nat /\ 1 <= k /\ k <= n
        BY <1>1
      <4>2. 1 \in 1..k
        BY <4>1
      <4>3. \A j \in 1..k : j \in 1..n
        BY <4>1
      <4> QED
        BY <4>2, <4>3
    <3>2. (1..k) \ {k} = 1..(k - 1)
      <4>1. k \in Nat /\ \A j \in Int : j <= k /\ j # k <=> j <= k - 1
        BY <1>1
      <4> QED
        BY <4>1
    <3>3. k - 1 \in 0..n /\ k \in 0..n
      BY <1>1
    <3> QED
      BY <3>1, <3>2, <3>3
  <2>2. Top(1..k) = k
    <3>1. Max(1..k) \in 1..k /\ \A m \in 1..k : m <= Max(1..k)
      BY <1>1, <2>1, GreatestIn
    <3> QED
      BY <3>1 DEF Top
  <2>3. f[1..k] = Step(1..k, f)
    BY <1>8, <2>1
  <2>4. d[k] = f[1..k] /\ d[k - 1] = f[1..(k - 1)]
    BY <2>1
  <2> QED
    BY <2>1, <2>2, <2>3, <2>4
<1>12. KeepLots(lots, kept) = d[n]
  BY <1>1, <1>9
<1> QED
  BY <1>10, <1>11, <1>12

(* The units of the lots that are kept, by position.                       *)
KeptUnits(lots, kept) ==
  [k \in 1..Len(lots) |-> IF lots[k] \in kept THEN lots[k].quantity ELSE 0]

(* KeepLots yields lots of the set only, and all their units.              *)
LEMMA KeepLotsUnits ==
  ASSUME NEW lots \in Seq(LooseLot), NEW kept
  PROVE  /\ KeepLots(lots, kept) \in Seq(LooseLot \cap kept)
         /\ KeepLots(lots, kept) \in Seq(LooseLot)
         /\ UnitsOf(KeepLots(lots, kept)) = Prefix(KeptUnits(lots, kept), Len(lots))
<1> DEFINE n == Len(lots)
           v == KeptUnits(lots, kept)
<1>1. PICK d : /\ d[0] = <<>>
               /\ \A k \in 1..n :
                    d[k] = IF lots[k] \in kept THEN Append(d[k - 1], lots[k]) ELSE d[k - 1]
               /\ KeepLots(lots, kept) = d[n]
  BY KeepLotsSteps
<1>2. n \in Nat /\ \A k \in 1..n : lots[k] \in LooseLot /\ lots[k].quantity \in Nat
  BY LenProperties, ElementOfSeq, LotUnitsFacts
<1>3. \A k \in 1..n : v[k] = (IF lots[k] \in kept THEN lots[k].quantity ELSE 0) /\ v[k] \in Nat
  BY <1>2 DEF KeptUnits
<1>4. /\ Prefix(v, 0) = 0 /\ \A k \in 0..n : Prefix(v, k) \in Int
      /\ \A k \in 1..n : Prefix(v, k) = Prefix(v, k - 1) + v[k]
  <2>1. \A k \in 1..n : v[k] \in Int
    BY <1>3
  <2> HIDE DEF v
  <2> QED
    BY <1>2, <2>1, PrefixStep
<1> HIDE DEF n, v
<1> DEFINE Right(s, k) == s \in Seq(LooseLot \cap kept) /\ UnitsOf(s) = Prefix(v, k)
           Bad == {k \in Nat : k <= n /\ ~Right(d[k], k)}
<1>5. \A s \in Seq(LooseLot \cap kept) : s \in Seq(LooseLot)
  BY SeqMonotonic
<1>6. Right(d[0], 0)
  BY <1>1, <1>4, EmptySeq, UnitsEmpty
<1>7. ASSUME NEW k \in 1..n, Right(d[k - 1], k - 1) PROVE Right(d[k], k)
  <2>1. CASE lots[k] \in kept
    <3> DEFINE s == d[k - 1]
               l == lots[k]
    <3>1. d[k] = Append(s, l) /\ l \in LooseLot \cap kept /\ v[k] = l.quantity
      BY <1>1, <1>2, <1>3, <2>1
    <3>2. s \in Seq(LooseLot \cap kept) /\ s \in Seq(LooseLot) /\ UnitsOf(s) = Prefix(v, k - 1)
      BY <1>5, <1>7
    <3> HIDE DEF s, l
    <3>3. Append(s, l) \in Seq(LooseLot \cap kept)
      BY <3>1, <3>2, AppendProperties
    <3>4. l \in LooseLot
      BY <3>1
    <3>5. UnitsOf(Append(s, l)) = UnitsOf(s) + l.quantity
      BY <3>2, <3>4, UnitsAppend
    <3>6. Prefix(v, k) = Prefix(v, k - 1) + v[k]
      BY <1>4
    <3> QED
      BY <3>1, <3>2, <3>3, <3>5, <3>6
  <2>2. CASE lots[k] \notin kept
    <3>1. d[k] = d[k - 1] /\ v[k] = 0
      BY <1>1, <1>3, <2>2
    <3>2. Prefix(v, k) = Prefix(v, k - 1) + v[k] /\ Prefix(v, k - 1) \in Int
      BY <1>2, <1>4
    <3>3. Prefix(v, k) = Prefix(v, k - 1)
      BY <3>1, <3>2
    <3> QED
      BY <1>7, <3>1, <3>3
  <2> QED
    BY <2>1, <2>2
<1> HIDE DEF Right
<1>8. Bad = {}
  <2> SUFFICES ASSUME Bad # {} PROVE FALSE
    OBVIOUS
  <2>1. PICK k \in Bad : \A m \in Bad : k <= m
    BY LeastNat
  <2>2. k # 0
    BY <1>6, <2>1
  <2>3. k \in 1..n /\ k - 1 \in Nat /\ k - 1 <= n /\ k - 1 \notin Bad
    BY <1>2, <2>1, <2>2
  <2> QED
    BY <1>7, <2>1, <2>3
<1>9. Right(d[n], n)
  BY <1>2, <1>8
<1> QED
  BY <1>1, <1>5, <1>9 DEF Right, n, v

(* Prefix sums add up value by value.                                      *)
LEMMA PrefixPlus ==
  ASSUME NEW n \in Nat, NEW v, NEW w, NEW x,
         \A k \in 1..n : v[k] \in Int /\ w[k] \in Int /\ x[k] = v[k] + w[k]
  PROVE  Prefix(x, n) = Prefix(v, n) + Prefix(w, n)
<1> DEFINE Bad == {k \in Nat : k <= n /\ Prefix(x, k) # Prefix(v, k) + Prefix(w, k)}
<1>1. /\ Prefix(v, 0) = 0 /\ \A k \in 0..n : Prefix(v, k) \in Int
      /\ \A k \in 1..n : Prefix(v, k) = Prefix(v, k - 1) + v[k]
  BY PrefixStep
<1>2. /\ Prefix(w, 0) = 0 /\ \A k \in 0..n : Prefix(w, k) \in Int
      /\ \A k \in 1..n : Prefix(w, k) = Prefix(w, k - 1) + w[k]
  BY PrefixStep
<1>3. /\ Prefix(x, 0) = 0
      /\ \A k \in 1..n : Prefix(x, k) = Prefix(x, k - 1) + x[k]
  <2>1. \A k \in 1..n : x[k] \in Int
    OBVIOUS
  <2> QED
    BY <2>1, PrefixStep
<1>4. ASSUME Bad # {} PROVE FALSE
  <2>1. PICK k \in Bad : \A m \in Bad : k <= m
    BY <1>4, LeastNat
  <2>2. k # 0
    BY <1>1, <1>2, <1>3, <2>1
  <2>3. k \in 1..n /\ k - 1 \in 0..n /\ k - 1 \notin Bad
    BY <2>1, <2>2
  <2>4. Prefix(x, k - 1) = Prefix(v, k - 1) + Prefix(w, k - 1)
    BY <2>3
  <2>5. Prefix(v, k - 1) \in Int /\ Prefix(w, k - 1) \in Int
    BY <1>1, <1>2, <2>3
  <2>6. v[k] \in Int /\ w[k] \in Int /\ x[k] = v[k] + w[k]
    BY <2>3
  <2>7. Prefix(x, k) = Prefix(v, k) + Prefix(w, k)
    BY <1>1, <1>2, <1>3, <2>3, <2>4, <2>5, <2>6
  <2> QED
    BY <2>1, <2>7
<1> QED
  BY <1>4

(* A lot is a lot that may be empty.                                       *)
LEMMA LotsAreLoose == \A lots \in Seq(Lot) : lots \in Seq(LooseLot)
<1>1. Lot \subseteq LooseLot
  BY DEF Lot, LooseLot
<1> QED
  BY <1>1, SeqMonotonic

(* Putting the settled lots first loses no units and invents none.         *)
LEMMA ConsumeOrderUnits ==
  ASSUME NEW lots \in Seq(LooseLot), NEW at
  PROVE  /\ ConsumeOrder(lots, at) \in Seq(LooseLot)
         /\ UnitsOf(ConsumeOrder(lots, at)) = UnitsOf(lots)
<1> DEFINE n == Len(lots)
           E == Eligible(lots, at)
           R == ToSet(lots) \ E
           v == KeptUnits(lots, E)
           w == KeptUnits(lots, R)
           x == LotUnits(lots)
<1>1. n \in Nat /\ \A k \in 1..n : lots[k] \in LooseLot /\ lots[k].quantity \in Nat /\ k \in DOMAIN lots
  BY LenProperties, ElementOfSeq, LotUnitsFacts
<1>2. \A k \in 1..n : lots[k] \in ToSet(lots)
  BY <1>1 DEF ToSet
<1>3. \A k \in 1..n : lots[k] \in R <=> lots[k] \notin E
  BY <1>2
<1>4. /\ KeepLots(lots, E) \in Seq(LooseLot) /\ UnitsOf(KeepLots(lots, E)) = Prefix(v, n)
      /\ KeepLots(lots, R) \in Seq(LooseLot) /\ UnitsOf(KeepLots(lots, R)) = Prefix(w, n)
  BY KeepLotsUnits
<1> HIDE DEF E, R
<1>5. ASSUME NEW k \in 1..n PROVE v[k] \in Int /\ w[k] \in Int /\ x[k] = v[k] + w[k]
  <2>1. /\ v[k] = IF lots[k] \in E THEN lots[k].quantity ELSE 0
        /\ w[k] = IF lots[k] \in R THEN lots[k].quantity ELSE 0
        /\ x[k] = lots[k].quantity
    BY DEF KeptUnits, LotUnits
  <2> HIDE DEF v, w, x
  <2> QED
    BY <1>1, <1>3, <2>1
<1> HIDE DEF v, w, x, n
<1>6. Prefix(x, n) = Prefix(v, n) + Prefix(w, n)
  <2>1. \A k \in 1..n : v[k] \in Int /\ w[k] \in Int /\ x[k] = v[k] + w[k]
    BY <1>5
  <2> QED
    BY <1>1, <2>1, PrefixPlus
<1>7. UnitsOf(lots) = Prefix(x, n)
  BY LotUnitsFacts DEF x, n
<1>8. ConsumeOrder(lots, at) = KeepLots(lots, E) \o KeepLots(lots, R)
  BY DEF ConsumeOrder, E, R
<1> DEFINE s == KeepLots(lots, E)
           t == KeepLots(lots, R)
<1> HIDE DEF s, t
<1>9. s \o t \in Seq(LooseLot) /\ UnitsOf(s \o t) = UnitsOf(s) + UnitsOf(t)
  <2>1. s \in Seq(LooseLot) /\ t \in Seq(LooseLot)
    BY <1>4 DEF s, t
  <2> QED
    BY <2>1, UnitsConcat
<1> QED
  BY <1>4, <1>6, <1>7, <1>8, <1>9 DEF s, t

(* The units before a position are a prefix sum.                           *)
LEMMA UnitsBefore ==
  ASSUME NEW lots \in Seq(LooseLot), NEW k \in 1..Len(lots)
  PROVE  UnitsOf(SubSeq(lots, 1, k - 1)) = Prefix(LotUnits(lots), k - 1)
<1> DEFINE s == SubSeq(lots, 1, k - 1)
           v == LotUnits(lots)
           w == LotUnits(s)
<1>1. Len(lots) \in Nat /\ \A i \in 1..Len(lots) : lots[i] \in LooseLot
  BY LenProperties, ElementOfSeq
<1>2. \A i \in 1..(k - 1) : i \in 1..Len(lots) /\ lots[i] \in LooseLot
  BY <1>1
<1>3. 1 \in Int /\ k - 1 \in Nat /\ k - 1 \in Int
  BY <1>1
<1>4. /\ s \in Seq(LooseLot)
      /\ Len(s) = IF 1 <= k - 1 THEN (k - 1) - 1 + 1 ELSE 0
      /\ \A i \in 1..((k - 1) - 1 + 1) : s[i] = lots[1 + i - 1]
  BY <1>2, <1>3, SubSeqProperties
<1> HIDE DEF s
<1>5. Len(s) = k - 1
  BY <1>3, <1>4
<1>6. ASSUME NEW i \in 1..(k - 1) PROVE s[i] = lots[i]
  <2>1. i \in 1..((k - 1) - 1 + 1) /\ 1 + i - 1 = i
    BY <1>3
  <2> QED
    BY <1>4, <2>1
<1>7. \A i \in 1..(k - 1) : w[i] = v[i]
  BY <1>2, <1>5, <1>6 DEF LotUnits
<1>8. UnitsOf(s) = Prefix(w, k - 1)
  BY <1>4, <1>5, LotUnitsFacts
<1> HIDE DEF v, w
<1>9. Prefix(w, k - 1) = Prefix(v, k - 1)
  BY <1>3, <1>7, PrefixCongruence
<1> QED
  BY <1>8, <1>9 DEF s, v

(* Taking q units from the front leaves everything but q, or nothing.      *)
LEMMA PrefixLeft ==
  ASSUME NEW n \in Nat, NEW u, \A k \in 1..n : u[k] \in Nat,
         NEW q \in Nat, NEW w,
         \A k \in 1..n : w[k] = u[k] - Least(u[k], Largest(q - Prefix(u, k - 1), 0))
  PROVE  /\ \A k \in 1..n : w[k] \in Nat
         /\ Prefix(w, n) = Prefix(u, n) - Least(Prefix(u, n), q)
         /\ Prefix(u, n) \in Int
<1> DEFINE g == [k \in 0..n |-> Prefix(u, k) - Least(Prefix(u, k), q)]
<1>1. /\ Prefix(u, 0) = 0 /\ \A k \in 0..n : Prefix(u, k) \in Int
      /\ \A k \in 1..n : Prefix(u, k) = Prefix(u, k - 1) + u[k]
  <2>1. \A k \in 1..n : u[k] \in Int
    OBVIOUS
  <2> QED
    BY <2>1, PrefixStep
<1>2. g[0] = 0
  BY <1>1 DEF Least
<1>3. ASSUME NEW k \in 1..n PROVE w[k] \in Nat /\ g[k] = g[k - 1] + w[k]
  <2>1. k - 1 \in 0..n /\ k \in 0..n
    OBVIOUS
  <2>2. /\ g[k] = Prefix(u, k) - Least(Prefix(u, k), q)
        /\ g[k - 1] = Prefix(u, k - 1) - Least(Prefix(u, k - 1), q)
    BY <2>1
  <2>3. PICK p \in Int : p = Prefix(u, k - 1)
    BY <1>1, <2>1
  <2>4. PICK c \in Nat : c = u[k]
    OBVIOUS
  <2>5. PICK d \in Int : d = Prefix(u, k)
    BY <1>1, <2>1
  <2>6. d = p + c
    BY <1>1, <2>3, <2>4, <2>5
  <2>7. w[k] = c - Least(c, Largest(q - p, 0))
    BY <2>3, <2>4
  <2> HIDE DEF g
  <2>8. g[k] = d - Least(d, q) /\ g[k - 1] = p - Least(p, q)
    BY <2>2, <2>3, <2>5
  <2>9. c - Least(c, Largest(q - p, 0)) \in Nat
    BY DEF Least, Largest
  <2>10. d - Least(d, q) = (p - Least(p, q)) + (c - Least(c, Largest(q - p, 0)))
    BY <2>6 DEF Least, Largest
  <2> QED
    BY <2>7, <2>8, <2>9, <2>10
<1>4. g[n] = Prefix(u, n) - Least(Prefix(u, n), q)
  OBVIOUS
<1> HIDE DEF g
<1>5. \A k \in 0..n : Prefix(w, k) = g[k]
  <2>1. \A k \in 1..n : w[k] \in Int
    BY <1>3
  <2>2. \A k \in 1..n : g[k] = g[k - 1] + w[k]
    BY <1>3
  <2> QED
    BY <1>2, <2>1, <2>2, PrefixRule, ZenonT(60)
<1> QED
  BY <1>1, <1>3, <1>4, <1>5

(* Consuming lots takes exactly the quantity that was asked for, and leaves*)
(* no empty lot behind.                                                    *)
LEMMA ConsumeUnits ==
  ASSUME NEW lots \in Seq(LooseLot), NEW q \in Nat, q <= UnitsOf(lots), NEW at
  PROVE  /\ Consume(lots, q, at) \in Seq(Lot)
         /\ UnitsOf(Consume(lots, q, at)) = UnitsOf(lots) - q
<1> DEFINE o == ConsumeOrder(lots, at)
           n == Len(o)
           u == LotUnits(o)
           before == [k \in DOMAIN o |-> UnitsOf(SubSeq(o, 1, k - 1))]
           taken == [k \in DOMAIN o |-> Least(o[k].quantity, Largest(q - before[k], 0))]
           left == [k \in DOMAIN o |-> [o[k] EXCEPT !.quantity = o[k].quantity - taken[k]]]
           S == {l \in ToSet(left) : l.quantity > 0}
           w == LotUnits(left)
           x == KeptUnits(left, S)
<1>1. o \in Seq(LooseLot) /\ UnitsOf(o) = UnitsOf(lots)
  BY ConsumeOrderUnits
<1>2. Consume(lots, q, at) = KeepLots(left, S)
  BY DEF Consume
<1> HIDE DEF o
<1>3. /\ n \in Nat /\ DOMAIN o = 1..n /\ UnitsOf(o) = Prefix(u, n)
      /\ \A k \in 1..n : o[k] \in LooseLot /\ u[k] = o[k].quantity /\ u[k] \in Nat
  BY <1>1, LenProperties, ElementOfSeq, LotUnitsFacts
<1>4. \A k \in 1..n : before[k] = Prefix(u, k - 1)
  BY <1>1, <1>3, UnitsBefore
<1> HIDE DEF u, before, n
<1> DEFINE y == [k \in 1..n |-> u[k] - taken[k]]
<1>5. \A k \in 1..n : y[k] = u[k] - Least(u[k], Largest(q - Prefix(u, k - 1), 0))
  BY <1>3, <1>4
<1>6. \A k \in 1..n : left[k] = [o[k] EXCEPT !.quantity = y[k]]
  BY <1>3
<1>7. left \in [1..n -> LooseLot] /\ \A k \in 1..n : y[k] \in Nat /\ left[k].quantity = y[k]
  <2>1. \A k \in 1..n : y[k] \in Nat
    <3> HIDE DEF y
    <3> QED
      BY <1>3, <1>5, PrefixLeft
  <2>2. ASSUME NEW k \in 1..n PROVE left[k] \in LooseLot /\ left[k].quantity = y[k]
    <3>1. o[k] \in LooseLot /\ y[k] \in Nat /\ left[k] = [o[k] EXCEPT !.quantity = y[k]]
      BY <1>3, <1>6, <2>1
    <3> HIDE DEF y, left
    <3> QED
      BY <3>1 DEF LooseLot
  <2>3. DOMAIN left = 1..n
    BY <1>3
  <2>4. left = [k \in 1..n |-> left[k]]
    BY <1>3
  <2> HIDE DEF left, y
  <2> QED
    BY <2>1, <2>2, <2>3, <2>4
<1>8. Prefix(y, n) = Prefix(u, n) - Least(Prefix(u, n), q)
  <2> HIDE DEF y
  <2> QED
    BY <1>3, <1>5, PrefixLeft
<1> HIDE DEF left, y
<1>9. left \in Seq(LooseLot) /\ Len(left) = n
  BY <1>3, <1>7
<1>10. KeepLots(left, S) \in Seq(LooseLot \cap S) /\ UnitsOf(KeepLots(left, S)) = Prefix(x, n)
  BY <1>9, KeepLotsUnits
<1>11. LooseLot \cap S \subseteq Lot
  BY DEF LooseLot, Lot
<1>12. KeepLots(left, S) \in Seq(Lot)
  BY <1>10, <1>11, SeqMonotonic
<1>13. \A k \in 1..n : x[k] = y[k]
  <2> SUFFICES ASSUME NEW k \in 1..n PROVE x[k] = y[k]
    OBVIOUS
  <2>1. k \in DOMAIN left
    BY <1>7
  <2>2. left[k] \in ToSet(left)
    BY <2>1 DEF ToSet
  <2>3. x[k] = IF left[k] \in S THEN left[k].quantity ELSE 0
    BY <1>9 DEF KeptUnits
  <2> QED
    BY <1>7, <2>2, <2>3
<1> HIDE DEF x
<1>14. Prefix(x, n) = Prefix(y, n)
  BY <1>3, <1>13, PrefixCongruence
<1>15. Least(Prefix(u, n), q) = q /\ Prefix(u, n) \in Int
  <2>1. Prefix(u, n) \in Nat
    BY <1>1, <1>3, LotUnitsFacts
  <2> QED
    BY <1>1, <1>3, <2>1 DEF Least
<1> QED
  BY <1>1, <1>2, <1>3, <1>8, <1>10, <1>12, <1>14, <1>15

-----------------------------------------------------------------------------
(* The inductive invariant.                                                *)

(* The cash and position events the stream owes.                           *)
DueRecord ==
  [kind : {"CASH", "POSITION"}, source : {"FILL", "FEE"} \X FillIds, day : Nat, change : Int,
   after : Int]

(* Every variable has its type: the engine keeps ledgers, targets, orders  *)
(* and fills of the shapes contracts.py validates.                         *)
TypeOK ==
  /\ config \in EventBacktestConfig
  /\ day \in Nat
  /\ cash \in Int
  /\ position \in [quantity : Int, cost : Int, lots : Seq(Lot)]
  /\ targets \in [Signals -> TargetRecord \cup {Absent}]
  /\ orders \in [OrderIds -> OrderRecord \cup {Absent}]
  /\ fills \in [FillIds -> FillRecord \cup {Absent}]
  /\ due \subseteq DueRecord

(* Every fill belongs to an order the exchange took; it is applied exactly *)
(* while it is confirmed or settled; no fill is reversed; and a fill that  *)
(* opened a long lot left a long position behind, which is why its fee may *)
(* be added to the cost.                                                   *)
FillsAreSound ==
  \A f \in FillIds : fills[f] # Absent =>
    /\ orders[fills[f].order] # Absent
    /\ orders[fills[f].order].status \notin {"CREATED", "SUBMITTED", "REJECTED"}
    /\ fills[f].status # "REVERSED"
    /\ fills[f].applied <=> fills[f].status \in {"CONFIRMED", "SETTLED"}
    /\ fills[f].fee # Absent => fills[f].applied
    /\ fills[f].opened > 0 => fills[f].after \in Int \X Int /\ fills[f].after[1] > 0

(* One fill's part in the ledger and in its order, as numbers that are zero*)
(* where the fill has none.                                                *)
Booked(t, f) == t[f] # Absent /\ t[f].applied

UnitsMoved(fill) == IF fill.side = "BUY" THEN fill.quantity ELSE -fill.quantity

CashMoved(fill) ==
  UnitsMoved(fill) * fill.price + (IF fill.fee = Absent THEN 0 ELSE fill.fee)

UnitsBy(t) == [f \in FillIds |-> IF Booked(t, f) THEN UnitsMoved(t[f]) ELSE 0]

CashBy(t) == [f \in FillIds |-> IF Booked(t, f) THEN CashMoved(t[f]) ELSE 0]

ConfirmedBy(t, o) ==
  [f \in FillIds |-> IF Booked(t, f) /\ t[f].order = o THEN t[f].quantity ELSE 0]

WaitingBy(t, o) ==
  [f \in FillIds |-> IF t[f] # Absent /\ t[f].order = o /\ t[f].status = "CREATED"
                     THEN t[f].quantity ELSE 0]

(* LedgerMatchesFills, as sums over all fills.                             *)
LedgerSums ==
  /\ cash = OpeningCash - SumOver(CashBy(fills), FillIds)
  /\ position.quantity = UnitsOf(OpeningLots) + SumOver(UnitsBy(fills), FillIds)

(* OrdersMatchFills, as sums over all fills.                               *)
OrderSums ==
  \A o \in OrderIds : orders[o] # Absent =>
    /\ orders[o].confirmed = SumOver(ConfirmedBy(fills, o), FillIds)
    /\ orders[o].confirmed + SumOver(WaitingBy(fills, o), FillIds) <= orders[o].quantity
    /\ orders[o].status = "FILLED" => orders[o].confirmed = orders[o].quantity
    /\ orders[o].status \in Terminal => /\ SumOver(WaitingBy(fills, o), FillIds) = 0
                                        /\ orders[o].filled = orders[o].confirmed

(* LotsMatchPosition; that no lot is empty is in the type of the position. *)
LotsSum ==
  /\ UnitsOf(position.lots) = Largest(position.quantity, 0)
  /\ position.cost >= 0
  /\ position.quantity = 0 => position.cost = 0

(* The invariant the events keep.                                          *)
Inv == TypeOK /\ FillsAreSound /\ LedgerSums /\ OrderSums /\ LotsSum

-----------------------------------------------------------------------------
(* The sums the invariant speaks of: their types, what a change of one fill*)
(* does to them, and that they are the sums the properties state.          *)

(* The four amounts of a fill are what its record says.                    *)
LEMMA FillValues ==
  ASSUME NEW t \in [FillIds -> FillRecord \cup {Absent}], NEW o, NEW f \in FillIds
  PROVE  /\ UnitsBy(t)[f] \in Int /\ CashBy(t)[f] \in Int
         /\ ConfirmedBy(t, o)[f] \in Nat /\ WaitingBy(t, o)[f] \in Nat
         /\ UnitsBy(t)[f] = (IF Booked(t, f) THEN UnitsMoved(t[f]) ELSE 0)
         /\ CashBy(t)[f] = (IF Booked(t, f) THEN CashMoved(t[f]) ELSE 0)
         /\ ConfirmedBy(t, o)[f] = (IF Booked(t, f) /\ t[f].order = o THEN t[f].quantity ELSE 0)
         /\ WaitingBy(t, o)[f] = (IF t[f] # Absent /\ t[f].order = o /\ t[f].status = "CREATED"
                                  THEN t[f].quantity ELSE 0)
<1>1. t[f] # Absent => t[f] \in FillRecord
  OBVIOUS
<1>2. ASSUME t[f] # Absent
      PROVE  /\ t[f].quantity \in Nat \ {0} /\ t[f].price \in Nat \ {0}
             /\ t[f].fee \in Nat \cup {Absent}
             /\ UnitsMoved(t[f]) \in Int /\ CashMoved(t[f]) \in Int
  <2>1. PICK q, p, e : /\ q = t[f].quantity /\ q \in Nat \ {0} /\ p = t[f].price /\ p \in Nat \ {0}
                       /\ e = (IF t[f].fee = Absent THEN 0 ELSE t[f].fee) /\ e \in Nat
                       /\ t[f].fee \in Nat \cup {Absent}
    BY <1>1, <1>2 DEF FillRecord
  <2>2. UnitsMoved(t[f]) = q \/ UnitsMoved(t[f]) = -q
    BY <2>1 DEF UnitsMoved
  <2>3. PICK u \in Int : u = UnitsMoved(t[f])
    BY <2>1, <2>2
  <2>4. CashMoved(t[f]) = u * p + e
    BY <2>1, <2>3 DEF CashMoved
  <2>5. u * p + e \in Int
    BY <2>1
  <2> QED
    BY <2>1, <2>3, <2>4, <2>5
<1> QED
  BY <1>2 DEF UnitsBy, CashBy, ConfirmedBy, WaitingBy, Booked

(* A change of one fill changes the four sums by its own amounts.          *)
LEMMA FillChange ==
  ASSUME NEW t \in [FillIds -> FillRecord \cup {Absent}],
         NEW u \in [FillIds -> FillRecord \cup {Absent}],
         NEW f \in FillIds, \A g \in FillIds \ {f} : u[g] = t[g], NEW o
  PROVE  /\ SumOver(UnitsBy(u), FillIds)
              = SumOver(UnitsBy(t), FillIds) - UnitsBy(t)[f] + UnitsBy(u)[f]
         /\ SumOver(CashBy(u), FillIds)
              = SumOver(CashBy(t), FillIds) - CashBy(t)[f] + CashBy(u)[f]
         /\ SumOver(ConfirmedBy(u, o), FillIds)
              = SumOver(ConfirmedBy(t, o), FillIds) - ConfirmedBy(t, o)[f] + ConfirmedBy(u, o)[f]
         /\ SumOver(WaitingBy(u, o), FillIds)
              = SumOver(WaitingBy(t, o), FillIds) - WaitingBy(t, o)[f] + WaitingBy(u, o)[f]
<1>1. IsFiniteSet(FillIds)
  BY EventAssumption
<1>2. \A g \in FillIds : /\ UnitsBy(t)[g] \in Int /\ UnitsBy(u)[g] \in Int
                         /\ CashBy(t)[g] \in Int /\ CashBy(u)[g] \in Int
                         /\ ConfirmedBy(t, o)[g] \in Int /\ ConfirmedBy(u, o)[g] \in Int
                         /\ WaitingBy(t, o)[g] \in Int /\ WaitingBy(u, o)[g] \in Int
  BY FillValues
<1>3. \A g \in FillIds \ {f} : /\ UnitsBy(t)[g] = UnitsBy(u)[g]
                               /\ CashBy(t)[g] = CashBy(u)[g]
                               /\ ConfirmedBy(t, o)[g] = ConfirmedBy(u, o)[g]
                               /\ WaitingBy(t, o)[g] = WaitingBy(u, o)[g]
  BY DEF UnitsBy, CashBy, ConfirmedBy, WaitingBy, Booked
<1>4. SumOver(UnitsBy(u), FillIds) = SumOver(UnitsBy(t), FillIds) - UnitsBy(t)[f] + UnitsBy(u)[f]
  BY <1>1, <1>2, <1>3, SumChange
<1>5. SumOver(CashBy(u), FillIds) = SumOver(CashBy(t), FillIds) - CashBy(t)[f] + CashBy(u)[f]
  BY <1>1, <1>2, <1>3, SumChange
<1>6. SumOver(ConfirmedBy(u, o), FillIds)
        = SumOver(ConfirmedBy(t, o), FillIds) - ConfirmedBy(t, o)[f] + ConfirmedBy(u, o)[f]
  BY <1>1, <1>2, <1>3, SumChange
<1>7. SumOver(WaitingBy(u, o), FillIds)
        = SumOver(WaitingBy(t, o), FillIds) - WaitingBy(t, o)[f] + WaitingBy(u, o)[f]
  BY <1>1, <1>2, <1>3, SumChange
<1> QED
  BY <1>4, <1>5, <1>6, <1>7

(* The four sums are numbers.                                              *)
LEMMA SumTypes ==
  ASSUME NEW t \in [FillIds -> FillRecord \cup {Absent}], NEW o
  PROVE  /\ SumOver(UnitsBy(t), FillIds) \in Int /\ SumOver(CashBy(t), FillIds) \in Int
         /\ SumOver(ConfirmedBy(t, o), FillIds) \in Nat /\ SumOver(WaitingBy(t, o), FillIds) \in Nat
<1>1. IsFiniteSet(FillIds)
  BY EventAssumption
<1>2. \A g \in FillIds : /\ UnitsBy(t)[g] \in Int /\ CashBy(t)[g] \in Int
                         /\ ConfirmedBy(t, o)[g] \in Nat /\ WaitingBy(t, o)[g] \in Nat
  BY FillValues
<1> QED
  BY <1>1, <1>2, SumType, SumNat

(* The sum of LedgerMatchesFills over units, as a sum of values.           *)
LEMMA SignedSum ==
  ASSUME NEW X, IsFiniteSet(X)
  PROVE  MapThenSumSet(Signed, X) = SumOver([f \in X |-> Signed(f)], X)
<1> DEFINE v == [f \in X |-> Signed(f)]
           h == CHOOSE g : g = [s \in SUBSET X |-> IF s = {} THEN 0 ELSE Signed(Pick(s)) + g[s \ {Pick(s)}]]
<1>1. PICK g : Sums(v, X, g)
  BY IterExists
<1>2. \A s \in SUBSET X : s # {} => v[Pick(s)] = Signed(Pick(s))
  BY DEF Pick
<1> HIDE DEF v
<1>3. g = [s \in SUBSET X |-> IF s = {} THEN 0 ELSE Signed(Pick(s)) + g[s \ {Pick(s)}]]
  BY <1>1, <1>2 DEF Sums
<1>4. h = [s \in SUBSET X |-> IF s = {} THEN 0 ELSE Signed(Pick(s)) + h[s \ {Pick(s)}]]
  BY <1>3
<1>5. MapThenSumSet(Signed, X) = h[X]
  BY DEF MapThenSumSet, MapThenFoldSet, Pick
<1> HIDE DEF h
<1>6. Sums(v, X, h)
  BY <1>4, <1>2 DEF Sums
<1> QED
  BY <1>5, <1>6, SumOverIs DEF v

(* The sum of LedgerMatchesFills over cash, as a sum of values.            *)
LEMMA CashSum ==
  ASSUME NEW X, IsFiniteSet(X)
  PROVE  MapThenSumSet(LAMBDA f : Signed(f) * fills[f].price + FeePaid(f), X)
           = SumOver([f \in X |-> Signed(f) * fills[f].price + FeePaid(f)], X)
<1> DEFINE e(f) == Signed(f) * fills[f].price + FeePaid(f)
           v == [f \in X |-> e(f)]
           h == CHOOSE g : g = [s \in SUBSET X |-> IF s = {} THEN 0 ELSE
                  (Signed(Pick(s)) * fills[Pick(s)].price + FeePaid(Pick(s))) + g[s \ {Pick(s)}]]
<1>1. PICK g : Sums(v, X, g)
  BY IterExists
<1>2. \A s \in SUBSET X : s # {} => v[Pick(s)] = e(Pick(s))
  BY DEF Pick
<1> HIDE DEF v, e
<1>3. g = [s \in SUBSET X |-> IF s = {} THEN 0 ELSE e(Pick(s)) + g[s \ {Pick(s)}]]
  BY <1>1, <1>2 DEF Sums
<1>4. h = [s \in SUBSET X |-> IF s = {} THEN 0 ELSE e(Pick(s)) + h[s \ {Pick(s)}]]
  BY <1>3 DEF e
<1>5. MapThenSumSet(LAMBDA f : Signed(f) * fills[f].price + FeePaid(f), X) = h[X]
  BY DEF MapThenSumSet, MapThenFoldSet, Pick
<1> HIDE DEF h
<1>6. Sums(v, X, h)
  BY <1>4, <1>2 DEF Sums
<1> QED
  BY <1>5, <1>6, SumOverIs DEF v, e

(* The sums of OrdersMatchFills, as sums of values.                        *)
LEMMA QuantitySum ==
  ASSUME NEW X, IsFiniteSet(X)
  PROVE  QuantityOver(X) = SumOver([f \in X |-> fills[f].quantity], X)
<1> DEFINE v == [f \in X |-> fills[f].quantity]
           h == CHOOSE g : g = [s \in SUBSET X |-> IF s = {} THEN 0 ELSE
                                  fills[Pick(s)].quantity + g[s \ {Pick(s)}]]
<1>1. PICK g : Sums(v, X, g)
  BY IterExists
<1>2. \A s \in SUBSET X : s # {} => v[Pick(s)] = fills[Pick(s)].quantity
  BY DEF Pick
<1> HIDE DEF v
<1>3. g = [s \in SUBSET X |-> IF s = {} THEN 0 ELSE fills[Pick(s)].quantity + g[s \ {Pick(s)}]]
  BY <1>1, <1>2 DEF Sums
<1>4. h = [s \in SUBSET X |-> IF s = {} THEN 0 ELSE fills[Pick(s)].quantity + h[s \ {Pick(s)}]]
  BY <1>3
<1>5. QuantityOver(X) = h[X]
  BY DEF QuantityOver, MapThenSumSet, MapThenFoldSet, Pick
<1> HIDE DEF h
<1>6. Sums(v, X, h)
  BY <1>4, <1>2 DEF Sums
<1> QED
  BY <1>5, <1>6, SumOverIs DEF v

(* The sets of known and of applied fills.                                 *)
LEMMA KnownFills ==
  ASSUME TypeOK
  PROVE  /\ Known(fills) \subseteq FillIds /\ Applied \subseteq FillIds
         /\ \A f \in FillIds : f \in Known(fills) <=> fills[f] # Absent
         /\ \A f \in FillIds : f \in Applied <=> Booked(fills, f)
         /\ \A f \in Known(fills) : fills[f] \in FillRecord
BY DEF Known, Applied, Booked, TypeOK

(* The sums LedgerMatchesFills states are those of the invariant.          *)
LEMMA LedgerIs ==
  ASSUME TypeOK
  PROVE  /\ MapThenSumSet(Signed, Applied) = SumOver(UnitsBy(fills), FillIds)
         /\ MapThenSumSet(LAMBDA f : Signed(f) * fills[f].price + FeePaid(f), Applied)
              = SumOver(CashBy(fills), FillIds)
<1> DEFINE x == [f \in Applied |-> Signed(f)]
           y == [f \in Applied |-> Signed(f) * fills[f].price + FeePaid(f)]
           v == UnitsBy(fills)
           w == CashBy(fills)
<1>1. IsFiniteSet(FillIds) /\ Applied \subseteq FillIds /\ IsFiniteSet(Applied)
  BY EventAssumption, KnownFills, FS_Subset
<1>2. /\ MapThenSumSet(Signed, Applied) = SumOver(x, Applied)
      /\ MapThenSumSet(LAMBDA f : Signed(f) * fills[f].price + FeePaid(f), Applied) = SumOver(y, Applied)
  BY <1>1, SignedSum, CashSum
<1>3. fills \in [FillIds -> FillRecord \cup {Absent}]
  BY DEF TypeOK
<1>4. /\ \A f \in FillIds : v[f] \in Int /\ w[f] \in Int
      /\ \A f \in FillIds \ Applied : v[f] = 0 /\ w[f] = 0
      /\ \A f \in Applied : v[f] = x[f] /\ w[f] = y[f]
  <2>1. \A f \in FillIds : /\ v[f] \in Int /\ w[f] \in Int
                           /\ v[f] = (IF Booked(fills, f) THEN UnitsMoved(fills[f]) ELSE 0)
                           /\ w[f] = (IF Booked(fills, f) THEN CashMoved(fills[f]) ELSE 0)
    BY <1>3, FillValues
  <2>2. \A f \in FillIds : f \in Applied <=> Booked(fills, f)
    BY KnownFills
  <2>3. \A f \in Applied : x[f] = UnitsMoved(fills[f]) /\ y[f] = CashMoved(fills[f])
    BY DEF Signed, FeePaid, UnitsMoved, CashMoved
  <2> QED
    BY <1>1, <2>1, <2>2, <2>3
<1> HIDE DEF x, y, v, w
<1>5. SumOver(v, FillIds) = SumOver(v, Applied) /\ SumOver(w, FillIds) = SumOver(w, Applied)
  BY <1>1, <1>4, SumRestrict
<1>6. SumOver(v, Applied) = SumOver(x, Applied)
  BY <1>1, <1>4, SumCongruence
<1>7. SumOver(w, Applied) = SumOver(y, Applied)
  BY <1>1, <1>4, SumCongruence
<1>8. MapThenSumSet(Signed, Applied) = SumOver(v, FillIds)
  BY <1>2, <1>5, <1>6
<1>9. MapThenSumSet(LAMBDA f : Signed(f) * fills[f].price + FeePaid(f), Applied) = SumOver(w, FillIds)
  BY <1>2, <1>5, <1>7
<1> QED
  BY <1>8, <1>9 DEF v, w

(* The sums OrdersMatchFills states are those of the invariant.            *)
LEMMA OrderQuantities ==
  ASSUME TypeOK, NEW o
  PROVE  /\ QuantityOver(FillsOfOrder(o) \cap Applied) = SumOver(ConfirmedBy(fills, o), FillIds)
         /\ QuantityOver(Unconfirmed(o)) = SumOver(WaitingBy(fills, o), FillIds)
         /\ Unconfirmed(o) \subseteq FillIds /\ \A f \in Unconfirmed(o) : fills[f].quantity \in Nat \ {0}
<1> DEFINE A == FillsOfOrder(o) \cap Applied
           B == Unconfirmed(o)
           x == [f \in A |-> fills[f].quantity]
           y == [f \in B |-> fills[f].quantity]
           v == ConfirmedBy(fills, o)
           w == WaitingBy(fills, o)
<1>1. fills \in [FillIds -> FillRecord \cup {Absent}]
  BY DEF TypeOK
<1>2. /\ A \subseteq FillIds /\ B \subseteq FillIds
      /\ \A f \in FillIds : f \in A <=> Booked(fills, f) /\ fills[f].order = o
      /\ \A f \in FillIds : f \in B <=> fills[f] # Absent /\ fills[f].order = o /\ fills[f].status = "CREATED"
  BY KnownFills DEF FillsOfOrder, Unconfirmed, Booked
<1>3. IsFiniteSet(FillIds) /\ IsFiniteSet(A) /\ IsFiniteSet(B)
  BY <1>2, EventAssumption, FS_Subset
<1>4. QuantityOver(A) = SumOver(x, A) /\ QuantityOver(B) = SumOver(y, B)
  BY <1>3, QuantitySum
<1>5. \A f \in FillIds :
        /\ v[f] \in Nat /\ w[f] \in Nat
        /\ v[f] = (IF Booked(fills, f) /\ fills[f].order = o THEN fills[f].quantity ELSE 0)
        /\ w[f] = (IF fills[f] # Absent /\ fills[f].order = o /\ fills[f].status = "CREATED"
                   THEN fills[f].quantity ELSE 0)
  BY <1>1, FillValues
<1> HIDE DEF A, B, v, w
<1>6. /\ \A f \in FillIds : v[f] \in Int /\ w[f] \in Int
      /\ \A f \in FillIds \ A : v[f] = 0
      /\ \A f \in A : v[f] = x[f]
      /\ \A f \in FillIds \ B : w[f] = 0
      /\ \A f \in B : w[f] = y[f]
  BY <1>2, <1>5
<1> HIDE DEF x, y
<1>7. SumOver(v, FillIds) = SumOver(v, A) /\ SumOver(w, FillIds) = SumOver(w, B)
  BY <1>2, <1>3, <1>6, SumRestrict
<1>8. SumOver(v, A) = SumOver(x, A) /\ SumOver(w, B) = SumOver(y, B)
  BY <1>3, <1>6, SumCongruence
<1>9. \A f \in B : fills[f].quantity \in Nat \ {0}
  <2> SUFFICES ASSUME NEW f \in B PROVE fills[f].quantity \in Nat \ {0}
    OBVIOUS
  <2>1. fills[f] \in FillRecord
    BY <1>1, <1>2
  <2> QED
    BY <2>1 DEF FillRecord
<1> QED
  BY <1>2, <1>4, <1>7, <1>8, <1>9 DEF A, B, v, w

(* What an order has pending is the sum of its waiting fills; nothing      *)
(* pending means no fill waits.                                            *)
LEMMA PendingIs ==
  ASSUME TypeOK, NEW o
  PROVE  /\ Pending(o) = SumOver(WaitingBy(fills, o), FillIds)
         /\ SumOver(WaitingBy(fills, o), FillIds) = 0 => Unconfirmed(o) = {}
<1>1. Pending(o) = QuantityOver(Unconfirmed(o))
  BY DEF Pending, Unconfirmed
<1>2. ASSUME SumOver(WaitingBy(fills, o), FillIds) = 0 PROVE Unconfirmed(o) = {}
  <2> DEFINE B == Unconfirmed(o)
             y == [f \in B |-> fills[f].quantity]
  <2>1. QuantityOver(B) = 0 /\ B \subseteq FillIds /\ \A f \in B : fills[f].quantity \in Nat \ {0}
    BY <1>2, OrderQuantities
  <2>2. IsFiniteSet(B)
    BY <2>1, EventAssumption, FS_Subset
  <2>3. SumOver(y, B) = 0
    BY <2>1, <2>2, QuantitySum
  <2>4. \A f \in B : y[f] \in Nat \ {0}
    BY <2>1
  <2> HIDE DEF B, y
  <2>5. SumOver(y, B) <= 0
    BY <2>3
  <2>6. B = {}
    BY <2>2, <2>4, <2>5, SumPositive
  <2> QED
    BY <2>6 DEF B
<1> QED
  BY <1>1, <1>2, OrderQuantities

(* What an order has active is what is confirmed and what waits.           *)
LEMMA ActiveIs ==
  ASSUME TypeOK, FillsAreSound, NEW o
  PROVE  ActiveQuantity(o) = SumOver(ConfirmedBy(fills, o), FillIds) + SumOver(WaitingBy(fills, o), FillIds)
<1> DEFINE A == FillsOfOrder(o) \cap Applied
           B == Unconfirmed(o)
           C == {f \in FillsOfOrder(o) : fills[f].status \notin {"CANCELED", "REVERSED"}}
           y == [f \in FillIds |-> IF fills[f] # Absent THEN fills[f].quantity ELSE 0]
<1>1. fills \in [FillIds -> FillRecord \cup {Absent}] /\ IsFiniteSet(FillIds)
  BY EventAssumption DEF TypeOK
<1>2. ASSUME NEW f \in FillIds, fills[f] # Absent
      PROVE  /\ fills[f].status \in FillStatus /\ fills[f].quantity \in Int
             /\ fills[f].applied <=> fills[f].status \in {"CONFIRMED", "SETTLED"}
             /\ fills[f].status # "REVERSED"
  <2>1. fills[f] \in FillRecord
    BY <1>1, <1>2
  <2> QED
    BY <1>2, <2>1 DEF FillRecord, FillsAreSound
<1>3. A \subseteq FillIds /\ B \subseteq FillIds /\ C \subseteq FillIds
  BY DEF FillsOfOrder, Known, Applied, Unconfirmed, TypeOK
<1>4. A \cup B = C /\ A \cap B = {}
  <2>1. \A f \in FillIds : f \in C <=> f \in A \/ f \in B
    BY <1>2 DEF FillsOfOrder, Known, Applied, Unconfirmed, TypeOK, FillStatus
  <2>2. \A f \in FillIds : ~(f \in A /\ f \in B)
    BY <1>2 DEF FillsOfOrder, Known, Applied, Unconfirmed, TypeOK
  <2> QED
    BY <1>3, <2>1, <2>2
<1>5. \A f \in C : fills[f] # Absent
  BY DEF FillsOfOrder, Known
<1>6. \A f \in FillIds : y[f] \in Int
  BY <1>2
<1>7. ASSUME NEW X \in SUBSET FillIds, \A f \in X : fills[f] # Absent
      PROVE  QuantityOver(X) = SumOver(y, X)
  <2> DEFINE z == [f \in X |-> fills[f].quantity]
  <2>1. IsFiniteSet(X)
    BY <1>1, FS_Subset
  <2>2. QuantityOver(X) = SumOver(z, X)
    BY <2>1, QuantitySum
  <2>3. \A f \in X : z[f] = y[f]
    BY <1>7
  <2> HIDE DEF z, y
  <2> QED
    BY <2>1, <2>2, <2>3, SumCongruence
<1>8. ActiveQuantity(o) = QuantityOver(C)
  BY DEF ActiveQuantity
<1>9. (\A f \in A : fills[f] # Absent) /\ (\A f \in B : fills[f] # Absent)
  BY DEF FillsOfOrder, Known, Unconfirmed
<1> HIDE DEF A, B, C, y
<1>10. SumOver(y, A \cup B) = SumOver(y, A) + SumOver(y, B)
  BY <1>1, <1>3, <1>4, <1>6, SumUnion
<1>11. /\ QuantityOver(A) = SumOver(y, A) /\ QuantityOver(B) = SumOver(y, B)
       /\ QuantityOver(C) = SumOver(y, C)
  BY <1>3, <1>5, <1>7, <1>9
<1>12. /\ QuantityOver(A) = SumOver(ConfirmedBy(fills, o), FillIds)
       /\ QuantityOver(B) = SumOver(WaitingBy(fills, o), FillIds)
  BY OrderQuantities DEF A, B
<1>13. QuantityOver(C) = QuantityOver(A) + QuantityOver(B)
  BY <1>4, <1>10, <1>11
<1> QED
  BY <1>8, <1>12, <1>13

-----------------------------------------------------------------------------
(* What a confirmed fill makes of the position.                            *)

(* A product of naturals is a natural.                                     *)
LEMMA MulNat == ASSUME NEW a \in Nat, NEW b \in Nat PROVE a * b \in Nat
OBVIOUS

(* A quotient of naturals is a natural.                                    *)
LEMMA DivNat == ASSUME NEW a \in Nat, NEW b \in Nat, b # 0 PROVE a \div b \in Nat
OBVIOUS

(* Zero divided is zero.                                                   *)
LEMMA ZeroDiv == ASSUME NEW b \in Nat, b # 0 PROVE 0 \div b = 0
OBVIOUS

(* So is a quotient rounded half up.                                       *)
LEMMA HalfUpNat == ASSUME NEW a \in Nat, NEW b \in Nat, b # 0 PROVE HalfUp(a, b) \in Nat
<1>1. PICK x \in Nat : x = 2 * a + b
  OBVIOUS
<1>2. PICK y \in Nat : y = 2 * b /\ y # 0
  OBVIOUS
<1>3. x \div y \in Nat
  BY <1>2, DivNat
<1> QED
  BY <1>1, <1>2, <1>3 DEF HalfUp

(* A fee is never negative.                                                *)
LEMMA FeeIsNat == ASSUME NEW gross \in Nat PROVE FeeOf(FeeRule, gross) \in Nat
<1> DEFINE u == FeeRule.unit
           b == PerCent * FeeRule.unit
           c == gross * FeeRule.commission
           m == FeeRule.minimum * PerCent
           s == gross * FeeRule.stamp
           t == gross * FeeRule.transfer
           x == gross * FeeRule.other
<1>1. /\ u \in Nat /\ u # 0 /\ FeeRule.commission \in Nat /\ FeeRule.minimum \in Nat
      /\ FeeRule.stamp \in Nat /\ FeeRule.transfer \in Nat /\ FeeRule.other \in Nat
  BY EventAssumption
<1>2. b \in Nat /\ b # 0 /\ m \in Nat
  BY <1>1 DEF PerCent
<1>3. c \in Nat /\ s \in Nat /\ t \in Nat /\ x \in Nat
  BY <1>1, MulNat
<1>4. FeeOf(FeeRule, gross)
        = HalfUp(Largest(c, m), b) * u + HalfUp(s, b) * u + HalfUp(t, b) * u + HalfUp(x, b) * u
  BY DEF FeeOf
<1> HIDE DEF u, b, c, m, s, t, x
<1>5. Largest(c, m) \in Nat
  BY <1>2, <1>3 DEF Largest
<1>6. /\ HalfUp(Largest(c, m), b) \in Nat /\ HalfUp(s, b) \in Nat
      /\ HalfUp(t, b) \in Nat /\ HalfUp(x, b) \in Nat
  BY <1>2, <1>3, <1>5, HalfUpNat
<1>7. /\ HalfUp(Largest(c, m), b) * u \in Nat /\ HalfUp(s, b) * u \in Nat
      /\ HalfUp(t, b) * u \in Nat /\ HalfUp(x, b) * u \in Nat
  BY <1>1, <1>6, MulNat
<1> QED
  BY <1>4, <1>7

(* A settlement day is a trading day of the calendar.                      *)
LEMMA SellableType ==
  ASSUME NEW d \in Nat, SellableOn(Rule, Calendar, d) # Failed
  PROVE  SellableOn(Rule, Calendar, d) \in Int
<1>1. CASE Rule.settle = 0
  BY <1>1 DEF SellableOn
<1>2. CASE Rule.settle # 0
  <2> DEFINE at == {i \in DOMAIN Calendar : Calendar[i] = d}
             i == CHOOSE j \in at : TRUE
  <2>1. /\ at # {} /\ ~\E j \in at : j + Rule.settle > Len(Calendar)
        /\ SellableOn(Rule, Calendar, d) = Calendar[i + Rule.settle]
    BY <1>2 DEF SellableOn
  <2>2. i \in at
    BY <2>1
  <2>3. /\ Calendar \in Seq(Int) /\ Rule.settle \in Nat /\ Len(Calendar) \in Nat
        /\ DOMAIN Calendar = 1..Len(Calendar)
    BY EventAssumption, LenProperties
  <2>4. i \in 1..Len(Calendar)
    BY <2>2, <2>3
  <2>5. i + Rule.settle <= Len(Calendar)
    <3>1. ~(i + Rule.settle > Len(Calendar))
      BY <2>1, <2>2
    <3> HIDE DEF i
    <3> QED
      BY <2>3, <2>4, <3>1
  <2> HIDE DEF i
  <2>6. i + Rule.settle \in 1..Len(Calendar)
    BY <2>3, <2>4, <2>5
  <2>7. Calendar[i + Rule.settle] \in Int
    BY <2>3, <2>6, ElementOfSeq
  <2> QED
    BY <2>1, <2>7
<1> QED
  BY <1>1, <1>2

(* After a fill the position has moved by the change, its lots are its long*)
(* units, and its cost is not negative and is zero when it is flat.        *)
Settles(fill, a, change) ==
  /\ a.quantity = position.quantity + change /\ a.quantity \in Int
  /\ a.cost \in Nat
  /\ a.lots \in Seq(Lot)
  /\ UnitsOf(a.lots) = Largest(a.quantity, 0)
  /\ a.quantity = 0 => a.cost = 0
  /\ a.opened \in Nat /\ (a.opened > 0 => a.quantity > 0)

(* What the invariant says of the position.                                *)
LEMMA PositionFacts ==
  ASSUME TypeOK, LotsSum
  PROVE  /\ position.quantity \in Int /\ position.cost \in Nat /\ position.lots \in Seq(Lot)
         /\ position.lots \in Seq(LooseLot) /\ UnitsOf(position.lots) = Largest(position.quantity, 0)
<1>1. position.quantity \in Int /\ position.cost \in Int /\ position.lots \in Seq(Lot)
  BY DEF TypeOK
<1> QED
  BY <1>1, LotsAreLoose DEF LotsSum

(* A buy covers a short first and opens a lot with the rest: _apply_buy    *)
(* settles the position.                                                   *)
LEMMA BoughtSettles ==
  ASSUME TypeOK, LotsSum, NEW fill \in FillRecord, Bought(fill) # Failed
  PROVE  Settles(fill, Bought(fill), fill.quantity)
<1> DEFINE q == fill.quantity
           p == position.quantity
           c == position.cost
           lots == position.lots
           opened == Opened(fill)
           short == Short - (q - opened)
           base == IF p < 0 THEN (c * short) \div Short ELSE c
           lot == [quantity |-> opened, sellable |-> SellableOn(Rule, Calendar, fill.day)]
           a == [quantity |-> p + q, cost |-> base + opened * fill.price,
                 lots |-> IF opened > 0 THEN Append(lots, lot) ELSE lots, opened |-> opened]
<1>1. /\ q \in Nat \ {0} /\ fill.price \in Nat /\ fill.day \in Nat
      /\ p \in Int /\ c \in Nat /\ lots \in Seq(Lot) /\ lots \in Seq(LooseLot)
      /\ UnitsOf(lots) = Largest(p, 0) /\ (p = 0 => c = 0)
  BY PositionFacts DEF FillRecord, LotsSum
<1>2. /\ Bought(fill) = a
      /\ ~(opened > 0 /\ lot.sellable = Failed)
  BY DEF Bought
<1>3. /\ Short = Largest(-p, 0) /\ opened = q - Least(q, Short)
  BY DEF Short, Opened
<1> HIDE DEF p, c, q, lots
<1>4. /\ Short \in Nat /\ opened \in Nat /\ short \in Nat
      /\ p < 0 => Short = -p /\ Short # 0
      /\ p >= 0 => opened = q
      /\ opened > 0 /\ p < 0 => opened = p + q
      /\ opened = 0 => p + q <= 0 /\ p < 0
      /\ p + q = 0 => opened = 0 /\ short = 0 /\ p < 0
  BY <1>1, <1>3 DEF Least, Largest
<1> HIDE DEF opened, short
<1>5. base \in Nat /\ (short = 0 /\ p < 0 => base = 0)
  <2>1. c * short \in Nat /\ (short = 0 => c * short = 0)
    BY <1>1, <1>4, MulNat
  <2>2. PICK x \in Nat : x = c * short
    BY <2>1
  <2>3. p < 0 => x \div Short \in Nat
    BY <1>4, DivNat
  <2>4. p < 0 => 0 \div Short = 0
    BY <1>4, ZeroDiv
  <2>5. base = IF p < 0 THEN x \div Short ELSE c
    BY <2>2
  <2> HIDE DEF base
  <2> QED
    BY <1>1, <2>1, <2>2, <2>3, <2>4, <2>5
<1>6. opened * fill.price \in Nat /\ (opened = 0 => opened * fill.price = 0)
  BY <1>1, <1>4, MulNat
<1>7. a.quantity = p + q /\ a.cost = base + opened * fill.price /\ a.opened = opened
      /\ a.lots = IF opened > 0 THEN Append(lots, lot) ELSE lots
  OBVIOUS
<1> HIDE DEF base
<1>8. a.cost \in Nat /\ (p + q = 0 => a.cost = 0)
  <2>1. PICK m \in Nat : m = opened * fill.price /\ (opened = 0 => m = 0)
    BY <1>6
  <2>2. a.cost = base + m
    BY <1>7, <2>1
  <2> HIDE DEF a
  <2> QED
    BY <1>4, <1>5, <2>1, <2>2
<1>9. a.lots \in Seq(Lot) /\ UnitsOf(a.lots) = Largest(p + q, 0)
  <2>1. CASE opened > 0
    <3>1. lot \in Lot /\ lot.quantity = opened
      <4>1. lot.sellable = SellableOn(Rule, Calendar, fill.day) /\ lot.quantity = opened
        OBVIOUS
      <4>2. SellableOn(Rule, Calendar, fill.day) \in Int
        BY <1>1, <1>2, <2>1, <4>1, SellableType
      <4> QED
        BY <1>4, <2>1, <4>2 DEF Lot
    <3> HIDE DEF lot
    <3>2. lot \in LooseLot
      BY <3>1 DEF Lot, LooseLot
    <3>3. UnitsOf(Append(lots, lot)) = UnitsOf(lots) + lot.quantity
      BY <1>1, <3>2, UnitsAppend
    <3>4. Append(lots, lot) \in Seq(Lot)
      BY <1>1, <3>1, AppendProperties
    <3>5. Largest(p, 0) + opened = Largest(p + q, 0)
      BY <1>1, <1>4, <2>1 DEF Largest
    <3> QED
      BY <1>1, <1>7, <2>1, <3>1, <3>3, <3>4, <3>5
  <2>2. CASE opened = 0
    <3>1. Largest(p, 0) = Largest(p + q, 0)
      BY <1>1, <1>4, <2>2 DEF Largest
    <3> QED
      BY <1>1, <1>7, <2>2, <3>1
  <2> QED
    BY <1>4, <2>1, <2>2
<1>10. opened > 0 => p + q > 0
  BY <1>1, <1>4
<1> HIDE DEF a, lot
<1>11. p + q \in Int /\ position.quantity = p /\ fill.quantity = q
  BY <1>1 DEF p, q
<1> QED
  BY <1>2, <1>4, <1>7, <1>8, <1>9, <1>10, <1>11 DEF Settles

(* A sale consumes lots and opens a short with the rest: _apply_sell       *)
(* settles the position.                                                   *)
LEMMA SoldSettles ==
  ASSUME TypeOK, LotsSum, NEW fill \in FillRecord, Sold(fill) # Failed
  PROVE  Settles(fill, Sold(fill), -fill.quantity)
<1> DEFINE q == fill.quantity
           p == position.quantity
           c == position.cost
           lots == position.lots
           long == Largest(p, 0)
           closing == Least(q, long)
           excess == q - long
           kept == IF closing > 0 /\ p > 0 THEN (c * (long - closing)) \div long ELSE c
           a == [quantity |-> p - q, cost |-> kept + Largest(excess, 0) * fill.price,
                 lots |-> IF excess > 0 THEN <<>> ELSE Consume(lots, closing, fill.day),
                 opened |-> 0]
<1>1. /\ q \in Nat \ {0} /\ fill.price \in Nat
      /\ p \in Int /\ c \in Nat /\ lots \in Seq(Lot) /\ lots \in Seq(LooseLot)
      /\ UnitsOf(lots) = Largest(p, 0) /\ (p = 0 => c = 0)
  BY PositionFacts DEF FillRecord, LotsSum
<1>2. Sold(fill) = a
  BY DEF Sold
<1> HIDE DEF p, c, q, lots
<1>3. /\ long \in Nat /\ closing \in Nat /\ excess \in Int /\ long - closing \in Nat
      /\ closing <= long
      /\ excess > 0 => p - q < 0
      /\ excess <= 0 => p > 0 /\ closing = q /\ p - q >= 0 /\ long = p
      /\ p - q = 0 => p > 0 /\ closing > 0 /\ long - closing = 0 /\ excess = 0
      /\ p > 0 => long # 0
  BY <1>1 DEF Least, Largest
<1>4. Largest(excess, 0) \in Nat /\ (p - q = 0 => Largest(excess, 0) = 0)
  BY <1>3 DEF Largest
<1>5. UnitsOf(lots) = long
  BY <1>1
<1> HIDE DEF long, closing, excess
<1>6. kept \in Nat /\ (p - q = 0 => kept = 0)
  <2>1. PICK r \in Nat : r = long - closing
    BY <1>3
  <2>2. PICK x \in Nat : x = c * r /\ (r = 0 => x = 0)
    BY <1>1, MulNat
  <2>3. kept = IF closing > 0 /\ p > 0 THEN x \div long ELSE c
    BY <2>1, <2>2
  <2>4. p > 0 => x \div long \in Nat /\ 0 \div long = 0
    BY <1>3, DivNat, ZeroDiv
  <2> HIDE DEF kept
  <2> QED
    BY <1>1, <1>3, <2>1, <2>2, <2>3, <2>4
<1>7. PICK m \in Nat : m = Largest(excess, 0) * fill.price /\ (p - q = 0 => m = 0)
  <2>1. PICK e \in Nat : e = Largest(excess, 0) /\ (p - q = 0 => e = 0)
    BY <1>4
  <2>2. e * fill.price \in Nat /\ (e = 0 => e * fill.price = 0)
    BY <1>1, <2>1, MulNat
  <2> QED
    BY <2>1, <2>2
<1>8. /\ a.quantity = p - q /\ a.cost = kept + m /\ a.opened = 0
      /\ a.lots = IF excess > 0 THEN <<>> ELSE Consume(lots, closing, fill.day)
  BY <1>7
<1> HIDE DEF kept, a
<1>9. a.cost \in Nat /\ (p - q = 0 => a.cost = 0)
  BY <1>6, <1>7, <1>8
<1>10. a.lots \in Seq(Lot) /\ UnitsOf(a.lots) = Largest(p - q, 0)
  <2>1. CASE excess > 0
    <3>1. Largest(p - q, 0) = 0
      BY <1>1, <1>3, <2>1 DEF Largest
    <3>2. <<>> \in Seq(Lot)
      BY EmptySeq
    <3> QED
      BY <1>8, <2>1, <3>1, <3>2, UnitsEmpty
  <2>2. CASE ~(excess > 0)
    <3>1. /\ Consume(lots, closing, fill.day) \in Seq(Lot)
          /\ UnitsOf(Consume(lots, closing, fill.day)) = UnitsOf(lots) - closing
      BY <1>1, <1>3, <1>5, ConsumeUnits
    <3>2. long - closing = Largest(p - q, 0)
      BY <1>1, <1>3, <2>2 DEF Largest
    <3> QED
      BY <1>5, <1>8, <2>2, <3>1, <3>2
  <2> QED
    BY <2>1, <2>2
<1>11. p - q = p + (-q) /\ p - q \in Int /\ position.quantity = p /\ fill.quantity = q
  BY <1>1 DEF p, q
<1> QED
  BY <1>2, <1>8, <1>9, <1>10, <1>11 DEF Settles

-----------------------------------------------------------------------------
(* Every event keeps the invariant.                                        *)

(* What the transitions of an order rule out.                              *)
LEMMA OrderMoves ==
  ASSUME NEW s \in OrderStatus, NEW t \in OrderTransitions[s]
  PROVE  /\ t \in OrderStatus /\ t # "CREATED" /\ s \notin Terminal
         /\ t = "SUBMITTED" => s = "CREATED"
         /\ t = "REJECTED" => s = "SUBMITTED"
         /\ t \in Terminal => t \in {"FILLED", "CANCELED", "REJECTED"}
<1>1. /\ OrderTransitions["CREATED"] = {"SUBMITTED", "CANCELED"}
      /\ OrderTransitions["SUBMITTED"] = {"ACCEPTED", "CANCELED", "REJECTED"}
      /\ OrderTransitions["ACCEPTED"] = {"PARTIALLY_FILLED", "FILLED", "CANCELED"}
      /\ OrderTransitions["PARTIALLY_FILLED"] = {"PARTIALLY_FILLED", "FILLED", "CANCELED"}
      /\ OrderTransitions["FILLED"] = {} /\ OrderTransitions["CANCELED"] = {}
      /\ OrderTransitions["REJECTED"] = {}
  BY DEF OrderTransitions
<1> QED
  BY <1>1 DEF OrderStatus, Terminal

(* What the transitions of a fill rule out.                                *)
LEMMA FillMoves ==
  ASSUME NEW s \in FillStatus, NEW t \in FillTransitions[s]
  PROVE  /\ t \in FillStatus /\ t # "CREATED"
         /\ t = "CONFIRMED" => s = "CREATED"
         /\ t = "CANCELED" => s = "CREATED"
         /\ t = "SETTLED" => s = "CONFIRMED"
<1>1. /\ FillTransitions["CREATED"] = {"CONFIRMED", "CANCELED"}
      /\ FillTransitions["CONFIRMED"] = {"SETTLED", "REVERSED"}
      /\ FillTransitions["SETTLED"] = {"REVERSED"}
      /\ FillTransitions["CANCELED"] = {} /\ FillTransitions["REVERSED"] = {}
  BY DEF FillTransitions
<1> QED
  BY <1>1 DEF FillStatus

(* The fields of a known order.                                            *)
LEMMA OrderTypes ==
  ASSUME TypeOK, NEW o \in OrderIds, orders[o] # Absent
  PROVE  /\ orders[o] \in OrderRecord
         /\ orders[o].side \in Sides /\ orders[o].quantity \in Nat \ {0}
         /\ orders[o].status \in OrderStatus /\ orders[o].filled \in Nat /\ orders[o].confirmed \in Nat
<1>1. orders[o] \in OrderRecord
  BY DEF TypeOK
<1> QED
  BY <1>1 DEF OrderRecord

(* The fields of a known fill.                                             *)
LEMMA FillTypes ==
  ASSUME TypeOK, NEW f \in FillIds, fills[f] # Absent
  PROVE  /\ fills[f] \in FillRecord
         /\ fills[f].order \in OrderIds /\ fills[f].side \in Sides /\ fills[f].quantity \in Nat \ {0}
         /\ fills[f].price \in Nat \ {0} /\ fills[f].day \in Nat /\ fills[f].status \in FillStatus
         /\ fills[f].applied \in BOOLEAN /\ fills[f].fee \in Nat \cup {Absent} /\ fills[f].opened \in Nat
<1>1. fills[f] \in FillRecord
  BY DEF TypeOK
<1> QED
  BY <1>1 DEF FillRecord

(* An event that touches neither ledger nor orders nor fills keeps the     *)
(* invariant.                                                              *)
LEMMA QuietKeeps ==
  ASSUME Inv, TypeOK', UNCHANGED <<cash, position, orders, fills>>
  PROVE  Inv'
BY DEF Inv, FillsAreSound, LedgerSums, OrderSums, LotsSum

(* A new trading day.                                                      *)
LEMMA AdvanceKeeps == ASSUME Inv, Advance PROVE Inv'
<1>1. TypeOK'
  BY DEF Advance, Inv, TypeOK
<1> QED
  BY <1>1, QuietKeeps DEF Advance

(* A target.                                                               *)
LEMMA TargetKeeps ==
  ASSUME Inv, NEW s \in Signals, NEW t \in Targets, Target(s, t.direction, t.quantity)
  PROVE  Inv'
<1>1. t \in TargetRecord
  BY EventAssumption
<1>2. TargetEvent(t.direction, t.quantity) \in TargetRecord
  BY <1>1 DEF Target, TargetEvent, TargetRecord
<1>3. TypeOK'
  BY <1>2 DEF Target, Inv, TypeOK
<1> QED
  BY <1>3, QuietKeeps DEF Target

(* A cash or position event that attests a movement.                       *)
LEMMA AttestKeeps == ASSUME Inv, NEW d \in due, Attest(d) PROVE Inv'
<1>1. TypeOK'
  BY DEF Attest, Inv, TypeOK
<1> QED
  BY <1>1, QuietKeeps DEF Attest

(* An order without fills has nothing confirmed and nothing waiting.       *)
LEMMA NoFillNoSum ==
  ASSUME Inv, NEW o, \A f \in FillIds : fills[f] # Absent => fills[f].order # o
  PROVE  SumOver(ConfirmedBy(fills, o), FillIds) = 0 /\ SumOver(WaitingBy(fills, o), FillIds) = 0
<1>1. IsFiniteSet(FillIds)
  BY EventAssumption
<1>2. \A f \in FillIds : ConfirmedBy(fills, o)[f] = 0 /\ WaitingBy(fills, o)[f] = 0
  BY DEF ConfirmedBy, WaitingBy, Booked
<1> QED
  BY <1>1, <1>2, SumZero

(* A new order.                                                            *)
LEMMA CreateOrderKeeps ==
  ASSUME Inv, NEW o \in OrderIds, NEW s \in Signals, NEW side \in Sides, NEW n \in Quantities,
         NEW p \in Limits, CreateOrder(o, s, side, n, p)
  PROVE  Inv'
<1> DEFINE r == OrderEvent(s, side, n, p)
<1>1. /\ orders[o] = Absent /\ orders' = [orders EXCEPT ![o] = r]
      /\ UNCHANGED <<config, day, cash, position, targets, fills, due>>
  BY DEF CreateOrder
<1>2. /\ r \in OrderRecord /\ r # Absent
      /\ r.status = "CREATED" /\ r.filled = 0 /\ r.confirmed = 0 /\ r.quantity = n /\ n \in Nat \ {0}
  BY EventAssumption DEF OrderEvent, OrderRecord, OrderStatus
<1> HIDE DEF r
<1>3. TypeOK /\ orders \in [OrderIds -> OrderRecord \cup {Absent}]
  BY DEF Inv, TypeOK
<1>4. TypeOK'
  BY <1>1, <1>2, <1>3 DEF TypeOK
<1>5. orders'[o] = r /\ \A k \in OrderIds \ {o} : orders'[k] = orders[k]
  BY <1>1, <1>3
<1>6. \A f \in FillIds : fills[f] # Absent => fills[f].order # o /\ fills[f].order \in OrderIds
  BY <1>1, <1>3, FillTypes DEF Inv, FillsAreSound
<1>7. FillsAreSound'
  BY <1>1, <1>5, <1>6 DEF Inv, FillsAreSound
<1>8. LedgerSums' /\ LotsSum'
  BY <1>1 DEF Inv, LedgerSums, LotsSum
<1>9. OrderSums'
  <2> SUFFICES ASSUME NEW k \in OrderIds, orders'[k] # Absent
               PROVE  /\ orders'[k].confirmed = SumOver(ConfirmedBy(fills, k), FillIds)
                      /\ orders'[k].confirmed + SumOver(WaitingBy(fills, k), FillIds) <= orders'[k].quantity
                      /\ orders'[k].status = "FILLED" => orders'[k].confirmed = orders'[k].quantity
                      /\ orders'[k].status \in Terminal =>
                           /\ SumOver(WaitingBy(fills, k), FillIds) = 0
                           /\ orders'[k].filled = orders'[k].confirmed
    BY <1>1 DEF OrderSums
  <2>1. CASE k = o
    <3>1. SumOver(ConfirmedBy(fills, k), FillIds) = 0 /\ SumOver(WaitingBy(fills, k), FillIds) = 0
      BY <1>6, <2>1, NoFillNoSum
    <3> QED
      BY <1>2, <1>5, <2>1, <3>1 DEF Terminal
  <2>2. CASE k # o
    BY <1>5, <2>2 DEF Inv, OrderSums
  <2> QED
    BY <2>1, <2>2
<1> QED
  BY <1>4, <1>7, <1>8, <1>9 DEF Inv

(* A change of the status of an order.                                     *)
LEMMA UpdateOrderKeeps ==
  ASSUME Inv, NEW o \in Known(orders), NEW status \in DOMAIN OrderTransitions,
         NEW n \in 0..orders[o].quantity, UpdateOrder(o, status, n)
  PROVE  Inv'
<1> DEFINE r == [orders[o] EXCEPT !.status = status, !.filled = n]
<1>1. o \in OrderIds /\ orders[o] # Absent /\ TypeOK /\ orders \in [OrderIds -> OrderRecord \cup {Absent}]
  BY DEF Known, Inv, TypeOK
<1>2. /\ orders[o] \in OrderRecord /\ orders[o].quantity \in Nat \ {0}
      /\ orders[o].status \in OrderStatus /\ orders[o].confirmed \in Nat
  BY <1>1, OrderTypes
<1>3. /\ status \in OrderTransitions[orders[o].status]
      /\ PlausibleFilled(status, n, orders[o].quantity)
      /\ status \in {"PARTIALLY_FILLED", "FILLED", "CANCELED"} => n = orders[o].confirmed
      /\ status = "CANCELED" => Pending(o) = 0
      /\ orders' = [orders EXCEPT ![o].status = status, ![o].filled = n]
      /\ UNCHANGED <<config, day, cash, position, targets, fills, due>>
  BY DEF UpdateOrder
<1>4. orders'[o] = r /\ \A k \in OrderIds \ {o} : orders'[k] = orders[k]
  BY <1>1, <1>3
<1>5. /\ status \in OrderStatus /\ status # "CREATED" /\ orders[o].status \notin Terminal
      /\ status = "SUBMITTED" => orders[o].status = "CREATED"
      /\ status = "REJECTED" => orders[o].status = "SUBMITTED"
  BY <1>2, <1>3, OrderMoves
<1>6. /\ r \in OrderRecord /\ r # Absent /\ r.status = status /\ r.filled = n
      /\ r.confirmed = orders[o].confirmed /\ r.quantity = orders[o].quantity
  <2>1. n \in Nat
    BY <1>2
  <2>2. r \in OrderRecord /\ r.status = status /\ r.filled = n
        /\ r.confirmed = orders[o].confirmed /\ r.quantity = orders[o].quantity
    BY <1>2, <1>5, <2>1 DEF OrderRecord
  <2>3. Absent \notin OrderRecord
    BY EventAssumption
  <2> HIDE DEF r
  <2> QED
    BY <2>2, <2>3
<1> HIDE DEF r
<1>7. TypeOK'
  <2>1. orders' \in [OrderIds -> OrderRecord \cup {Absent}]
    <3>1. DOMAIN orders' = OrderIds /\ \A k \in OrderIds : orders'[k] \in OrderRecord \cup {Absent}
      BY <1>1, <1>3, <1>4, <1>6
    <3>2. orders' = [k \in OrderIds |-> orders'[k]]
      BY <1>1, <1>3
    <3> QED
      BY <3>1, <3>2
  <2> QED
    BY <1>1, <1>3, <2>1 DEF TypeOK
<1>8. \A f \in FillIds : fills[f] # Absent /\ fills[f].order = o
                           => orders[o].status \notin {"CREATED", "SUBMITTED", "REJECTED"}
  BY DEF Inv, FillsAreSound
<1>9. FillsAreSound'
  <2> SUFFICES ASSUME NEW f \in FillIds, fills[f] # Absent
               PROVE  /\ orders'[fills[f].order] # Absent
                      /\ orders'[fills[f].order].status \notin {"CREATED", "SUBMITTED", "REJECTED"}
    BY <1>3 DEF Inv, FillsAreSound
  <2>1. fills[f].order \in OrderIds
    BY <1>1, FillTypes
  <2>2. CASE fills[f].order = o
    BY <1>4, <1>5, <1>6, <1>8, <2>2
  <2>3. CASE fills[f].order # o
    BY <1>4, <2>1, <2>3 DEF Inv, FillsAreSound
  <2> QED
    BY <2>2, <2>3
<1>10. LedgerSums' /\ LotsSum'
  BY <1>3 DEF Inv, LedgerSums, LotsSum
<1>11. OrderSums'
  <2> SUFFICES ASSUME NEW k \in OrderIds, orders'[k] # Absent
               PROVE  /\ orders'[k].confirmed = SumOver(ConfirmedBy(fills, k), FillIds)
                      /\ orders'[k].confirmed + SumOver(WaitingBy(fills, k), FillIds) <= orders'[k].quantity
                      /\ orders'[k].status = "FILLED" => orders'[k].confirmed = orders'[k].quantity
                      /\ orders'[k].status \in Terminal =>
                           /\ SumOver(WaitingBy(fills, k), FillIds) = 0
                           /\ orders'[k].filled = orders'[k].confirmed
    BY <1>3 DEF OrderSums
  <2>1. CASE k = o
    <3> DEFINE C == SumOver(ConfirmedBy(fills, o), FillIds)
               W == SumOver(WaitingBy(fills, o), FillIds)
    <3>1. /\ orders[o].confirmed = C /\ orders[o].confirmed + W <= orders[o].quantity
          /\ C \in Nat /\ W \in Nat
      BY <1>1, SumTypes DEF Inv, OrderSums, TypeOK
    <3>2. Pending(o) = W
      BY <1>1, PendingIs
    <3>3. status = "FILLED" => n = orders[o].quantity
      BY <1>3 DEF PlausibleFilled
    <3>4. status = "REJECTED" => n = 0 /\ C = 0 /\ W = 0
      <4> SUFFICES ASSUME status = "REJECTED" PROVE n = 0 /\ C = 0 /\ W = 0
        OBVIOUS
      <4>1. \A f \in FillIds : fills[f] # Absent => fills[f].order # o
        BY <1>5, <1>8
      <4>2. n = 0
        BY <1>3 DEF PlausibleFilled
      <4> QED
        BY <4>1, <4>2, NoFillNoSum
    <3> HIDE DEF C, W
    <3>5. /\ orders'[o].confirmed = C /\ orders'[o].confirmed + W <= orders'[o].quantity
          /\ orders'[o].status = "FILLED" => orders'[o].confirmed = orders'[o].quantity
          /\ orders'[o].status \in Terminal => W = 0 /\ orders'[o].filled = orders'[o].confirmed
      BY <1>2, <1>3, <1>4, <1>6, <3>1, <3>2, <3>3, <3>4 DEF Terminal
    <3> QED
      BY <2>1, <3>5 DEF C, W
  <2>2. CASE k # o
    BY <1>4, <2>2 DEF Inv, OrderSums
  <2> QED
    BY <2>1, <2>2
<1> QED
  BY <1>7, <1>9, <1>10, <1>11 DEF Inv

(* What the sums become when one fill becomes a given record.              *)
LEMMA FillBecomes ==
  ASSUME TypeOK, NEW f \in FillIds, NEW r \in FillRecord,
         fills' \in [FillIds -> FillRecord \cup {Absent}],
         fills'[f] = r, \A g \in FillIds \ {f} : fills'[g] = fills[g]
  PROVE  /\ SumOver(UnitsBy(fills'), FillIds)
              = SumOver(UnitsBy(fills), FillIds) - UnitsBy(fills)[f]
                  + (IF r.applied THEN UnitsMoved(r) ELSE 0)
         /\ SumOver(CashBy(fills'), FillIds)
              = SumOver(CashBy(fills), FillIds) - CashBy(fills)[f]
                  + (IF r.applied THEN CashMoved(r) ELSE 0)
         /\ \A o : SumOver(ConfirmedBy(fills', o), FillIds)
              = SumOver(ConfirmedBy(fills, o), FillIds) - ConfirmedBy(fills, o)[f]
                  + (IF r.applied /\ r.order = o THEN r.quantity ELSE 0)
         /\ \A o : SumOver(WaitingBy(fills', o), FillIds)
              = SumOver(WaitingBy(fills, o), FillIds) - WaitingBy(fills, o)[f]
                  + (IF r.order = o /\ r.status = "CREATED" THEN r.quantity ELSE 0)
<1> DEFINE t == fills
           u == fills'
<1>1. t \in [FillIds -> FillRecord \cup {Absent}]
  BY DEF TypeOK
<1>2. r # Absent
  BY EventAssumption
<1>3. u \in [FillIds -> FillRecord \cup {Absent}] /\ u[f] = r /\ \A g \in FillIds \ {f} : u[g] = t[g]
  OBVIOUS
<1> HIDE DEF t, u
<1>4. ASSUME NEW o
      PROVE  /\ UnitsBy(u)[f] = (IF r.applied THEN UnitsMoved(r) ELSE 0)
             /\ CashBy(u)[f] = (IF r.applied THEN CashMoved(r) ELSE 0)
             /\ ConfirmedBy(u, o)[f] = (IF r.applied /\ r.order = o THEN r.quantity ELSE 0)
             /\ WaitingBy(u, o)[f] = (IF r.order = o /\ r.status = "CREATED" THEN r.quantity ELSE 0)
  BY <1>2, <1>3 DEF UnitsBy, CashBy, ConfirmedBy, WaitingBy, Booked
<1>5. ASSUME NEW o
      PROVE  /\ SumOver(UnitsBy(u), FillIds)
                  = SumOver(UnitsBy(t), FillIds) - UnitsBy(t)[f] + UnitsBy(u)[f]
             /\ SumOver(CashBy(u), FillIds)
                  = SumOver(CashBy(t), FillIds) - CashBy(t)[f] + CashBy(u)[f]
             /\ SumOver(ConfirmedBy(u, o), FillIds)
                  = SumOver(ConfirmedBy(t, o), FillIds) - ConfirmedBy(t, o)[f] + ConfirmedBy(u, o)[f]
             /\ SumOver(WaitingBy(u, o), FillIds)
                  = SumOver(WaitingBy(t, o), FillIds) - WaitingBy(t, o)[f] + WaitingBy(u, o)[f]
  BY <1>1, <1>3, FillChange
<1> QED
  BY <1>4, <1>5 DEF t, u

(* A new fill.                                                             *)
LEMMA CreateFillKeeps ==
  ASSUME Inv, NEW f \in FillIds, NEW o \in Known(orders), NEW n \in Quantities, NEW p \in Prices,
         CreateFill(f, o, n, p)
  PROVE  Inv'
<1> DEFINE r == FillEvent(o, n, p)
<1>1. /\ o \in OrderIds /\ orders[o] # Absent /\ TypeOK /\ FillsAreSound
      /\ fills \in [FillIds -> FillRecord \cup {Absent}] /\ day \in Nat
  BY DEF Known, Inv, TypeOK
<1>2. /\ fills[f] = Absent /\ orders[o].status \in Working
      /\ ActiveQuantity(o) + n <= orders[o].quantity
      /\ fills' = [fills EXCEPT ![f] = r]
      /\ UNCHANGED <<config, day, cash, position, targets, orders, due>>
  BY DEF CreateFill
<1>3. orders[o].side \in Sides /\ orders[o].quantity \in Nat /\ orders[o].confirmed \in Nat
  BY <1>1, OrderTypes
<1>4. /\ r \in FillRecord /\ r # Absent /\ r.order = o /\ r.status = "CREATED" /\ r.applied = FALSE
      /\ r.opened = 0 /\ r.quantity = n /\ n \in Nat \ {0} /\ r.fee = Absent
  <2>1. n \in Nat \ {0} /\ p \in Nat \ {0} /\ Absent \notin FillRecord
    BY EventAssumption
  <2>2. r \in FillRecord
    BY <1>1, <1>3, <2>1 DEF FillEvent, FillRecord, FillStatus
  <2>3. r.order = o /\ r.status = "CREATED" /\ r.applied = FALSE /\ r.opened = 0 /\ r.quantity = n
        /\ r.fee = Absent
    BY DEF FillEvent
  <2> HIDE DEF r
  <2> QED
    BY <2>1, <2>2, <2>3
<1> HIDE DEF r
<1>5. /\ fills' \in [FillIds -> FillRecord \cup {Absent}]
      /\ fills'[f] = r /\ \A g \in FillIds \ {f} : fills'[g] = fills[g]
  BY <1>1, <1>2, <1>4
<1>6. TypeOK'
  BY <1>1, <1>2, <1>5 DEF TypeOK
<1>7. FillsAreSound'
  <2> SUFFICES ASSUME NEW g \in FillIds, fills'[g] # Absent
               PROVE  /\ orders[fills'[g].order] # Absent
                      /\ orders[fills'[g].order].status \notin {"CREATED", "SUBMITTED", "REJECTED"}
                      /\ fills'[g].status # "REVERSED"
                      /\ fills'[g].applied <=> fills'[g].status \in {"CONFIRMED", "SETTLED"}
                      /\ fills'[g].fee # Absent => fills'[g].applied
                      /\ fills'[g].opened > 0 => fills'[g].after \in Int \X Int /\ fills'[g].after[1] > 0
    BY <1>2 DEF FillsAreSound
  <2>1. CASE g = f
    BY <1>1, <1>2, <1>4, <1>5, <2>1 DEF Working
  <2>2. CASE g # f
    BY <1>1, <1>5, <2>2 DEF FillsAreSound
  <2> QED
    BY <2>1, <2>2
<1>8. /\ UnitsBy(fills)[f] = 0 /\ CashBy(fills)[f] = 0
      /\ \A k : ConfirmedBy(fills, k)[f] = 0 /\ WaitingBy(fills, k)[f] = 0
  BY <1>2 DEF UnitsBy, CashBy, ConfirmedBy, WaitingBy, Booked
<1>9. /\ SumOver(UnitsBy(fills'), FillIds) = SumOver(UnitsBy(fills), FillIds)
      /\ SumOver(CashBy(fills'), FillIds) = SumOver(CashBy(fills), FillIds)
      /\ \A k : SumOver(ConfirmedBy(fills', k), FillIds) = SumOver(ConfirmedBy(fills, k), FillIds)
      /\ \A k : k # o => SumOver(WaitingBy(fills', k), FillIds) = SumOver(WaitingBy(fills, k), FillIds)
      /\ SumOver(WaitingBy(fills', o), FillIds) = SumOver(WaitingBy(fills, o), FillIds) + n
  <2>1. /\ SumOver(UnitsBy(fills'), FillIds) = SumOver(UnitsBy(fills), FillIds) - 0 + 0
        /\ SumOver(CashBy(fills'), FillIds) = SumOver(CashBy(fills), FillIds) - 0 + 0
        /\ \A k : SumOver(ConfirmedBy(fills', k), FillIds) = SumOver(ConfirmedBy(fills, k), FillIds) - 0 + 0
        /\ \A k : SumOver(WaitingBy(fills', k), FillIds)
                    = SumOver(WaitingBy(fills, k), FillIds) - 0 + (IF o = k THEN n ELSE 0)
    BY <1>1, <1>4, <1>5, <1>8, FillBecomes
  <2>2. \A k : /\ SumOver(UnitsBy(fills), FillIds) \in Int /\ SumOver(CashBy(fills), FillIds) \in Int
               /\ SumOver(ConfirmedBy(fills, k), FillIds) \in Int
               /\ SumOver(WaitingBy(fills, k), FillIds) \in Int
    BY <1>1, SumTypes
  <2> QED
    BY <1>4, <2>1, <2>2
<1>10. LedgerSums' /\ LotsSum'
  BY <1>2, <1>9 DEF Inv, LedgerSums, LotsSum
<1>11. OrderSums'
  <2> SUFFICES ASSUME NEW k \in OrderIds, orders[k] # Absent
               PROVE  /\ orders[k].confirmed = SumOver(ConfirmedBy(fills', k), FillIds)
                      /\ orders[k].confirmed + SumOver(WaitingBy(fills', k), FillIds) <= orders[k].quantity
                      /\ orders[k].status = "FILLED" => orders[k].confirmed = orders[k].quantity
                      /\ orders[k].status \in Terminal =>
                           /\ SumOver(WaitingBy(fills', k), FillIds) = 0
                           /\ orders[k].filled = orders[k].confirmed
    BY <1>2 DEF OrderSums
  <2>1. CASE k = o
    <3>1. ActiveQuantity(o) = SumOver(ConfirmedBy(fills, o), FillIds) + SumOver(WaitingBy(fills, o), FillIds)
      BY <1>1, ActiveIs
    <3>2. orders[o].confirmed = SumOver(ConfirmedBy(fills, o), FillIds)
      BY <1>1 DEF Inv, OrderSums
    <3>3. SumOver(ConfirmedBy(fills, o), FillIds) \in Nat /\ SumOver(WaitingBy(fills, o), FillIds) \in Nat
      BY <1>1, SumTypes
    <3>4. orders[o].status \notin Terminal /\ orders[o].status # "FILLED"
      BY <1>2 DEF Working, Terminal
    <3>5. orders[o].confirmed + SumOver(WaitingBy(fills', o), FillIds) <= orders[o].quantity
      BY <1>2, <1>3, <1>4, <1>9, <3>1, <3>2, <3>3
    <3> QED
      BY <1>9, <2>1, <3>2, <3>4, <3>5
  <2>2. CASE k # o
    <3>1. /\ SumOver(ConfirmedBy(fills', k), FillIds) = SumOver(ConfirmedBy(fills, k), FillIds)
          /\ SumOver(WaitingBy(fills', k), FillIds) = SumOver(WaitingBy(fills, k), FillIds)
      BY <1>9, <2>2
    <3> QED
      BY <3>1 DEF Inv, OrderSums
  <2> QED
    BY <2>1, <2>2
<1> QED
  BY <1>6, <1>7, <1>10, <1>11 DEF Inv

(* A fill is settled or canceled.                                          *)
LEMMA UpdateFillKeeps ==
  ASSUME Inv, NEW f \in Known(fills), NEW status, UpdateFill(f, status)
  PROVE  Inv'
<1> DEFINE q == fills[f]
           r == [fills[f] EXCEPT !.status = status]
<1>1. /\ f \in FillIds /\ fills[f] # Absent /\ TypeOK /\ FillsAreSound
      /\ fills \in [FillIds -> FillRecord \cup {Absent}]
  BY DEF Known, Inv, TypeOK
<1>2. /\ status \in FillTransitions[q.status] /\ status \notin {"CONFIRMED", "REVERSED"}
      /\ fills' = [fills EXCEPT ![f].status = status]
      /\ UNCHANGED <<config, day, cash, position, targets, orders, due>>
  BY DEF UpdateFill
<1>3. /\ q \in FillRecord /\ q.status \in FillStatus /\ q.quantity \in Nat \ {0}
      /\ q.applied <=> q.status \in {"CONFIRMED", "SETTLED"}
  BY <1>1, FillTypes DEF FillsAreSound
<1>4. /\ status \in FillStatus /\ status # "CREATED"
      /\ \/ status = "CANCELED" /\ q.status = "CREATED"
         \/ status = "SETTLED" /\ q.status = "CONFIRMED"
  <2>1. /\ status \in FillStatus /\ status # "CREATED"
        /\ status = "CANCELED" => q.status = "CREATED"
        /\ status = "SETTLED" => q.status = "CONFIRMED"
    BY <1>2, <1>3, FillMoves
  <2>2. status \in {"SETTLED", "CANCELED"}
    BY <1>2, <2>1 DEF FillStatus
  <2> QED
    BY <2>1, <2>2
<1>5. /\ r \in FillRecord /\ r.status = status /\ r.order = q.order /\ r.applied = q.applied
      /\ r.opened = q.opened /\ r.after = q.after /\ r.quantity = q.quantity /\ r.side = q.side
      /\ r.price = q.price /\ r.fee = q.fee
  BY <1>3, <1>4 DEF FillRecord
<1>6. fills'[f] = r /\ \A g \in FillIds \ {f} : fills'[g] = fills[g]
  BY <1>1, <1>2
<1>7. r # Absent
  <2> HIDE DEF r
  <2> QED
    BY <1>5, EventAssumption
<1>8. UnitsMoved(r) = UnitsMoved(q) /\ CashMoved(r) = CashMoved(q)
  <2> HIDE DEF r, q
  <2> QED
    BY <1>5 DEF UnitsMoved, CashMoved
<1> HIDE DEF r
<1>9. fills' \in [FillIds -> FillRecord \cup {Absent}]
  <2>1. DOMAIN fills' = FillIds /\ \A g \in FillIds : fills'[g] \in FillRecord \cup {Absent}
    BY <1>1, <1>2, <1>5, <1>6
  <2>2. fills' = [g \in FillIds |-> fills'[g]]
    BY <1>1, <1>2
  <2> QED
    BY <2>1, <2>2
<1>10. TypeOK'
  BY <1>1, <1>2, <1>9 DEF TypeOK
<1>11. FillsAreSound'
  <2> SUFFICES ASSUME NEW g \in FillIds, fills'[g] # Absent
               PROVE  /\ orders[fills'[g].order] # Absent
                      /\ orders[fills'[g].order].status \notin {"CREATED", "SUBMITTED", "REJECTED"}
                      /\ fills'[g].status # "REVERSED"
                      /\ fills'[g].applied <=> fills'[g].status \in {"CONFIRMED", "SETTLED"}
                      /\ fills'[g].fee # Absent => fills'[g].applied
                      /\ fills'[g].opened > 0 => fills'[g].after \in Int \X Int /\ fills'[g].after[1] > 0
    BY <1>2 DEF FillsAreSound
  <2>1. CASE g = f
    <3>1. /\ orders[q.order] # Absent
          /\ orders[q.order].status \notin {"CREATED", "SUBMITTED", "REJECTED"}
          /\ q.fee # Absent => q.applied
          /\ q.opened > 0 => q.after \in Int \X Int /\ q.after[1] > 0
      BY <1>1 DEF FillsAreSound
    <3>2. r.applied <=> r.status \in {"CONFIRMED", "SETTLED"}
      <4>1. r.applied = q.applied /\ r.status = status
        BY <1>5
      <4> HIDE DEF q
      <4> QED
        BY <1>3, <1>4, <4>1
    <3>3. r.status # "REVERSED"
      BY <1>2, <1>5
    <3>4. r.order = q.order /\ r.opened = q.opened /\ r.after = q.after /\ r.fee = q.fee
          /\ r.applied = q.applied
      BY <1>5
    <3> HIDE DEF q
    <3> QED
      BY <1>6, <2>1, <3>1, <3>2, <3>3, <3>4
  <2>2. CASE g # f
    BY <1>1, <1>6, <2>2 DEF FillsAreSound
  <2> QED
    BY <2>1, <2>2
<1>12. /\ UnitsBy(fills)[f] = (IF q.applied THEN UnitsMoved(q) ELSE 0)
       /\ CashBy(fills)[f] = (IF q.applied THEN CashMoved(q) ELSE 0)
       /\ UnitsBy(fills)[f] \in Int /\ CashBy(fills)[f] \in Int
       /\ \A k : /\ ConfirmedBy(fills, k)[f] = (IF q.applied /\ q.order = k THEN q.quantity ELSE 0)
                 /\ WaitingBy(fills, k)[f]
                      = (IF q.order = k /\ q.status = "CREATED" THEN q.quantity ELSE 0)
                 /\ ConfirmedBy(fills, k)[f] \in Nat /\ WaitingBy(fills, k)[f] \in Nat
  BY <1>1, FillValues DEF Booked
<1>13. \A k : /\ SumOver(UnitsBy(fills), FillIds) \in Int /\ SumOver(CashBy(fills), FillIds) \in Int
              /\ SumOver(ConfirmedBy(fills, k), FillIds) \in Nat
              /\ SumOver(WaitingBy(fills, k), FillIds) \in Nat
              /\ SumOver(WaitingBy(fills', k), FillIds) \in Nat
  BY <1>1, <1>9, SumTypes
<1>14. /\ SumOver(UnitsBy(fills'), FillIds)
            = SumOver(UnitsBy(fills), FillIds) - UnitsBy(fills)[f]
                + (IF r.applied THEN UnitsMoved(r) ELSE 0)
       /\ SumOver(CashBy(fills'), FillIds)
            = SumOver(CashBy(fills), FillIds) - CashBy(fills)[f]
                + (IF r.applied THEN CashMoved(r) ELSE 0)
       /\ \A k : SumOver(ConfirmedBy(fills', k), FillIds)
            = SumOver(ConfirmedBy(fills, k), FillIds) - ConfirmedBy(fills, k)[f]
                + (IF r.applied /\ r.order = k THEN r.quantity ELSE 0)
       /\ \A k : SumOver(WaitingBy(fills', k), FillIds)
            = SumOver(WaitingBy(fills, k), FillIds) - WaitingBy(fills, k)[f]
                + (IF r.order = k /\ r.status = "CREATED" THEN r.quantity ELSE 0)
  BY <1>1, <1>5, <1>6, <1>9, FillBecomes
<1> HIDE DEF q
<1>15. /\ SumOver(UnitsBy(fills'), FillIds) = SumOver(UnitsBy(fills), FillIds)
       /\ SumOver(CashBy(fills'), FillIds) = SumOver(CashBy(fills), FillIds)
  BY <1>5, <1>8, <1>12, <1>13, <1>14
<1>16. ASSUME NEW k
       PROVE  /\ SumOver(ConfirmedBy(fills', k), FillIds) = SumOver(ConfirmedBy(fills, k), FillIds)
              /\ SumOver(WaitingBy(fills', k), FillIds) <= SumOver(WaitingBy(fills, k), FillIds)
  <2>1. SumOver(ConfirmedBy(fills', k), FillIds) = SumOver(ConfirmedBy(fills, k), FillIds)
    BY <1>3, <1>5, <1>12, <1>13, <1>14
  <2>2. SumOver(WaitingBy(fills', k), FillIds) = SumOver(WaitingBy(fills, k), FillIds) - WaitingBy(fills, k)[f] + 0
    BY <1>4, <1>5, <1>14
  <2> QED
    BY <1>12, <1>13, <2>1, <2>2
<1>17. LedgerSums' /\ LotsSum'
  BY <1>2, <1>15 DEF Inv, LedgerSums, LotsSum
<1>18. OrderSums'
  <2> SUFFICES ASSUME NEW k \in OrderIds, orders[k] # Absent
               PROVE  /\ orders[k].confirmed = SumOver(ConfirmedBy(fills', k), FillIds)
                      /\ orders[k].confirmed + SumOver(WaitingBy(fills', k), FillIds) <= orders[k].quantity
                      /\ orders[k].status = "FILLED" => orders[k].confirmed = orders[k].quantity
                      /\ orders[k].status \in Terminal =>
                           /\ SumOver(WaitingBy(fills', k), FillIds) = 0
                           /\ orders[k].filled = orders[k].confirmed
    BY <1>2 DEF OrderSums
  <2>1. orders[k].confirmed \in Nat /\ orders[k].quantity \in Nat
    BY <1>1, OrderTypes
  <2>2. /\ orders[k].confirmed = SumOver(ConfirmedBy(fills, k), FillIds)
        /\ orders[k].confirmed + SumOver(WaitingBy(fills, k), FillIds) <= orders[k].quantity
        /\ orders[k].status = "FILLED" => orders[k].confirmed = orders[k].quantity
        /\ orders[k].status \in Terminal => /\ SumOver(WaitingBy(fills, k), FillIds) = 0
                                            /\ orders[k].filled = orders[k].confirmed
    BY DEF Inv, OrderSums
  <2> QED
    BY <1>13, <1>16, <2>1, <2>2
<1> QED
  BY <1>10, <1>11, <1>17, <1>18 DEF Inv

(* The events a movement makes the stream owe.                             *)
LEMMA DueTypes ==
  ASSUME TypeOK, NEW kind \in {"FILL", "FEE"}, NEW f \in FillIds, NEW delta \in Int,
         NEW a \in Int, NEW c \in Int
  PROVE  CashDue(<<kind, f>>, delta) \subseteq DueRecord /\ PositionDue(<<kind, f>>, a, c) \subseteq DueRecord
<1>1. day \in Nat /\ cash + delta \in Int /\ <<kind, f>> \in {"FILL", "FEE"} \X FillIds
  BY DEF TypeOK
<1>2. CashEvent(<<kind, f>>, delta) \in DueRecord
  BY <1>1 DEF CashEvent, DueRecord
<1>3. PositionEvent(<<kind, f>>, a, c) \in DueRecord
  BY <1>1 DEF PositionEvent, DueRecord
<1> QED
  BY <1>2, <1>3 DEF CashDue, PositionDue

(* A fill is confirmed: cash, position, lots and order move with it.       *)
LEMMA ConfirmFillKeeps ==
  ASSUME Inv, NEW f \in Known(fills), ConfirmFill(f)
  PROVE  Inv'
<1> DEFINE fill == fills[f]
           o == fill.order
           value == fill.quantity * fill.price
           delta == IF fill.side = "SELL" THEN value ELSE -value
           a == IF fill.side = "BUY" THEN Bought(fill) ELSE Sold(fill)
           r == [fill EXCEPT !.status = "CONFIRMED", !.applied = TRUE, !.opened = a.opened,
                             !.after = <<a.quantity, a.cost>>]
           x == [orders[o] EXCEPT !.confirmed = @ + fill.quantity]
<1>1. /\ f \in FillIds /\ fills[f] # Absent /\ TypeOK /\ FillsAreSound /\ LotsSum
      /\ fills \in [FillIds -> FillRecord \cup {Absent}]
      /\ orders \in [OrderIds -> OrderRecord \cup {Absent}]
  BY DEF Known, Inv, TypeOK
<1>2. /\ "CONFIRMED" \in FillTransitions[fill.status]
      /\ ~fill.applied
      /\ orders[o].status \in Working
      /\ orders[o].confirmed + fill.quantity <= orders[o].quantity
      /\ a # Failed
      /\ cash' = cash + delta
      /\ position' = [quantity |-> a.quantity, cost |-> a.cost, lots |-> a.lots]
      /\ orders' = [orders EXCEPT ![o].confirmed = @ + fill.quantity]
      /\ fills' = [fills EXCEPT ![f].status = "CONFIRMED", ![f].applied = TRUE,
                                ![f].opened = a.opened, ![f].after = <<a.quantity, a.cost>>]
      /\ due' = due \cup CashDue(<<"FILL", f>>, delta)
                    \cup PositionDue(<<"FILL", f>>, a.quantity, a.cost)
      /\ UNCHANGED <<config, day, targets>>
  BY DEF ConfirmFill
<1>3. /\ fill \in FillRecord /\ o \in OrderIds /\ fill.side \in Sides /\ fill.quantity \in Nat \ {0}
      /\ fill.price \in Nat \ {0} /\ fill.status \in FillStatus
      /\ fill.status = "CREATED" /\ fill.fee = Absent
  <2>1. /\ fill \in FillRecord /\ o \in OrderIds /\ fill.side \in Sides /\ fill.quantity \in Nat \ {0}
        /\ fill.price \in Nat \ {0} /\ fill.status \in FillStatus
    BY <1>1, FillTypes
  <2>2. fill.status = "CREATED"
    BY <1>2, <2>1, FillMoves
  <2>3. fill.fee = Absent
    BY <1>1, <1>2 DEF FillsAreSound
  <2> QED
    BY <2>1, <2>2, <2>3
<1>4. orders[o] # Absent
  BY <1>1 DEF FillsAreSound
<1>5. /\ orders[o] \in OrderRecord /\ orders[o].quantity \in Nat /\ orders[o].confirmed \in Nat
      /\ orders[o].filled \in Nat
  BY <1>1, <1>3, <1>4, OrderTypes
<1>6. Settles(fill, a, UnitsMoved(fill))
  <2>1. CASE fill.side = "BUY"
    BY <1>1, <1>2, <1>3, <2>1, BoughtSettles DEF UnitsMoved
  <2>2. CASE fill.side # "BUY"
    BY <1>1, <1>2, <1>3, <2>2, SoldSettles DEF UnitsMoved
  <2> QED
    BY <2>1, <2>2
<1>7. /\ a.quantity = position.quantity + UnitsMoved(fill) /\ a.quantity \in Int
      /\ a.cost \in Nat /\ a.lots \in Seq(Lot) /\ UnitsOf(a.lots) = Largest(a.quantity, 0)
      /\ a.quantity = 0 => a.cost = 0
      /\ a.opened \in Nat /\ (a.opened > 0 => a.quantity > 0)
  BY <1>6 DEF Settles
<1> HIDE DEF a
<1>8. /\ r \in FillRecord /\ r.status = "CONFIRMED" /\ r.applied = TRUE /\ r.opened = a.opened
      /\ r.after = <<a.quantity, a.cost>> /\ r.order = o /\ r.quantity = fill.quantity
      /\ r.side = fill.side /\ r.price = fill.price /\ r.fee = Absent
  <2>1. <<a.quantity, a.cost>> \in Int \X Int
    BY <1>7
  <2> HIDE DEF fill
  <2> QED
    BY <1>3, <1>7, <2>1 DEF FillRecord, FillStatus
<1>9. fills'[f] = r /\ \A g \in FillIds \ {f} : fills'[g] = fills[g]
  BY <1>1, <1>2
<1>10. orders'[o] = x /\ \A k \in OrderIds \ {o} : orders'[k] = orders[k]
  BY <1>1, <1>2, <1>3
<1>11. /\ x \in OrderRecord /\ x.status = orders[o].status /\ x.quantity = orders[o].quantity
       /\ x.filled = orders[o].filled /\ x.confirmed = orders[o].confirmed + fill.quantity
  <2>1. orders[o].confirmed + fill.quantity \in Nat
    BY <1>3, <1>5
  <2> HIDE DEF fill, o
  <2> QED
    BY <1>5, <2>1 DEF OrderRecord
<1>12. r # Absent /\ x # Absent
  <2> HIDE DEF r, x
  <2> QED
    BY <1>8, <1>11, EventAssumption
<1>13. /\ delta \in Int /\ CashMoved(r) = -delta /\ UnitsMoved(r) = UnitsMoved(fill)
       /\ UnitsMoved(fill) \in Int
  <2> HIDE DEF r
  <2>1. PICK q \in Nat, p \in Nat : q = fill.quantity /\ p = fill.price
    BY <1>3
  <2>2. value = q * p /\ q * p \in Nat
    BY <2>1, MulNat
  <2>3. UnitsMoved(r) = IF fill.side = "BUY" THEN q ELSE -q
    BY <1>8, <2>1 DEF UnitsMoved
  <2>4. UnitsMoved(fill) = IF fill.side = "BUY" THEN q ELSE -q
    BY <2>1 DEF UnitsMoved
  <2>5. CashMoved(r) = UnitsMoved(r) * p + 0
    BY <1>8, <2>1 DEF CashMoved
  <2>6. (-q) * p = -(q * p)
    BY <2>1
  <2> HIDE DEF fill
  <2> QED
    BY <1>3, <2>1, <2>2, <2>3, <2>4, <2>5, <2>6 DEF Sides
<1> HIDE DEF r, x, delta
<1>14. fills' \in [FillIds -> FillRecord \cup {Absent}]
  <2>1. DOMAIN fills' = FillIds /\ \A g \in FillIds : fills'[g] \in FillRecord \cup {Absent}
    BY <1>1, <1>2, <1>8, <1>9
  <2>2. fills' = [g \in FillIds |-> fills'[g]]
    BY <1>1, <1>2
  <2> QED
    BY <2>1, <2>2
<1>15. orders' \in [OrderIds -> OrderRecord \cup {Absent}]
  <2>1. DOMAIN orders' = OrderIds /\ \A k \in OrderIds : orders'[k] \in OrderRecord \cup {Absent}
    BY <1>1, <1>2, <1>10, <1>11
  <2>2. orders' = [k \in OrderIds |-> orders'[k]]
    BY <1>1, <1>2
  <2> QED
    BY <2>1, <2>2
<1>16. TypeOK'
  <2>1. cash' \in Int /\ position' \in [quantity : Int, cost : Int, lots : Seq(Lot)]
    BY <1>1, <1>2, <1>7, <1>13 DEF TypeOK
  <2>2. due' \subseteq DueRecord
    <3>1. PICK m \in Int, c \in Int : m = a.quantity /\ c = a.cost
      BY <1>7
    <3>2. "FILL" \in {"FILL", "FEE"}
      OBVIOUS
    <3>3. CashDue(<<"FILL", f>>, delta) \subseteq DueRecord /\ PositionDue(<<"FILL", f>>, m, c) \subseteq DueRecord
      BY <1>1, <1>13, <3>2, DueTypes
    <3>4. due' = due \cup CashDue(<<"FILL", f>>, delta) \cup PositionDue(<<"FILL", f>>, m, c)
      BY <1>2, <3>1
    <3> QED
      BY <1>1, <3>3, <3>4 DEF TypeOK
  <2> QED
    BY <1>1, <1>2, <1>14, <1>15, <2>1, <2>2 DEF TypeOK
<1>17. /\ UnitsBy(fills)[f] = 0 /\ CashBy(fills)[f] = 0
       /\ \A k : ConfirmedBy(fills, k)[f] = 0
       /\ \A k : WaitingBy(fills, k)[f] = (IF o = k THEN fill.quantity ELSE 0)
  <2>1. ~Booked(fills, f)
    BY <1>2 DEF Booked
  <2> QED
    BY <1>1, <1>3, <2>1, FillValues
<1>18. \A k : /\ SumOver(UnitsBy(fills), FillIds) \in Int /\ SumOver(CashBy(fills), FillIds) \in Int
              /\ SumOver(ConfirmedBy(fills, k), FillIds) \in Nat
              /\ SumOver(WaitingBy(fills, k), FillIds) \in Nat
  BY <1>1, SumTypes
<1>19. /\ SumOver(UnitsBy(fills'), FillIds)
            = SumOver(UnitsBy(fills), FillIds) - UnitsBy(fills)[f]
                + (IF r.applied THEN UnitsMoved(r) ELSE 0)
       /\ SumOver(CashBy(fills'), FillIds)
            = SumOver(CashBy(fills), FillIds) - CashBy(fills)[f]
                + (IF r.applied THEN CashMoved(r) ELSE 0)
       /\ \A k : SumOver(ConfirmedBy(fills', k), FillIds)
            = SumOver(ConfirmedBy(fills, k), FillIds) - ConfirmedBy(fills, k)[f]
                + (IF r.applied /\ r.order = k THEN r.quantity ELSE 0)
       /\ \A k : SumOver(WaitingBy(fills', k), FillIds)
            = SumOver(WaitingBy(fills, k), FillIds) - WaitingBy(fills, k)[f]
                + (IF r.order = k /\ r.status = "CREATED" THEN r.quantity ELSE 0)
  BY <1>1, <1>8, <1>9, <1>14, FillBecomes
<1> HIDE DEF fill, o
<1>20. /\ SumOver(UnitsBy(fills'), FillIds) = SumOver(UnitsBy(fills), FillIds) + UnitsMoved(fill)
       /\ SumOver(CashBy(fills'), FillIds) = SumOver(CashBy(fills), FillIds) - delta
  BY <1>8, <1>13, <1>17, <1>18, <1>19
<1>21. \A k : /\ SumOver(ConfirmedBy(fills', k), FillIds)
                   = SumOver(ConfirmedBy(fills, k), FillIds) + (IF o = k THEN fill.quantity ELSE 0)
              /\ SumOver(WaitingBy(fills', k), FillIds)
                   = SumOver(WaitingBy(fills, k), FillIds) - (IF o = k THEN fill.quantity ELSE 0)
  <2> SUFFICES ASSUME NEW k
               PROVE  /\ SumOver(ConfirmedBy(fills', k), FillIds)
                           = SumOver(ConfirmedBy(fills, k), FillIds) + (IF o = k THEN fill.quantity ELSE 0)
                      /\ SumOver(WaitingBy(fills', k), FillIds)
                           = SumOver(WaitingBy(fills, k), FillIds) - (IF o = k THEN fill.quantity ELSE 0)
    OBVIOUS
  <2>1. /\ SumOver(ConfirmedBy(fills', k), FillIds)
             = SumOver(ConfirmedBy(fills, k), FillIds) - 0 + (IF o = k THEN fill.quantity ELSE 0)
        /\ SumOver(WaitingBy(fills', k), FillIds)
             = SumOver(WaitingBy(fills, k), FillIds) - (IF o = k THEN fill.quantity ELSE 0) + 0
    BY <1>8, <1>17, <1>19
  <2> QED
    BY <1>3, <1>18, <2>1
<1>22. FillsAreSound'
  <2> SUFFICES ASSUME NEW g \in FillIds, fills'[g] # Absent
               PROVE  /\ orders'[fills'[g].order] # Absent
                      /\ orders'[fills'[g].order].status \notin {"CREATED", "SUBMITTED", "REJECTED"}
                      /\ fills'[g].status # "REVERSED"
                      /\ fills'[g].applied <=> fills'[g].status \in {"CONFIRMED", "SETTLED"}
                      /\ fills'[g].fee # Absent => fills'[g].applied
                      /\ fills'[g].opened > 0 => fills'[g].after \in Int \X Int /\ fills'[g].after[1] > 0
    BY DEF FillsAreSound
  <2>1. CASE g = f
    <3>1. orders'[o] # Absent /\ orders'[o].status \notin {"CREATED", "SUBMITTED", "REJECTED"}
      BY <1>2, <1>10, <1>11, <1>12 DEF Working
    <3>2. r.opened > 0 => r.after \in Int \X Int /\ r.after[1] > 0
      BY <1>7, <1>8
    <3> QED
      BY <1>8, <1>9, <2>1, <3>1, <3>2
  <2>2. CASE g # f
    <3>1. /\ fills'[g] = fills[g] /\ fills[g].order \in OrderIds
      BY <1>1, <1>9, <2>2, FillTypes
    <3>2. /\ orders[fills[g].order] # Absent
          /\ orders[fills[g].order].status \notin {"CREATED", "SUBMITTED", "REJECTED"}
          /\ fills[g].status # "REVERSED"
          /\ fills[g].applied <=> fills[g].status \in {"CONFIRMED", "SETTLED"}
          /\ fills[g].fee # Absent => fills[g].applied
          /\ fills[g].opened > 0 => fills[g].after \in Int \X Int /\ fills[g].after[1] > 0
      BY <1>1, <3>1 DEF FillsAreSound
    <3>3. CASE fills[g].order = o
      BY <1>10, <1>11, <1>12, <3>1, <3>2, <3>3
    <3>4. CASE fills[g].order # o
      BY <1>10, <3>1, <3>2, <3>4
    <3> QED
      BY <3>3, <3>4
  <2> QED
    BY <2>1, <2>2
<1>23. LedgerSums'
  <2>1. cash = OpeningCash - SumOver(CashBy(fills), FillIds) /\ OpeningCash \in Int
    BY EventAssumption DEF Inv, LedgerSums
  <2>2. cash' = OpeningCash - SumOver(CashBy(fills'), FillIds)
    <3>1. PICK S \in Int : S = SumOver(CashBy(fills), FillIds)
      BY <1>18
    <3>2. SumOver(CashBy(fills'), FillIds) = S - delta
      BY <1>20, <3>1
    <3>3. cash' = cash + delta /\ cash = OpeningCash - S
      BY <1>2, <2>1, <3>1
    <3>4. cash' = OpeningCash - (S - delta)
      BY <1>13, <2>1, <3>3
    <3> QED
      BY <3>2, <3>4
  <2>3. position.quantity = UnitsOf(OpeningLots) + SumOver(UnitsBy(fills), FillIds)
        /\ UnitsOf(OpeningLots) \in Int
    <3>1. OpeningLots \in Seq(LooseLot)
      BY EventAssumption, LotsAreLoose
    <3>2. UnitsOf(OpeningLots) \in Nat
      BY <3>1, LotUnitsFacts
    <3> QED
      BY <3>2 DEF Inv, LedgerSums
  <2>4. position'.quantity = UnitsOf(OpeningLots) + SumOver(UnitsBy(fills'), FillIds)
    <3>1. PICK S \in Int : S = SumOver(UnitsBy(fills), FillIds)
      BY <1>18
    <3>2. PICK u \in Int : u = UnitsMoved(fill)
      BY <1>13
    <3>3. SumOver(UnitsBy(fills'), FillIds) = S + u
      BY <1>20, <3>1, <3>2
    <3>4. position'.quantity = position.quantity + u /\ position.quantity = UnitsOf(OpeningLots) + S
      BY <1>2, <1>7, <2>3, <3>1, <3>2
    <3>5. position'.quantity = UnitsOf(OpeningLots) + (S + u)
      BY <2>3, <3>4
    <3> QED
      BY <3>3, <3>5
  <2> QED
    BY <2>2, <2>4 DEF LedgerSums
<1>24. LotsSum'
  BY <1>2, <1>7 DEF LotsSum
<1>25. OrderSums'
  <2> SUFFICES ASSUME NEW k \in OrderIds, orders'[k] # Absent
               PROVE  /\ orders'[k].confirmed = SumOver(ConfirmedBy(fills', k), FillIds)
                      /\ orders'[k].confirmed + SumOver(WaitingBy(fills', k), FillIds) <= orders'[k].quantity
                      /\ orders'[k].status = "FILLED" => orders'[k].confirmed = orders'[k].quantity
                      /\ orders'[k].status \in Terminal =>
                           /\ SumOver(WaitingBy(fills', k), FillIds) = 0
                           /\ orders'[k].filled = orders'[k].confirmed
    BY DEF OrderSums
  <2>1. CASE k = o
    <3> DEFINE C == SumOver(ConfirmedBy(fills, o), FillIds)
               W == SumOver(WaitingBy(fills, o), FillIds)
    <3>1. orders[o].confirmed = C /\ orders[o].confirmed + W <= orders[o].quantity /\ C \in Nat /\ W \in Nat
      BY <1>3, <1>4, <1>18 DEF Inv, OrderSums
    <3>2. /\ SumOver(ConfirmedBy(fills', o), FillIds) = C + fill.quantity
          /\ SumOver(WaitingBy(fills', o), FillIds) = W - fill.quantity
      BY <1>21
    <3>3. orders[o].status \notin Terminal /\ orders[o].status # "FILLED"
      BY <1>2 DEF Working, Terminal
    <3> HIDE DEF C, W
    <3>4. orders'[o].confirmed + SumOver(WaitingBy(fills', o), FillIds) <= orders'[o].quantity
      BY <1>3, <1>5, <1>10, <1>11, <3>1, <3>2
    <3> QED
      BY <1>10, <1>11, <2>1, <3>1, <3>2, <3>3, <3>4
  <2>2. CASE k # o
    <3>1. /\ SumOver(ConfirmedBy(fills', k), FillIds) = SumOver(ConfirmedBy(fills, k), FillIds)
          /\ SumOver(WaitingBy(fills', k), FillIds) = SumOver(WaitingBy(fills, k), FillIds)
      BY <1>18, <1>21, <2>2
    <3> QED
      BY <1>10, <2>2, <3>1 DEF Inv, OrderSums
  <2> QED
    BY <2>1, <2>2
<1> QED
  BY <1>16, <1>22, <1>23, <1>24, <1>25 DEF Inv

(* A fee is charged.                                                       *)
LEMMA FeeEventKeeps ==
  ASSUME Inv, NEW f \in Known(fills), FeeEvent(f)
  PROVE  Inv'
<1> DEFINE fill == fills[f]
           fee == FeeOf(FeeRule, fill.quantity * fill.price)
           costs == fill.side = "BUY" /\ fill.opened > 0 /\ fee > 0
           added == (fee * fill.opened) \div fill.quantity
           r == [fill EXCEPT !.fee = fee]
<1>1. /\ f \in FillIds /\ fills[f] # Absent /\ TypeOK /\ FillsAreSound /\ LotsSum
      /\ fills \in [FillIds -> FillRecord \cup {Absent}]
  BY DEF Known, Inv, TypeOK
<1>2. /\ FeeAllowed(fill)
      /\ costs => fill.after = <<position.quantity, position.cost>>
      /\ cash' = cash - fee
      /\ fills' = [fills EXCEPT ![f].fee = fee]
      /\ position' = IF costs THEN [position EXCEPT !.cost = @ + added] ELSE position
      /\ due' = due \cup CashDue(<<"FEE", f>>, -fee)
                    \cup (IF costs
                          THEN PositionDue(<<"FEE", f>>, position.quantity, position.cost + added)
                          ELSE {})
      /\ UNCHANGED <<config, day, targets, orders>>
  BY DEF FeeEvent
<1>3. /\ fill \in FillRecord /\ fill.order \in OrderIds /\ fill.side \in Sides
      /\ fill.quantity \in Nat \ {0} /\ fill.price \in Nat \ {0} /\ fill.opened \in Nat
      /\ fill.applied /\ fill.fee = Absent /\ fill.status # "CREATED" /\ fill.applied \in BOOLEAN
  <2>1. /\ fill.applied /\ fill.fee = Absent /\ fill.status \in {"CONFIRMED", "SETTLED"}
    BY <1>2 DEF FeeAllowed
  <2>2. /\ fill \in FillRecord /\ fill.order \in OrderIds /\ fill.side \in Sides
        /\ fill.quantity \in Nat \ {0} /\ fill.price \in Nat \ {0} /\ fill.opened \in Nat
        /\ fill.applied \in BOOLEAN
    BY <1>1, FillTypes
  <2> QED
    BY <2>1, <2>2
<1>4. fee \in Nat
  <2>1. fill.quantity * fill.price \in Nat
    BY <1>3, MulNat
  <2> QED
    BY <2>1, FeeIsNat
<1> HIDE DEF fee
<1>5. added \in Nat
  <2>1. PICK x \in Nat : x = fee * fill.opened
    BY <1>3, <1>4, MulNat
  <2>2. PICK q \in Nat \ {0} : q = fill.quantity
    BY <1>3
  <2>3. x \div q \in Nat
    BY <2>2, DivNat
  <2> QED
    BY <2>1, <2>2, <2>3
<1> HIDE DEF added
<1>6. /\ position.quantity \in Int /\ position.cost \in Nat /\ position.lots \in Seq(Lot)
      /\ position \in [quantity : Int, cost : Int, lots : Seq(Lot)]
  BY <1>1, PositionFacts DEF TypeOK
<1>7. costs => position.quantity > 0
  <2> SUFFICES ASSUME costs PROVE position.quantity > 0
    OBVIOUS
  <2>1. fill.after \in Int \X Int /\ fill.after[1] > 0
    BY <1>1, <1>3 DEF FillsAreSound
  <2>2. fill.after = <<position.quantity, position.cost>>
    BY <1>2
  <2> QED
    BY <2>1, <2>2
<1> HIDE DEF costs
<1>8. /\ position'.quantity = position.quantity /\ position'.lots = position.lots
      /\ position' \in [quantity : Int, cost : Int, lots : Seq(Lot)]
      /\ position'.cost = position.cost + (IF costs THEN added ELSE 0)
  BY <1>2, <1>5, <1>6
<1>9. /\ r \in FillRecord /\ r.status = fill.status /\ r.applied = fill.applied
      /\ r.opened = fill.opened /\ r.after = fill.after /\ r.order = fill.order
      /\ r.quantity = fill.quantity /\ r.side = fill.side /\ r.price = fill.price /\ r.fee = fee
  <2> HIDE DEF fill
  <2> QED
    BY <1>3, <1>4 DEF FillRecord
<1>10. fills'[f] = r /\ \A g \in FillIds \ {f} : fills'[g] = fills[g]
  BY <1>1, <1>2
<1>11. r # Absent /\ fee # Absent
  <2> HIDE DEF r
  <2> QED
    BY <1>4, <1>9, EventAssumption
<1> HIDE DEF r
<1>12. /\ UnitsMoved(r) = UnitsMoved(fill) /\ CashMoved(r) = CashMoved(fill) + fee
       /\ UnitsMoved(fill) \in Int /\ CashMoved(fill) \in Int
  <2> HIDE DEF fill
  <2>1. PICK q \in Nat, p \in Nat : q = fill.quantity /\ p = fill.price
    BY <1>3
  <2>2. PICK u \in Int : u = UnitsMoved(fill)
    BY <2>1 DEF UnitsMoved
  <2>3. UnitsMoved(r) = u
    BY <1>9, <2>2 DEF UnitsMoved
  <2>4. CashMoved(fill) = u * p + 0
    BY <1>3, <2>1, <2>2 DEF CashMoved
  <2>5. CashMoved(r) = u * p + fee
    BY <1>9, <1>11, <2>1, <2>3 DEF CashMoved
  <2>6. u * p \in Int
    BY <2>1
  <2> QED
    BY <1>4, <2>2, <2>3, <2>4, <2>5, <2>6
<1>13. fills' \in [FillIds -> FillRecord \cup {Absent}]
  <2>1. DOMAIN fills' = FillIds /\ \A g \in FillIds : fills'[g] \in FillRecord \cup {Absent}
    BY <1>1, <1>2, <1>9, <1>10
  <2>2. fills' = [g \in FillIds |-> fills'[g]]
    BY <1>1, <1>2
  <2> QED
    BY <2>1, <2>2
<1>14. TypeOK'
  <2>1. cash' \in Int
    BY <1>1, <1>2, <1>4 DEF TypeOK
  <2>2. due' \subseteq DueRecord
    <3>1. PICK m \in Int, c \in Int, d \in Int : m = position.quantity /\ c = position.cost + added /\ d = -fee
      BY <1>4, <1>5, <1>6
    <3>2. "FEE" \in {"FILL", "FEE"}
      OBVIOUS
    <3>3. CashDue(<<"FEE", f>>, d) \subseteq DueRecord /\ PositionDue(<<"FEE", f>>, m, c) \subseteq DueRecord
      BY <1>1, <3>2, DueTypes
    <3>4. due' = due \cup CashDue(<<"FEE", f>>, d)
                     \cup (IF costs THEN PositionDue(<<"FEE", f>>, m, c) ELSE {})
      BY <1>2, <3>1
    <3> QED
      BY <1>1, <3>3, <3>4 DEF TypeOK
  <2> QED
    BY <1>1, <1>2, <1>8, <1>13, <2>1, <2>2 DEF TypeOK
<1>15. FillsAreSound'
  <2> SUFFICES ASSUME NEW g \in FillIds, fills'[g] # Absent
               PROVE  /\ orders[fills'[g].order] # Absent
                      /\ orders[fills'[g].order].status \notin {"CREATED", "SUBMITTED", "REJECTED"}
                      /\ fills'[g].status # "REVERSED"
                      /\ fills'[g].applied <=> fills'[g].status \in {"CONFIRMED", "SETTLED"}
                      /\ fills'[g].fee # Absent => fills'[g].applied
                      /\ fills'[g].opened > 0 => fills'[g].after \in Int \X Int /\ fills'[g].after[1] > 0
    BY <1>2 DEF FillsAreSound
  <2>1. CASE g = f
    <3>1. /\ orders[fill.order] # Absent
          /\ orders[fill.order].status \notin {"CREATED", "SUBMITTED", "REJECTED"}
          /\ fill.status # "REVERSED"
          /\ fill.applied <=> fill.status \in {"CONFIRMED", "SETTLED"}
          /\ fill.opened > 0 => fill.after \in Int \X Int /\ fill.after[1] > 0
      BY <1>1 DEF FillsAreSound
    <3> HIDE DEF fill
    <3> QED
      BY <1>3, <1>9, <1>10, <2>1, <3>1
  <2>2. CASE g # f
    BY <1>1, <1>10, <2>2 DEF FillsAreSound
  <2> QED
    BY <2>1, <2>2
<1>16. /\ UnitsBy(fills)[f] = UnitsMoved(fill) /\ CashBy(fills)[f] = CashMoved(fill)
       /\ \A k : ConfirmedBy(fills, k)[f] = (IF fill.order = k THEN fill.quantity ELSE 0)
       /\ \A k : WaitingBy(fills, k)[f] = 0
  <2>1. Booked(fills, f)
    BY <1>1, <1>3 DEF Booked
  <2> QED
    BY <1>1, <1>3, <2>1, FillValues
<1>17. \A k : /\ SumOver(UnitsBy(fills), FillIds) \in Int /\ SumOver(CashBy(fills), FillIds) \in Int
              /\ SumOver(ConfirmedBy(fills, k), FillIds) \in Nat
              /\ SumOver(WaitingBy(fills, k), FillIds) \in Nat
  BY <1>1, SumTypes
<1>18. /\ SumOver(UnitsBy(fills'), FillIds)
            = SumOver(UnitsBy(fills), FillIds) - UnitsBy(fills)[f]
                + (IF r.applied THEN UnitsMoved(r) ELSE 0)
       /\ SumOver(CashBy(fills'), FillIds)
            = SumOver(CashBy(fills), FillIds) - CashBy(fills)[f]
                + (IF r.applied THEN CashMoved(r) ELSE 0)
       /\ \A k : SumOver(ConfirmedBy(fills', k), FillIds)
            = SumOver(ConfirmedBy(fills, k), FillIds) - ConfirmedBy(fills, k)[f]
                + (IF r.applied /\ r.order = k THEN r.quantity ELSE 0)
       /\ \A k : SumOver(WaitingBy(fills', k), FillIds)
            = SumOver(WaitingBy(fills, k), FillIds) - WaitingBy(fills, k)[f]
                + (IF r.order = k /\ r.status = "CREATED" THEN r.quantity ELSE 0)
  BY <1>1, <1>9, <1>10, <1>13, FillBecomes
<1> HIDE DEF fill
<1>19. /\ SumOver(UnitsBy(fills'), FillIds) = SumOver(UnitsBy(fills), FillIds)
       /\ SumOver(CashBy(fills'), FillIds) = SumOver(CashBy(fills), FillIds) + fee
  BY <1>3, <1>4, <1>9, <1>12, <1>16, <1>17, <1>18
<1>20. ASSUME NEW k
       PROVE  /\ SumOver(ConfirmedBy(fills', k), FillIds) = SumOver(ConfirmedBy(fills, k), FillIds)
              /\ SumOver(WaitingBy(fills', k), FillIds) = SumOver(WaitingBy(fills, k), FillIds)
  <2>1. /\ SumOver(ConfirmedBy(fills', k), FillIds)
             = SumOver(ConfirmedBy(fills, k), FillIds) - (IF fill.order = k THEN fill.quantity ELSE 0)
                 + (IF fill.order = k THEN fill.quantity ELSE 0)
        /\ SumOver(WaitingBy(fills', k), FillIds) = SumOver(WaitingBy(fills, k), FillIds) - 0 + 0
    BY <1>3, <1>9, <1>16, <1>18
  <2> QED
    BY <1>3, <1>17, <2>1
<1>21. LedgerSums'
  <2>1. PICK S \in Int : S = SumOver(CashBy(fills), FillIds)
    BY <1>17
  <2>2. cash' = cash - fee /\ cash = OpeningCash - S /\ OpeningCash \in Int
    BY <1>2, <2>1, EventAssumption DEF Inv, LedgerSums
  <2>3. SumOver(CashBy(fills'), FillIds) = S + fee
    BY <1>19, <2>1
  <2>4. cash' = OpeningCash - (S + fee)
    BY <1>4, <2>2
  <2> QED
    BY <1>8, <1>19, <2>3, <2>4 DEF Inv, LedgerSums
<1>22. LotsSum'
  BY <1>1, <1>5, <1>6, <1>7, <1>8 DEF LotsSum
<1>23. OrderSums'
  BY <1>2, <1>20 DEF Inv, OrderSums
<1> QED
  BY <1>14, <1>15, <1>21, <1>22, <1>23 DEF Inv

(* The opening ledger satisfies the invariant.                             *)
LEMMA InitInv == Init => Inv
<1> SUFFICES ASSUME Init PROVE Inv
  OBVIOUS
<1>1. /\ config \in EventBacktestConfig /\ day = 0 /\ cash = OpeningCash
      /\ targets = [s \in Signals |-> Absent] /\ orders = [o \in OrderIds |-> Absent]
      /\ fills = [f \in FillIds |-> Absent] /\ due = {}
      /\ position.quantity = UnitsOf(OpeningLots) /\ position.cost = UnitsOf(OpeningLots)
      /\ position.lots = OpeningLots
      /\ position = [quantity |-> UnitsOf(OpeningLots), cost |-> UnitsOf(OpeningLots), lots |-> OpeningLots]
  BY DEF Init, ValidRun, InitialPosition
<1>2. OpeningLots \in Seq(Lot) /\ UnitsOf(OpeningLots) \in Nat
  BY EventAssumption, LotsAreLoose, LotUnitsFacts
<1>3. TypeOK
  BY <1>1, <1>2, EventAssumption DEF TypeOK
<1>4. FillsAreSound /\ OrderSums
  BY <1>1 DEF FillsAreSound, OrderSums
<1>5. SumOver(CashBy(fills), FillIds) = 0 /\ SumOver(UnitsBy(fills), FillIds) = 0
  <2>1. IsFiniteSet(FillIds)
    BY EventAssumption
  <2>2. \A f \in FillIds : CashBy(fills)[f] = 0 /\ UnitsBy(fills)[f] = 0
    BY <1>1 DEF CashBy, UnitsBy, Booked
  <2> QED
    BY <2>1, <2>2, SumZero
<1>6. LedgerSums
  BY <1>1, <1>2, <1>5, EventAssumption DEF LedgerSums
<1>7. LotsSum
  BY <1>1, <1>2 DEF LotsSum, Largest
<1> QED
  BY <1>3, <1>4, <1>6, <1>7 DEF Inv

(* Every event the engine accepts keeps it.                                *)
LEMMA NextInv == Inv /\ [Next]_vars => Inv'
<1> SUFFICES ASSUME Inv, [Next]_vars PROVE Inv'
  OBVIOUS
<1>1. CASE Advance
  BY <1>1, AdvanceKeeps
<1>2. CASE \E s \in Signals, t \in Targets : Target(s, t.direction, t.quantity)
  BY <1>2, TargetKeeps
<1>3. CASE \E o \in OrderIds, s \in Signals, side \in Sides, n \in Quantities, p \in Limits :
             CreateOrder(o, s, side, n, p)
  BY <1>3, CreateOrderKeeps
<1>4. CASE \E o \in Known(orders), status \in DOMAIN OrderTransitions :
             \E n \in 0..orders[o].quantity : UpdateOrder(o, status, n)
  BY <1>4, UpdateOrderKeeps
<1>5. CASE \E f \in FillIds, o \in Known(orders), n \in Quantities, p \in Prices :
             CreateFill(f, o, n, p)
  BY <1>5, CreateFillKeeps
<1>6. CASE \E f \in Known(fills) : ConfirmFill(f) \/ FeeEvent(f)
  BY <1>6, ConfirmFillKeeps, FeeEventKeeps
<1>7. CASE \E f \in Known(fills), status \in DOMAIN FillTransitions : UpdateFill(f, status)
  BY <1>7, UpdateFillKeeps
<1>8. CASE \E d \in due : Attest(d)
  BY <1>8, AttestKeeps
<1>9. CASE UNCHANGED vars
  BY <1>9, QuietKeeps DEF vars, Inv, TypeOK
<1> QED
  BY <1>1, <1>2, <1>3, <1>4, <1>5, <1>6, <1>7, <1>8, <1>9 DEF Next

-----------------------------------------------------------------------------
(* The theorems.                                                           *)

(* The invariant holds in every run.                                       *)
THEOREM InvHolds == Spec => []Inv
<1>1. Init => Inv
  BY InitInv
<1>2. Inv /\ [Next]_vars => Inv'
  BY NextInv
<1> QED
  BY <1>1, <1>2, PTL DEF Spec

(* The engine's records keep the shapes its contracts validate.            *)
THEOREM TypeCorrect == Spec => []TypeOK
<1>1. Inv => TypeOK
  BY DEF Inv
<1> QED
  BY <1>1, InvHolds, PTL

(* Whatever the stream, cash and position are what the confirmed fills and *)
(* their fees make of the opening ledger: nothing is booked twice or lost. *)
THEOREM LedgerCorrect == Spec => []LedgerMatchesFills
<1>1. Inv => LedgerMatchesFills
  BY LedgerIs DEF Inv, LedgerSums, LedgerMatchesFills
<1> QED
  BY <1>1, InvHolds, PTL

(* The lots are the long position, through shorts, covers and partial      *)
(* consumption of any lots in any order.                                   *)
THEOREM LotsCorrect == Spec => []LotsMatchPosition
<1>1. Inv => LotsMatchPosition
  <2> SUFFICES ASSUME Inv PROVE LotsMatchPosition
    OBVIOUS
  <2>1. position.lots \in Seq(Lot)
    BY PositionFacts DEF Inv
  <2>2. \A k \in DOMAIN position.lots : position.lots[k].quantity > 0
    <3>1. \A k \in DOMAIN position.lots : position.lots[k] \in Lot
      BY <2>1, LenProperties, ElementOfSeq
    <3> QED
      BY <3>1 DEF Lot
  <2> QED
    BY <2>2 DEF Inv, LotsSum, LotsMatchPosition, NoCost
<1> QED
  BY <1>1, InvHolds, PTL

(* No order is overfilled, FILLED means all of it was confirmed, and no    *)
(* fill of an order that is over waits to be confirmed.                    *)
THEOREM OrdersCorrect == Spec => []OrdersMatchFills
<1>1. Inv => OrdersMatchFills
  <2> SUFFICES ASSUME Inv, NEW o \in OrderIds, orders[o] # Absent
               PROVE  /\ orders[o].confirmed = QuantityOver(FillsOfOrder(o) \cap Applied)
                      /\ orders[o].confirmed + QuantityOver(Unconfirmed(o)) <= orders[o].quantity
                      /\ orders[o].status = "FILLED" => orders[o].confirmed = orders[o].quantity
                      /\ orders[o].status \in Terminal =>
                           Unconfirmed(o) = {} /\ orders[o].filled = orders[o].confirmed
    BY DEF OrdersMatchFills, Known, Inv, TypeOK
  <2>1. /\ QuantityOver(FillsOfOrder(o) \cap Applied) = SumOver(ConfirmedBy(fills, o), FillIds)
        /\ QuantityOver(Unconfirmed(o)) = SumOver(WaitingBy(fills, o), FillIds)
    BY OrderQuantities DEF Inv
  <2>2. SumOver(WaitingBy(fills, o), FillIds) = 0 => Unconfirmed(o) = {}
    BY PendingIs DEF Inv
  <2> QED
    BY <2>1, <2>2 DEF Inv, OrderSums
<1> QED
  BY <1>1, InvHolds, PTL

=============================================================================
