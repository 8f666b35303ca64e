--------------------------- MODULE RateLimitProofs --------------------------
(* Theorems about RateLimit, for any tasks, subjects, amounts and windows:  *)
(* sums of hits, the arithmetic of the sliding window counter against them, *)
(* and three invariants, of the way of a request (PInv), of the counters    *)
(* (CInv) and of what logins cost (SInv).                                   *)
EXTENDS RateLimit, FiniteSetTheorems, SequenceTheorems, TLAPS

-----------------------------------------------------------------------------
(* Sums.  What MapThenSumSet computes for a finite set.  Each lemma is an   *)
(* induction over the set, told as a smallest subset for which it fails.    *)

Any(s) == CHOOSE x \in s : TRUE

\* g has the sums of f over the subsets of S, by the equation of MapThenSumSet.
Adds(g, f, S) ==
    g = [s \in SUBSET S |-> IF s = {} THEN 0 ELSE f[Any(s)] + g[s \ {Any(s)}]]

Sum(f, S) == MapThenSumSet(LAMBDA x : f[x], S)

\* A set of finite sets has a member without a proper subset in it.
LEMMA Smallest ==
    ASSUME NEW S, IsFiniteSet(S), NEW B \in SUBSET SUBSET S, B # {}
    PROVE  \E T \in B : \A U \in B : U \subseteq T => U = T
<1>. DEFINE R == StrictSubsetOrdering(S)
<1>1. IsWellFoundedOn(R, SUBSET S)
  BY FS_StrictSubsetOrderingWellFounded, FS_FiniteSubsetsOfFinite
<1>2. B \subseteq SUBSET S
  OBVIOUS
<1>. HIDE DEF R
<1>3. PICK T \in B : \A U \in B : ~ (<<U, T>> \in R)
  BY <1>1, <1>2, WFMin
<1>. USE DEF R
<1>4. ASSUME NEW U \in B, U \subseteq T, U # T
      PROVE  <<U, T>> \in R
  BY <1>2, <1>4 DEF StrictSubsetOrdering
<1>5. ASSUME NEW U \in B, U \subseteq T
      PROVE  U = T
  <2>1. ~ (<<U, T>> \in R)
    BY <1>3
  <2>2. U # T => <<U, T>> \in R
    BY <1>4, <1>5
  <2>. QED BY <2>1, <2>2
<1>. QED BY <1>5

LEMMA AnyOne == \A s : s # {} => Any(s) \in s
BY DEF Any

LEMMA AddsValue ==
    ASSUME NEW f, NEW S, NEW g, Adds(g, f, S), NEW s \in SUBSET S
    PROVE  g[s] = IF s = {} THEN 0 ELSE f[Any(s)] + g[s \ {Any(s)}]
BY DEF Adds

LEMMA AddsUnique ==
    ASSUME NEW f, NEW S, NEW T, NEW g, NEW h, Adds(g, f, S), Adds(h, f, T),
           NEW U, U \subseteq S, U \subseteq T, IsFiniteSet(U)
    PROVE  g[U] = h[U]
<1>. DEFINE B == {V \in SUBSET U : g[V] # h[V]}
<1>1. SUFFICES ASSUME B # {} PROVE FALSE
  OBVIOUS
<1>2. B \in SUBSET SUBSET U
  OBVIOUS
<1>3. PICK V \in B : \A W \in B : W \subseteq V => W = V
  <2>. HIDE DEF B
  <2>. QED BY <1>1, <1>2, Smallest
<1>4. V \in SUBSET S /\ V \in SUBSET T /\ V \in SUBSET U /\ g[V] # h[V]
  OBVIOUS
<1>5. /\ g[V] = IF V = {} THEN 0 ELSE f[Any(V)] + g[V \ {Any(V)}]
      /\ h[V] = IF V = {} THEN 0 ELSE f[Any(V)] + h[V \ {Any(V)}]
  BY <1>4, AddsValue
<1>6. ASSUME V # {}
      PROVE  g[V \ {Any(V)}] = h[V \ {Any(V)}]
  <2>1. Any(V) \in V
    BY <1>6, AnyOne
  <2>2. V \ {Any(V)} \notin B
    BY <1>3, <2>1
  <2>. QED BY <1>4, <2>2
<1>. QED BY <1>4, <1>5, <1>6

LEMMA AddsExists ==
    ASSUME NEW f, NEW S, IsFiniteSet(S)
    PROVE  \E g : Adds(g, f, S)
<1>. DEFINE B == {T \in SUBSET S : ~ \E g : Adds(g, f, T)}
<1>1. SUFFICES ASSUME B # {} PROVE FALSE
  OBVIOUS
<1>2. B \in SUBSET SUBSET S
  OBVIOUS
<1>3. PICK T \in B : \A U \in B : U \subseteq T => U = T
  <2>. HIDE DEF B
  <2>. QED BY <1>1, <1>2, Smallest
<1>4. T \in SUBSET S /\ ~ \E g : Adds(g, f, T)
  OBVIOUS
<1>. DEFINE h(U) == CHOOSE g : Adds(g, f, U)
            rest(s) == s \ {Any(s)}
            g == [s \in SUBSET T |-> IF s = {} THEN 0 ELSE f[Any(s)] + h(rest(s))[rest(s)]]
<1>5. ASSUME NEW U \in SUBSET T, U # T
      PROVE  Adds(h(U), f, U) /\ IsFiniteSet(U)
  <2>1. U \notin B
    BY <1>3, <1>5
  <2>2. \E k : Adds(k, f, U)
    BY <1>4, <2>1
  <2>. QED BY <1>4, <2>2, FS_Subset
<1>. HIDE DEF B, h
<1>6. ASSUME NEW s \in SUBSET T, s # {}
      PROVE  g[rest(s)] = h(rest(s))[rest(s)]
  <2>. DEFINE U == rest(s)
  <2>1. Any(s) \in s
    BY <1>6, AnyOne
  <2>2. U \in SUBSET T /\ U # T
    BY <2>1
  <2>3. Adds(h(U), f, U) /\ IsFiniteSet(U)
    BY <1>5, <2>2
  <2>4. CASE U = {}
    <3>1. h(U)[U] = 0
      BY <2>3, <2>4, AddsValue
    <3>2. g[U] = 0
      BY <2>2, <2>4
    <3>. QED BY <3>1, <3>2
  <2>5. CASE U # {}
    <3>. DEFINE V == rest(U)
    <3>1. Any(U) \in U
      BY <2>5, AnyOne
    <3>2. V \in SUBSET T /\ V # T /\ V \subseteq U
      BY <2>2, <3>1
    <3>3. Adds(h(V), f, V) /\ IsFiniteSet(V)
      BY <1>5, <3>2
    <3>. HIDE DEF V, U
    <3>4. h(U)[V] = h(V)[V]
      BY <2>3, <3>2, <3>3, AddsUnique
    <3>5. h(U)[U] = f[Any(U)] + h(U)[V]
      BY <2>3, <2>5, AddsValue DEF V
    <3>6. g[U] = f[Any(U)] + h(V)[V]
      BY <2>2, <2>5 DEF V
    <3>. QED BY <3>4, <3>5, <3>6 DEF U
  <2>. QED BY <2>4, <2>5
<1>7. \A s \in SUBSET T : g[s] = IF s = {} THEN 0 ELSE f[Any(s)] + g[s \ {Any(s)}]
  BY <1>6
<1>8. g = [s \in SUBSET T |-> g[s]]
  OBVIOUS
<1>. HIDE DEF g
<1>9. Adds(g, f, T)
  BY <1>7, <1>8 DEF Adds
<1>. QED BY <1>4, <1>9

LEMMA SumValue ==
    ASSUME NEW f, NEW S, IsFiniteSet(S)
    PROVE  Sum(f, S) = IF S = {} THEN 0 ELSE f[Any(S)] + Sum(f, S \ {Any(S)})
<1>. DEFINE h(U) == CHOOSE g : Adds(g, f, U)
<1>1. \A U : Sum(f, U) = h(U)[U]
  BY DEF Sum, MapThenSumSet, MapThenFoldSet, Adds, Any
<1>2. ASSUME NEW U \in SUBSET S
      PROVE  Adds(h(U), f, U)
  BY <1>2, AddsExists, FS_Subset
<1>. HIDE DEF h
<1>3. h(S)[S] = IF S = {} THEN 0 ELSE f[Any(S)] + h(S)[S \ {Any(S)}]
  BY <1>2, AddsValue
<1>. DEFINE U == S \ {Any(S)}
<1>4. U \in SUBSET S /\ IsFiniteSet(U)
  BY FS_Subset
<1>. HIDE DEF U
<1>5. h(S)[U] = h(U)[U]
  BY <1>2, <1>4, AddsUnique
<1>. QED BY <1>1, <1>3, <1>5 DEF U

LEMMA SumType ==
    ASSUME NEW S, IsFiniteSet(S), NEW f, \A x \in S : f[x] \in Nat
    PROVE  Sum(f, S) \in Nat
<1>. DEFINE B == {T \in SUBSET S : Sum(f, T) \notin Nat}
<1>1. SUFFICES ASSUME B # {} PROVE FALSE
  OBVIOUS
<1>2. B \in SUBSET SUBSET S
  OBVIOUS
<1>3. PICK T \in B : \A U \in B : U \subseteq T => U = T
  <2>. HIDE DEF B
  <2>. QED BY <1>1, <1>2, Smallest
<1>4. T \in SUBSET S /\ Sum(f, T) \notin Nat /\ IsFiniteSet(T)
  BY FS_Subset
<1>5. Sum(f, T) = IF T = {} THEN 0 ELSE f[Any(T)] + Sum(f, T \ {Any(T)})
  BY <1>4, SumValue
<1>6. T # {}
  BY <1>4, <1>5
<1>7. Any(T) \in T
  BY <1>6, AnyOne
<1>8. T \ {Any(T)} \notin B
  BY <1>3, <1>7
<1>9. Sum(f, T \ {Any(T)}) \in Nat /\ f[Any(T)] \in Nat
  BY <1>4, <1>7, <1>8
<1>. QED BY <1>4, <1>5, <1>6, <1>9

\* Any element can be added last.
LEMMA SumWithout ==
    ASSUME NEW S, IsFiniteSet(S), NEW f, \A x \in S : f[x] \in Nat, NEW y \in S
    PROVE  Sum(f, S) = f[y] + Sum(f, S \ {y})
<1>. DEFINE B == {T \in SUBSET S : \E x \in T : Sum(f, T) # f[x] + Sum(f, T \ {x})}
<1>1. SUFFICES ASSUME B # {} PROVE FALSE
  OBVIOUS
<1>2. B \in SUBSET SUBSET S
  OBVIOUS
<1>3. PICK T \in B : \A U \in B : U \subseteq T => U = T
  <2>. HIDE DEF B
  <2>. QED BY <1>1, <1>2, Smallest
<1>4. PICK x \in T : T \in SUBSET S /\ Sum(f, T) # f[x] + Sum(f, T \ {x})
  OBVIOUS
<1>. DEFINE a == Any(T)  TA == T \ {a}  TX == T \ {x}  TAX == T \ {a, x}
<1>5. a \in T
  BY AnyOne
<1>. HIDE DEF a
<1>6. IsFiniteSet(T) /\ IsFiniteSet(TA) /\ IsFiniteSet(TX) /\ IsFiniteSet(TAX)
  BY <1>4, FS_Subset
<1>7. Sum(f, T) = f[a] + Sum(f, TA)
  BY <1>4, <1>6, SumValue DEF a
<1>8. a # x
  BY <1>4, <1>7
<1>9. TA \ {x} = TAX /\ TX \ {a} = TAX /\ x \in TA /\ a \in TX
  BY <1>5, <1>8
<1>10. TA \notin B /\ TX \notin B
  BY <1>3, <1>5, <1>9
<1>11. Sum(f, TA) = f[x] + Sum(f, TAX)
  <2>1. TA \in SUBSET S
    BY <1>4
  <2>. QED BY <1>9, <1>10, <2>1
<1>12. Sum(f, TX) = f[a] + Sum(f, TAX)
  <2>1. TX \in SUBSET S
    BY <1>4
  <2>. QED BY <1>9, <1>10, <2>1
<1>13. f[a] \in Nat /\ f[x] \in Nat /\ Sum(f, TAX) \in Nat
  BY <1>4, <1>5, <1>6, SumType
<1>. HIDE DEF TAX, TA, TX, B
<1>14. Sum(f, T) = f[x] + Sum(f, TX)
  BY <1>7, <1>11, <1>12, <1>13
<1>. QED BY <1>4, <1>14 DEF TX

LEMMA SumEqual ==
    ASSUME NEW S, IsFiniteSet(S), NEW f, NEW g, \A x \in S : f[x] = g[x]
    PROVE  Sum(f, S) = Sum(g, S)
<1>. DEFINE B == {T \in SUBSET S : Sum(f, T) # Sum(g, T)}
<1>1. SUFFICES ASSUME B # {} PROVE FALSE
  OBVIOUS
<1>2. B \in SUBSET SUBSET S
  OBVIOUS
<1>3. PICK T \in B : \A U \in B : U \subseteq T => U = T
  <2>. HIDE DEF B
  <2>. QED BY <1>1, <1>2, Smallest
<1>4. T \in SUBSET S /\ Sum(f, T) # Sum(g, T) /\ IsFiniteSet(T)
  BY FS_Subset
<1>5. /\ Sum(f, T) = IF T = {} THEN 0 ELSE f[Any(T)] + Sum(f, T \ {Any(T)})
      /\ Sum(g, T) = IF T = {} THEN 0 ELSE g[Any(T)] + Sum(g, T \ {Any(T)})
  BY <1>4, SumValue
<1>6. T # {}
  BY <1>4, <1>5
<1>7. Any(T) \in T
  BY <1>6, AnyOne
<1>8. T \ {Any(T)} \notin B
  BY <1>3, <1>7
<1>. QED BY <1>4, <1>5, <1>6, <1>7, <1>8

\* One more at y is one more in all.
LEMMA SumBump ==
    ASSUME NEW S, IsFiniteSet(S), NEW f, NEW g, \A x \in S : f[x] \in Nat,
           NEW y \in S, g[y] = f[y] + 1, \A x \in S \ {y} : g[x] = f[x]
    PROVE  Sum(g, S) = Sum(f, S) + 1
<1>. DEFINE R == S \ {y}
<1>1. IsFiniteSet(R)
  BY FS_Subset
<1>2. \A x \in S : g[x] \in Nat
  OBVIOUS
<1>3. Sum(f, S) = f[y] + Sum(f, R) /\ Sum(g, S) = g[y] + Sum(g, R)
  BY <1>2, SumWithout
<1>4. Sum(f, R) = Sum(g, R)
  BY <1>1, SumEqual
<1>5. Sum(f, R) \in Nat
  BY <1>1, SumType
<1>. HIDE DEF R
<1>. QED BY <1>3, <1>4, <1>5

LEMMA SumSplit ==
    ASSUME NEW S, IsFiniteSet(S), NEW f, \A x \in S : f[x] \in Nat, NEW T \in SUBSET S
    PROVE  Sum(f, S) = Sum(f, T) + Sum(f, S \ T)
<1>. DEFINE B == {U \in SUBSET S : Sum(f, U) # Sum(f, U \cap T) + Sum(f, U \ T)}
<1>1. SUFFICES ASSUME B # {} PROVE FALSE
  <2>1. S \notin B
    BY <1>1
  <2>2. S \cap T = T
    OBVIOUS
  <2>. QED BY <2>1, <2>2
<1>2. B \in SUBSET SUBSET S
  OBVIOUS
<1>3. PICK U \in B : \A V \in B : V \subseteq U => V = U
  <2>. HIDE DEF B
  <2>. QED BY <1>1, <1>2, Smallest
<1>4. U \in SUBSET S /\ Sum(f, U) # Sum(f, U \cap T) + Sum(f, U \ T)
  OBVIOUS
<1>5. U # {}
  <2>. SUFFICES ASSUME U = {} PROVE FALSE
    OBVIOUS
  <2>. DEFINE I == U \cap T  D == U \ T
  <2>1. I = U /\ D = U
    OBVIOUS
  <2>2. Sum(f, U) = 0
    BY FS_EmptySet, SumValue
  <2>. HIDE DEF I, D
  <2>3. Sum(f, I) = 0 /\ Sum(f, D) = 0
    BY <2>1, <2>2
  <2>. QED BY <1>4, <2>2, <2>3 DEF I, D
<1>. DEFINE a == Any(U)  V == U \ {a}  I == U \cap T  D == U \ T  VI == V \cap T  VD == V \ T
<1>6. a \in U
  BY <1>5, AnyOne
<1>. HIDE DEF a
<1>7. V \notin B /\ V \in SUBSET S
  BY <1>3, <1>6
<1>8. Sum(f, V) = Sum(f, VI) + Sum(f, VD)
  BY <1>7
<1>9. IsFiniteSet(U) /\ IsFiniteSet(I) /\ IsFiniteSet(D) /\ IsFiniteSet(VI) /\ IsFiniteSet(VD)
  BY <1>4, FS_Subset
<1>10. Sum(f, U) = f[a] + Sum(f, V)
  BY <1>4, <1>6, <1>9, SumWithout
<1>11. Sum(f, VI) \in Nat /\ Sum(f, VD) \in Nat /\ f[a] \in Nat
  BY <1>4, <1>6, <1>9, SumType
<1>12. CASE a \in T
  <2>1. I \ {a} = VI /\ D = VD /\ a \in I
    BY <1>6, <1>12
  <2>2. Sum(f, I) = f[a] + Sum(f, I \ {a})
    BY <1>4, <1>9, <2>1, SumWithout
  <2>3. I \ {a} = VI /\ D = VD
    BY <2>1
  <2>. HIDE DEF I, D, VI, VD, V, B
  <2>4. Sum(f, U) = Sum(f, I) + Sum(f, D)
    BY <1>8, <1>10, <1>11, <2>2, <2>3
  <2>. QED BY <1>4, <2>4 DEF I, D
<1>13. CASE a \notin T
  <2>1. D \ {a} = VD /\ I = VI /\ a \in D
    BY <1>6, <1>13
  <2>2. Sum(f, D) = f[a] + Sum(f, D \ {a})
    BY <1>4, <1>9, <2>1, SumWithout
  <2>3. D \ {a} = VD /\ I = VI
    BY <2>1
  <2>. HIDE DEF I, D, VI, VD, V, B
  <2>4. Sum(f, U) = Sum(f, I) + Sum(f, D)
    BY <1>8, <1>10, <1>11, <2>2, <2>3
  <2>. QED BY <1>4, <2>4 DEF I, D
<1>. QED BY <1>12, <1>13

LEMMA SumSubset ==
    ASSUME NEW S, IsFiniteSet(S), NEW f, \A x \in S : f[x] \in Nat, NEW T \in SUBSET S
    PROVE  Sum(f, T) \in Nat /\ Sum(f, S) \in Nat /\ Sum(f, T) <= Sum(f, S)
<1>1. IsFiniteSet(T) /\ IsFiniteSet(S \ T)
  BY FS_Subset
<1>2. Sum(f, T) \in Nat /\ Sum(f, S \ T) \in Nat /\ Sum(f, S) \in Nat
  BY <1>1, SumType
<1>3. Sum(f, S) = Sum(f, T) + Sum(f, S \ T)
  BY SumSplit
<1>. QED BY <1>2, <1>3

LEMMA SumZero ==
    ASSUME NEW S, IsFiniteSet(S), NEW f, \A x \in S : f[x] = 0
    PROVE  Sum(f, S) = 0
<1>. DEFINE B == {T \in SUBSET S : Sum(f, T) # 0}
<1>1. SUFFICES ASSUME B # {} PROVE FALSE
  OBVIOUS
<1>2. B \in SUBSET SUBSET S
  OBVIOUS
<1>3. PICK T \in B : \A U \in B : U \subseteq T => U = T
  <2>. HIDE DEF B
  <2>. QED BY <1>1, <1>2, Smallest
<1>4. T \in SUBSET S /\ Sum(f, T) # 0 /\ IsFiniteSet(T)
  BY FS_Subset
<1>5. Sum(f, T) = IF T = {} THEN 0 ELSE f[Any(T)] + Sum(f, T \ {Any(T)})
  BY <1>4, SumValue
<1>6. T # {}
  BY <1>4, <1>5
<1>7. Any(T) \in T
  BY <1>6, AnyOne
<1>8. T \ {Any(T)} \notin B
  BY <1>3, <1>7
<1>. QED BY <1>4, <1>5, <1>6, <1>7, <1>8

-----------------------------------------------------------------------------
(* The hits of a limit on an interval of ticks.                            *)

Span(h, a, b) == Sum(h, Times \cap (a .. b))

LEMMA SpanIsHitsIn ==
    ASSUME NEW c, NEW s, NEW a, NEW b
    PROVE  HitsIn(c, s, a .. b) = Span(hits[<<c, s>>], a, b)
BY DEF HitsIn, Span, Sum

LEMMA AllTimes == IsFiniteSet(Times)
BY FS_Interval, LimitsArePositive DEF Times

LEMMA TimesAreFinite == Times \subseteq Nat /\ \A a, b \in Int : IsFiniteSet(Times \cap (a .. b))
<1>1. Times \subseteq Nat /\ IsFiniteSet(Times)
  BY FS_Interval, LimitsArePositive DEF Times
<1>2. ASSUME NEW a \in Int, NEW b \in Int
      PROVE  IsFiniteSet(Times \cap (a .. b))
  <2>1. Times \cap (a .. b) \in SUBSET Times
    OBVIOUS
  <2>. QED BY <1>1, <2>1, FS_Subset
<1>. QED BY <1>1, <1>2

LEMMA SpanType ==
    ASSUME NEW h \in [Times -> Nat], NEW a \in Int, NEW b \in Int
    PROVE  Span(h, a, b) \in Nat
BY SumType, TimesAreFinite DEF Span

\* An interval can be cut in two.
LEMMA SpanCut ==
    ASSUME NEW h \in [Times -> Nat], NEW a \in Int, NEW b \in Int, NEW m \in Int,
           a <= m + 1, m <= b
    PROVE  Span(h, a, b) = Span(h, a, m) + Span(h, m + 1, b)
<1>. DEFINE S == Times \cap (a .. b)  T == Times \cap (a .. m)  U == Times \cap (m + 1 .. b)
<1>1. T \in SUBSET S /\ S \ T = U
  BY TimesAreFinite
<1>2. IsFiniteSet(S) /\ \A x \in S : h[x] \in Nat
  BY TimesAreFinite
<1>. HIDE DEF S, T, U
<1>3. Sum(h, S) = Sum(h, T) + Sum(h, S \ T)
  BY <1>1, <1>2, SumSplit
<1>. QED BY <1>1, <1>3 DEF Span, S, T, U

LEMMA SpanWithin ==
    ASSUME NEW h \in [Times -> Nat], NEW a \in Int, NEW b \in Int, NEW x \in Int, NEW y \in Int,
           x <= a, b <= y
    PROVE  Span(h, a, b) <= Span(h, x, y)
<1>. DEFINE S == Times \cap (x .. y)  T == Times \cap (a .. b)
<1>1. T \in SUBSET S /\ IsFiniteSet(S) /\ \A m \in S : h[m] \in Nat
  BY TimesAreFinite
<1>. HIDE DEF S, T
<1>2. Sum(h, T) <= Sum(h, S)
  BY <1>1, SumSubset
<1>. QED BY <1>2 DEF Span, S, T

LEMMA SpanNone ==
    ASSUME NEW h, NEW a \in Int, NEW b \in Int, \A m \in Times : a <= m /\ m <= b => h[m] = 0
    PROVE  Span(h, a, b) = 0
<1>1. \A m \in Times \cap (a .. b) : h[m] = 0
  OBVIOUS
<1>. QED BY <1>1, SumZero, TimesAreFinite DEF Span

LEMMA SpanSame ==
    ASSUME NEW h, NEW g, NEW a \in Int, NEW b \in Int,
           \A m \in Times : a <= m /\ m <= b => h[m] = g[m]
    PROVE  Span(h, a, b) = Span(g, a, b)
<1>1. \A m \in Times \cap (a .. b) : h[m] = g[m]
  OBVIOUS
<1>. QED BY <1>1, SumEqual, TimesAreFinite DEF Span

\* One more hit, at tick n.
LEMMA SpanBump ==
    ASSUME NEW h \in [Times -> Nat], NEW g, NEW n \in Times, g[n] = h[n] + 1,
           \A m \in Times \ {n} : g[m] = h[m],
           NEW a \in Int, NEW b \in Int, a <= n, n <= b
    PROVE  Span(g, a, b) = Span(h, a, b) + 1
<1>. DEFINE S == Times \cap (a .. b)
<1>1. n \in S /\ IsFiniteSet(S) /\ S \subseteq Times
  BY TimesAreFinite
<1>2. g[n] = h[n] + 1 /\ \A m \in S \ {n} : g[m] = h[m]
  BY <1>1
<1>3. \A m \in S : h[m] \in Nat
  BY <1>1
<1>. HIDE DEF S
<1>4. Sum(g, S) = Sum(h, S) + 1
  BY <1>1, <1>2, <1>3, SumBump
<1>. QED BY <1>4 DEF Span, S

-----------------------------------------------------------------------------
(* The arithmetic of shares: products of variables, and their quotients.   *)

\* The provers know this much of a quotient, and the rest follows from it.
LEMMA Division ==
    ASSUME NEW a \in Nat, NEW b \in Nat \ {0}
    PROVE  a \div b \in Nat /\ b * (a \div b) <= a /\ a < b * (a \div b) + b
OBVIOUS

LEMMA Quotients ==
    ASSUME NEW w \in Nat \ {0}, NEW x \in Int, NEW y \in Int, w * x < w * y
    PROVE  x < y
OBVIOUS

LEMMA Mono ==
    ASSUME NEW w \in Nat, NEW x \in Int, NEW y \in Int, x <= y
    PROVE  w * x <= w * y
OBVIOUS

\* The share of the last window that the counter forgets, rounded down, and the
\* one that is granted for it, rounded up, are together no less than the whole.
LEMMA Rounded ==
    ASSUME NEW W \in Nat \ {0}, NEW A \in Nat, NEW p \in 0..A, NEW d \in 0..W
    PROVE  p <= (p * (W - d)) \div W + (A * d + W - 1) \div W
<1>. DEFINE q == (p * (W - d)) \div W  s == (A * d + W - 1) \div W
<1>1. p * (W - d) \in Nat /\ A * d + W - 1 \in Nat /\ p * d \in Nat /\ A * d \in Nat
  OBVIOUS
<1>2. q \in Nat /\ p * (W - d) < W * q + W
  BY <1>1, Division
<1>3. s \in Nat /\ A * d + W - 1 < W * s + W
  BY <1>1, Division
<1>4. p * d <= A * d
  BY Mono
<1>5. p * (W - d) + p * d = W * p
  OBVIOUS
<1>6. W * q + W * s = W * (q + s) /\ W * (q + s) + W = W * (q + s + 1)
  BY <1>2, <1>3
<1>. HIDE DEF q, s
<1>7. W * p < W * (q + s + 1)
  <2>1. W * s \in Int /\ W * q \in Int /\ W * p \in Int /\ p * (W - d) \in Int
    BY <1>2, <1>3
  <2>. QED BY <1>1, <1>2, <1>3, <1>4, <1>5, <1>6, <2>1
<1>8. p < q + s + 1
  BY <1>7, <1>2, <1>3, Quotients
<1>. QED BY <1>2, <1>3, <1>8 DEF q, s

LEMMA Shrinks ==
    ASSUME NEW W \in Nat \ {0}, NEW p \in Nat, NEW d \in 0..W
    PROVE  (p * (W - d)) \div W \in Nat /\ (p * (W - d)) \div W <= p
<1>. DEFINE q == (p * (W - d)) \div W
<1>1. p * (W - d) \in Nat
  OBVIOUS
<1>2. q \in Nat /\ W * q <= p * (W - d)
  BY <1>1, Division
<1>3. p * (W - d) <= p * W
  BY Mono
<1>. HIDE DEF q
<1>4. W * q < W * (p + 1)
  BY <1>2, <1>3, <1>1
<1>5. q < p + 1
  BY <1>2, <1>4, Quotients
<1>. QED BY <1>2, <1>5 DEF q

LEMMA MoreShare ==
    ASSUME NEW W \in Nat \ {0}, NEW A \in Nat, NEW d \in Nat, NEW e \in Nat, d <= e
    PROVE  (A * d + W - 1) \div W <= (A * e + W - 1) \div W /\ (A * e + W - 1) \div W \in Nat
<1>. DEFINE x == A * d + W - 1  y == A * e + W - 1
<1>1. x \in Nat /\ y \in Nat /\ x <= y
  BY Mono
<1>. HIDE DEF x, y
<1>2. /\ x \div W \in Nat /\ W * (x \div W) <= x
      /\ y \div W \in Nat /\ y < W * (y \div W) + W
  BY <1>1, Division
<1>3. W * (y \div W) + W = W * (y \div W + 1) /\ W * (x \div W) \in Int /\ W * (y \div W + 1) \in Int
  BY <1>2
<1>4. W * (x \div W) < W * (y \div W + 1)
  BY <1>1, <1>2, <1>3
<1>5. x \div W < y \div W + 1
  BY <1>2, <1>4, Quotients
<1>. QED BY <1>2, <1>5 DEF x, y

-----------------------------------------------------------------------------
(* The sliding window counter, against the hits it has counted.  w is a    *)
(* counter for windows of W ticks and A hits, h the history, n the time.   *)

\* Where the two windows of w begin: the earlier one after its first tick (i = 1)
\* or with it, the later one after its first tick (j = 1) or with it.
Covers(w, W, h, i, j) ==
    /\ w.current = Span(h, w.start + j, w.start + W)
    /\ w.previous = Span(h, w.start - W + i, w.start + j - 1)

Counts(w, W, A, h, n) ==
    /\ w \in [start : 0..n, previous : 0..A, current : 0..A]
    /\ \A m \in Times : m > n \/ m > w.start + W => h[m] = 0
    /\ \E i, j \in {0, 1} : w.start + j <= n /\ Covers(w, W, h, i, j)

\* What is stored: it may be long out of date.
Tallies(w, W, A, h, n) ==
    IF w = Fresh THEN \A m \in Times : h[m] = 0 ELSE Counts(w, W, A, h, n)

\* What a hit looks at.
Current(w, W, A, h, n) ==
    IF w = Fresh THEN \A m \in Times : m > n - W => h[m] = 0
                 ELSE n <= w.start + W /\ Counts(w, W, A, h, n)

LEMMA TimePasses ==
    ASSUME NEW w, NEW W, NEW A, NEW h, NEW n \in Nat, NEW m \in Nat, n <= m,
           Tallies(w, W, A, h, n)
    PROVE  Tallies(w, W, A, h, m)
<1>. SUFFICES ASSUME w # Fresh, Counts(w, W, A, h, n)
              PROVE  Counts(w, W, A, h, m)
  BY DEF Tallies
<1>1. w \in [start : 0..m, previous : 0..A, current : 0..A] /\ w.start \in Nat
  BY DEF Counts
<1>2. \A k \in Times : k > m => k > n
  BY TimesAreFinite
<1>. QED BY <1>1, <1>2 DEF Counts

LEMMA Sliding ==
    ASSUME NEW w, NEW W \in Nat \ {0}, NEW A \in Nat, NEW h \in [Times -> Nat], NEW n \in Nat,
           Tallies(w, W, A, h, n)
    PROVE  Current(Slid(w, W, n), W, A, h, n)
<1>. DEFINE v == Slid(w, W, n)
<1>1. CASE w = Fresh
  BY <1>1 DEF Slid, Tallies, Current
<1>. SUFFICES ASSUME w # Fresh
              PROVE  Current(v, W, A, h, n)
  BY <1>1
<1>2. PICK i \in {0, 1}, j \in {0, 1} : w.start + j <= n /\ Covers(w, W, h, i, j)
  BY DEF Tallies, Counts
<1>3. /\ w \in [start : 0..n, previous : 0..A, current : 0..A]
      /\ \A m \in Times : m > n \/ m > w.start + W => h[m] = 0
      /\ w.start \in Nat /\ w.current \in 0..A
  BY DEF Tallies, Counts
<1>4. CASE n >= w.start + 2 * W
  <2>1. v = Fresh
    BY <1>4 DEF Slid
  <2>2. \A m \in Times : m > n - W => m > w.start + W
    BY <1>3, <1>4, TimesAreFinite
  <2>. QED BY <1>3, <2>1, <2>2 DEF Current
<1>5. CASE n < w.start + 2 * W /\ n > w.start + W
  <2>1. v = [start |-> w.start + W, previous |-> w.current, current |-> 0]
    BY <1>3, <1>5 DEF Slid
  <2>2. v.start = w.start + W /\ v.previous = w.current /\ v.current = 0
    BY <2>1
  <2>3. v # Fresh
    BY <1>3, <2>2 DEF Fresh
  <2>4. v \in [start : 0..n, previous : 0..A, current : 0..A]
    BY <1>3, <1>5, <2>1
  <2>5. \A m \in Times : m > n \/ m > v.start + W => h[m] = 0
    BY <1>3, <2>2, TimesAreFinite
  <2>6. Covers(v, W, h, j, 1)
    <3>1. Span(h, v.start + 1, v.start + W) = 0
      BY <1>3, <2>2, SpanNone, TimesAreFinite
    <3>2. v.start - W + j = w.start + j /\ v.start + 1 - 1 = w.start + W
      BY <1>3, <2>2
    <3>. QED BY <1>2, <2>2, <3>1, <3>2 DEF Covers
  <2>7. v.start + 1 <= n /\ n <= v.start + W
    BY <1>3, <1>5, <2>2
  <2>. HIDE DEF v
  <2>8. Counts(v, W, A, h, n)
    BY <2>4, <2>5, <2>6, <2>7 DEF Counts
  <2>. QED BY <2>3, <2>7, <2>8 DEF Current
<1>6. CASE n <= w.start + W
  <2>1. v = w
    BY <1>3, <1>6 DEF Slid
  <2>. QED BY <1>6, <2>1 DEF Current, Tallies
<1>. QED BY <1>3, <1>4, <1>5, <1>6

\* A hit that is granted is counted, in the history too.
LEMMA Counting ==
    ASSUME NEW v, NEW W \in Nat \ {0}, NEW A \in Nat \ {0}, NEW h \in [Times -> Nat],
           NEW n \in Times, Current(v, W, A, h, n), v # Fresh => v.current < A
    PROVE  Tallies(Counted(v, n), W, A, [h EXCEPT ![n] = @ + 1], n)
<1>. DEFINE u == Counted(v, n)  g == [h EXCEPT ![n] = @ + 1]
<1>1. n \in Nat /\ \A m \in Times : m \in Nat
  BY TimesAreFinite
<1>2. \A m \in Times : g[m] = IF m = n THEN h[n] + 1 ELSE h[m]
  OBVIOUS
<1>3. CASE v = Fresh
  <2>1. u = [start |-> n, previous |-> 0, current |-> 1]
    BY <1>3 DEF Counted, Fresh
  <2>2. u.start = n /\ u.previous = 0 /\ u.current = 1 /\ u # Fresh
    BY <2>1 DEF Fresh
  <2>3. \A m \in Times : m > n - W => h[m] = 0
    BY <1>3 DEF Current
  <2>4. Span(h, n, n + W) = 0
    BY <1>1, <2>3, SpanNone
  <2>5. Span(g, n, n + W) = 1
    <3>. DEFINE b == n + W
    <3>1. n \in Int /\ b \in Int /\ n <= n /\ n <= b /\ g[n] = h[n] + 1 /\ \A m \in Times \ {n} : g[m] = h[m]
      BY <1>1
    <3>. HIDE DEF b, g
    <3>2. Span(g, n, b) = Span(h, n, b) + 1
      BY <3>1, SpanBump
    <3>. QED BY <2>4, <3>2 DEF b
  <2>6. Span(g, n - W + 1, n - 1) = 0
    <3>1. \A m \in Times : n - W + 1 <= m /\ m <= n - 1 => g[m] = 0
      BY <1>1, <1>2, <2>3
    <3>. HIDE DEF g
    <3>. QED BY <1>1, <3>1, SpanNone
  <2>7. \A m \in Times : m > n \/ m > n + W => g[m] = 0
    BY <1>1, <1>2, <2>3
  <2>. HIDE DEF u, g
  <2>8. Covers(u, W, g, 1, 0)
    BY <1>1, <2>2, <2>5, <2>6 DEF Covers
  <2>9. u \in [start : 0..n, previous : 0..A, current : 0..A] /\ u.start + 0 <= n
    BY <1>1, <2>1
  <2>10. Counts(u, W, A, g, n)
    BY <2>2, <2>7, <2>8, <2>9 DEF Counts
  <2>. QED BY <2>2, <2>10 DEF Tallies, u, g
<1>4. CASE v # Fresh
  <2>1. PICK i \in {0, 1}, j \in {0, 1} : v.start + j <= n /\ Covers(v, W, h, i, j)
    BY <1>4 DEF Current, Counts
  <2>2. /\ v \in [start : 0..n, previous : 0..A, current : 0..A]
        /\ \A m \in Times : m > n \/ m > v.start + W => h[m] = 0
        /\ n <= v.start + W /\ v.start \in Nat /\ v.current \in Nat
    BY <1>4 DEF Current, Counts
  <2>3. u = [v EXCEPT !.current = @ + 1]
    BY <1>4 DEF Counted
  <2>4. /\ u \in [start : 0..n, previous : 0..A, current : 0..A]
        /\ u.start = v.start /\ u.previous = v.previous /\ u.current = v.current + 1
    BY <1>4, <2>2, <2>3
  <2>5. u # Fresh
    BY <2>2, <2>4 DEF Fresh
  <2>6. Span(g, v.start + j, v.start + W) = Span(h, v.start + j, v.start + W) + 1
    <3>1. /\ v.start + j \in Int /\ v.start + W \in Int /\ v.start + j <= n /\ n <= v.start + W
          /\ g[n] = h[n] + 1 /\ \A m \in Times \ {n} : g[m] = h[m]
      BY <1>1, <2>1, <2>2
    <3>. HIDE DEF g
    <3>. QED BY <3>1, SpanBump
  <2>7. Span(g, v.start - W + i, v.start + j - 1) = Span(h, v.start - W + i, v.start + j - 1)
    <3>1. \A m \in Times : v.start - W + i <= m /\ m <= v.start + j - 1 => g[m] = h[m]
      BY <1>1, <1>2, <2>1, <2>2
    <3>. HIDE DEF g
    <3>. QED BY <2>2, <3>1, SpanSame
  <2>8. \A m \in Times : m > n \/ m > u.start + W => g[m] = 0
    BY <1>1, <1>2, <2>2, <2>4
  <2>. HIDE DEF u, g
  <2>9. Covers(u, W, g, i, j) /\ u.start + j <= n
    BY <2>1, <2>4, <2>6, <2>7 DEF Covers
  <2>10. Counts(u, W, A, g, n)
    BY <2>4, <2>8, <2>9 DEF Counts
  <2>. QED BY <2>5, <2>10 DEF Tallies, u, g
<1>. QED BY <1>3, <1>4

\* What a hit finds before it: the two windows together, and nothing later.
LEMMA InSight ==
    ASSUME NEW v, NEW W \in Nat \ {0}, NEW A \in Nat \ {0}, NEW h \in [Times -> Nat],
           NEW n \in Times, Current(v, W, A, h, n), v # Fresh, NEW a \in Int
    PROVE  /\ v.start \in Nat /\ v.start <= n /\ n <= v.start + W
           /\ v.previous \in 0..A /\ v.current \in 0..A
           /\ \A m \in Times : m > n => h[m] = 0
           /\ a > v.start => Span(h, a, n) <= v.current
           /\ a > v.start - W => Span(h, a, n) <= v.previous + v.current
           /\ a <= v.start => v.current <= Span(h, a, n)
           /\ a <= v.start - W => v.previous + v.current <= Span(h, a, n)
<1>1. n \in Nat /\ \A m \in Times : m \in Nat
  BY TimesAreFinite
<1>2. /\ v.start \in Nat /\ v.start <= n /\ n <= v.start + W
      /\ v.previous \in 0..A /\ v.current \in 0..A
      /\ \A m \in Times : m > n => h[m] = 0
  BY <1>1 DEF Current, Counts
<1>3. PICK i \in {0, 1}, j \in {0, 1} : v.start + j <= n /\ Covers(v, W, h, i, j)
  BY DEF Current, Counts
<1>. DEFINE x == v.start - W + i  y == v.start + j  z == v.start + W
<1>4. /\ x \in Int /\ y \in Int /\ z \in Int /\ y - 1 \in Int /\ (y - 1) + 1 = y
      /\ x <= y /\ y <= n /\ n <= z /\ v.start <= y /\ y <= v.start + 1 /\ v.start - W <= x
      /\ x <= v.start - W + 1 /\ y - 1 <= z /\ n + 1 \in Int
  BY <1>1, <1>2, <1>3
<1>5. v.current = Span(h, y, z) /\ v.previous = Span(h, x, y - 1)
  <2>1. v.start + j - 1 = y - 1
    BY <1>2
  <2>. QED BY <1>3, <2>1 DEF Covers
<1>. HIDE DEF x, y, z
<1>6. Span(h, x, z) = v.previous + v.current
  BY <1>4, <1>5, SpanCut
<1>7. ASSUME NEW b \in Int, b <= n
      PROVE  Span(h, b, z) = Span(h, b, n) /\ Span(h, b, n) \in Nat
  <2>1. Span(h, b, z) = Span(h, b, n) + Span(h, n + 1, z)
    BY <1>1, <1>4, <1>7, SpanCut
  <2>2. \A m \in Times : n + 1 <= m /\ m <= z => h[m] = 0
    BY <1>1, <1>2
  <2>3. Span(h, n + 1, z) = 0
    BY <1>4, <2>2, SpanNone
  <2>4. Span(h, b, n) \in Nat
    BY <1>1, SpanType
  <2>. QED BY <2>1, <2>3, <2>4
<1>8. Span(h, y, n) = v.current /\ Span(h, x, n) = v.previous + v.current
  <2>1. Span(h, y, z) = Span(h, y, n)
    BY <1>4, <1>7
  <2>2. x <= n
    BY <1>1, <1>4
  <2>3. Span(h, x, z) = Span(h, x, n)
    BY <1>4, <1>7, <2>2
  <2>. QED BY <1>5, <1>6, <2>1, <2>3
<1>9. ASSUME NEW b \in Int, NEW e \in Int, b <= e
      PROVE  Span(h, e, n) <= Span(h, b, n)
  BY <1>1, <1>9, SpanWithin
<1>10. a > v.start => Span(h, a, n) <= v.current
  BY <1>2, <1>4, <1>8, <1>9
<1>11. a > v.start - W => Span(h, a, n) <= v.previous + v.current
  BY <1>2, <1>4, <1>8, <1>9
<1>12. a <= v.start => v.current <= Span(h, a, n)
  BY <1>2, <1>4, <1>8, <1>9
<1>13. a <= v.start - W => v.previous + v.current <= Span(h, a, n)
  BY <1>2, <1>4, <1>8, <1>9
<1>. QED BY <1>2, <1>10, <1>11, <1>12, <1>13

\* The bound on bursts survives a hit that is granted: of the hits since "a",
\* which is less than a window ago, either all are in the current window, or the
\* previous one still counts with what the time since then has left of it.
LEMMA Bursts ==
    ASSUME NEW v, NEW W \in Nat \ {0}, NEW A \in Nat \ {0}, NEW h \in [Times -> Nat],
           NEW n \in Times, Current(v, W, A, h, n), v # Fresh => Weighted(v, W, n) < A,
           NEW a \in Times, NEW more \in 0 .. W - 1,
           Span(h, a, a + more) <= A + (A * more + W - 1) \div W
    PROVE  Span([h EXCEPT ![n] = @ + 1], a, a + more) <= A + (A * more + W - 1) \div W
<1>. DEFINE g == [h EXCEPT ![n] = @ + 1]  b == a + more
            share(d) == (A * d + W - 1) \div W
<1>1. n \in Nat /\ a \in Nat /\ more \in Nat /\ b \in Nat /\ \A m \in Times : m \in Nat
  BY TimesAreFinite
<1>2. share(more) \in Nat
  BY <1>1, MoreShare
<1>3. CASE ~ (a <= n /\ n <= b)
  <2>1. \A m \in Times : a <= m /\ m <= b => g[m] = h[m]
    BY <1>3
  <2>. HIDE DEF g, b
  <2>2. Span(g, a, b) = Span(h, a, b)
    BY <1>1, <2>1, SpanSame
  <2>. QED BY <2>2 DEF g, b
<1>4. CASE a <= n /\ n <= b
  <2>1. n - W < a /\ more < W
    BY <1>1, <1>4
  <2>2. Span(g, a, b) = Span(h, a, b) + 1
    <3>. HIDE DEF b
    <3>1. a \in Int /\ b \in Int /\ a <= n /\ n <= b /\ g[n] = h[n] + 1 /\ \A m \in Times \ {n} : g[m] = h[m]
      BY <1>1, <1>4
    <3>. HIDE DEF g
    <3>. QED BY <3>1, SpanBump
  <2>3. CASE v = Fresh
    <3>1. \A m \in Times : a <= m /\ m <= b => h[m] = 0
      BY <1>1, <2>1, <2>3 DEF Current
    <3>. HIDE DEF b, g
    <3>2. Span(h, a, b) = 0
      BY <1>1, <3>1, SpanNone
    <3>. HIDE DEF share
    <3>3. Span(g, a, b) <= A + share(more)
      BY <1>2, <2>2, <3>2
    <3>. QED BY <3>3 DEF b, g, share
  <2>4. CASE v # Fresh
    <3>1. /\ v.start \in Nat /\ v.start <= n /\ n <= v.start + W
          /\ v.previous \in 0..A /\ v.current \in 0..A
          /\ \A m \in Times : m > n => h[m] = 0
          /\ a > v.start => Span(h, a, n) <= v.current
          /\ a > v.start - W => Span(h, a, n) <= v.previous + v.current
      BY <1>1, <2>4, InSight
    <3>. DEFINE d == n - v.start  q == (v.previous * (W - d)) \div W
    <3>2. d \in 0..W /\ v.start + W - n = W - d
      BY <1>1, <3>1
    <3>3. q \in Nat /\ q + v.current < A
      <4>1. q \in Nat
        <5>. HIDE DEF d
        <5>. QED BY <3>1, <3>2, Shrinks
      <4>. QED BY <2>4, <3>2, <4>1 DEF Weighted
    <3>4. Span(h, a, b) = Span(h, a, n) /\ Span(h, a, n) \in Nat
      <4>1. \A m \in Times : n + 1 <= m /\ m <= b => h[m] = 0
        BY <1>1, <3>1
      <4>. HIDE DEF b
      <4>2. Span(h, n + 1, b) = 0
        BY <1>1, <4>1, SpanNone
      <4>3. Span(h, a, b) = Span(h, a, n) + Span(h, n + 1, b)
        BY <1>1, <1>4, SpanCut
      <4>4. Span(h, a, n) \in Nat
        BY <1>1, SpanType
      <4>. QED BY <4>2, <4>3, <4>4
    <3>5. Span(h, a, n) + 1 <= A + share(more)
      <4>1. CASE a > v.start
        <5>. HIDE DEF share
        <5>. QED BY <1>2, <3>1, <3>3, <3>4, <4>1
      <4>2. CASE a <= v.start
        <5>1. a > v.start - W
          BY <1>1, <2>1, <3>1
        <5>2. d <= more
          BY <1>1, <1>4, <3>1, <4>2
        <5>. HIDE DEF d
        <5>3. v.previous <= q + share(d)
          BY <3>1, <3>2, Rounded
        <5>4. share(d) <= share(more) /\ share(d) \in Nat
          BY <1>1, <3>2, <5>2, MoreShare
        <5>. HIDE DEF share, q
        <5>. QED BY <1>2, <3>1, <3>3, <3>4, <5>1, <5>3, <5>4
      <4>. QED BY <1>1, <3>1, <4>1, <4>2
    <3>. HIDE DEF share, b, g
    <3>6. Span(g, a, b) <= A + share(more)
      BY <1>2, <2>2, <3>4, <3>5
    <3>. QED BY <3>6 DEF share, b, g
  <2>. QED BY <2>3, <2>4
<1>. QED BY <1>3, <1>4

\* Who is refused is in two windows that hold the amount, or at the end of one
\* that does.
LEMMA Spent ==
    ASSUME NEW v, NEW W \in Nat \ {0}, NEW A \in Nat \ {0}, NEW h \in [Times -> Nat],
           NEW n \in Times, Current(v, W, A, h, n), ~ (Weighted(v, W, n) < A)
    PROVE  v # Fresh /\ Span(h, n - 2 * W + 1, n) >= A
<1>1. n \in Nat
  BY TimesAreFinite
<1>2. v # Fresh
  <2>. SUFFICES ASSUME v = Fresh PROVE FALSE
    OBVIOUS
  <2>1. v.previous = 0 /\ v.current = 0 /\ v.start = 0
    BY DEF Fresh
  <2>2. v.previous * (v.start + W - n) = 0
    BY <1>1, <2>1
  <2>3. Weighted(v, W, n) = 0
    BY <2>1, <2>2 DEF Weighted
  <2>. QED BY <2>3
<1>. DEFINE a == n - 2 * W + 1  d == n - v.start  q == (v.previous * (W - d)) \div W
<1>3. a \in Int
  BY <1>1
<1>4. /\ v.start \in Nat /\ v.start <= n /\ n <= v.start + W
      /\ v.previous \in 0..A /\ v.current \in 0..A
      /\ a <= v.start => v.current <= Span(h, a, n)
      /\ a <= v.start - W => v.previous + v.current <= Span(h, a, n)
  <2>. HIDE DEF a
  <2>. QED BY <1>2, <1>3, InSight
<1>5. d \in 0..W /\ v.start + W - n = W - d
  BY <1>1, <1>4
<1>6. q + v.current >= A /\ q \in Nat /\ q <= v.previous
  <2>1. q \in Nat /\ q <= v.previous
    <3>. HIDE DEF d
    <3>. QED BY <1>4, <1>5, Shrinks
  <2>2. q + v.current = Weighted(v, W, n)
    BY <1>5 DEF Weighted
  <2>. HIDE DEF q
  <2>. QED BY <1>4, <2>1, <2>2
<1>7. Span(h, a, n) \in Nat
  BY <1>1, <1>3, SpanType
<1>8. CASE d = W
  <2>1. v.previous * (W - d) = 0
    <3>. HIDE DEF d
    <3>. QED BY <1>4, <1>8
  <2>2. q = 0
    BY <2>1
  <2>3. a <= v.start
    BY <1>1, <1>4, <1>8
  <2>. HIDE DEF a, q
  <2>4. Span(h, a, n) >= A
    BY <1>4, <1>6, <1>7, <2>2, <2>3
  <2>. QED BY <1>2, <2>4 DEF a
<1>9. CASE d < W
  <2>1. a <= v.start - W
    BY <1>1, <1>4, <1>9
  <2>. HIDE DEF a, q
  <2>2. Span(h, a, n) >= A
    BY <1>4, <1>6, <1>7, <2>1
  <2>. QED BY <1>2, <2>2 DEF a
<1>. QED BY <1>5, <1>8, <1>9

-----------------------------------------------------------------------------
(* What a request has paid for, and what is to come.                       *)

Ops == {"login", "read", "write", "list"}

Parts == Categories \cup {"csrf"}

\* A limit of the path of op that is neither paid nor to come is none.
PaidOrToCome(op, rest, consumed) ==
    \A i \in DOMAIN Path(op) : Path(op)[i] \in Categories =>
        \/ Path(op)[i] \in consumed
        \/ \E j \in 1..Len(rest) : rest[j] = Path(op)[i]

\* Each request has paid its limits, or has them before it; the one whose hit
\* was granted, and whose headers are fetched, it has paid.
Progress(t) ==
    /\ asked[t] # None => req[t] # None /\ left[t] # <<>> /\ Head(left[t]) \in Categories
    /\ req[t] # None =>
        /\ req[t].op \in Ops
        /\ PaidOrToCome(req[t].op, left[t], paid[t])
        /\ asked[t] = TRUE => Head(left[t]) \in paid[t]

PInv ==
    /\ req \in [Tasks -> Requests \cup {None}]
    /\ left \in [Tasks -> Seq(Parts)]
    /\ asked \in [Tasks -> BOOLEAN \cup {None}]
    /\ paid \in [Tasks -> SUBSET Categories]
    /\ \A t \in Tasks : Progress(t)

\* A path is a sequence of limits and checks.
LEMMA Paths == \A op \in Ops : Path(op) \in Seq(Parts)
<1>. SUFFICES ASSUME NEW op \in Ops
              PROVE  Path(op) \in Seq(Parts)
  OBVIOUS
<1>. USE DEF Parts, Categories, LoginCategories
<1>1. CASE op = "login"
  BY <1>1 DEF Path
<1>2. CASE op = "read"
  BY <1>2 DEF Path
<1>3. CASE op = "write"
  BY <1>3 DEF Path
<1>4. CASE op = "list"
  BY <1>4 DEF Path
<1>. QED BY <1>1, <1>2, <1>3, <1>4 DEF Ops

\* What has been passed can be forgotten.
LEMMA Passed ==
    ASSUME NEW op \in Ops, NEW rest \in Seq(Parts), rest # <<>>, NEW consumed,
           PaidOrToCome(op, rest, consumed), Head(rest) \in Categories => Head(rest) \in consumed
    PROVE  Tail(rest) \in Seq(Parts) /\ PaidOrToCome(op, Tail(rest), consumed)
<1>1. /\ Tail(rest) \in Seq(Parts) /\ Len(rest) \in Nat \ {0} /\ Len(Tail(rest)) = Len(rest) - 1
      /\ Head(rest) = rest[1]
      /\ \A i \in 1..Len(Tail(rest)) : Tail(rest)[i] = rest[i + 1]
  BY HeadTailProperties
<1>2. ASSUME NEW part \in Categories, part \notin consumed, NEW j \in 1..Len(rest), rest[j] = part
      PROVE  \E k \in 1..Len(Tail(rest)) : Tail(rest)[k] = part
  <2>1. j # 1
    BY <1>1, <1>2
  <2>2. j - 1 \in 1..Len(Tail(rest)) /\ (j - 1) + 1 = j
    BY <1>1, <2>1
  <2>. QED BY <1>1, <1>2, <2>2
<1>. QED BY <1>1, <1>2 DEF PaidOrToCome

\* A request that is over leaves nothing.
LEMMA EndStep ==
    ASSUME PInv, NEW t \in Tasks, End(t)
    PROVE  PInv'
<1>1. /\ req' = [req EXCEPT ![t] = None] /\ left' = [left EXCEPT ![t] = <<>>]
      /\ asked' = [asked EXCEPT ![t] = None] /\ paid' = [paid EXCEPT ![t] = {}]
  BY DEF End
<1>2. \A u \in Tasks : Progress(u)'
  <2>1. Progress(t)'
    BY <1>1 DEF PInv, Progress
  <2>2. ASSUME NEW u \in Tasks \ {t}
        PROVE  Progress(u)'
    <3>1. req'[u] = req[u] /\ left'[u] = left[u] /\ asked'[u] = asked[u] /\ paid'[u] = paid[u]
      BY <1>1 DEF PInv
    <3>. QED BY <3>1 DEF PInv, Progress
  <2>. QED BY <2>1, <2>2
<1>. QED BY <1>1, <1>2, EmptySeq DEF PInv

\* The next part of the path, which is paid for if it is a limit.
LEMMA TailStep ==
    ASSUME PInv, NEW t \in Tasks, req[t] # None, left[t] # <<>>,
           Head(left[t]) \in Categories => Head(left[t]) \in paid[t],
           left' = [left EXCEPT ![t] = Tail(@)], asked' = [asked EXCEPT ![t] = None],
           UNCHANGED <<req, paid>>
    PROVE  PInv'
<1>1. Tail(left[t]) \in Seq(Parts) /\ PaidOrToCome(req[t].op, Tail(left[t]), paid[t])
  BY Passed DEF PInv, Progress
<1>2. Progress(t)'
  BY <1>1, NoneIsNothing DEF PInv, Progress
<1>3. ASSUME NEW u \in Tasks \ {t}
      PROVE  Progress(u)'
  <2>1. req'[u] = req[u] /\ left'[u] = left[u] /\ asked'[u] = asked[u] /\ paid'[u] = paid[u]
    BY DEF PInv
  <2>. QED BY <2>1 DEF PInv, Progress
<1>. QED BY <1>1, <1>2, <1>3 DEF PInv

LEMMA BeginStep ==
    ASSUME PInv, NEW t \in Tasks, Begin(t)
    PROVE  PInv'
<1>1. PICK r \in Requests :
        /\ req[t] = None /\ req' = [req EXCEPT ![t] = r]
        /\ left' = [left EXCEPT ![t] = Path(r.op)]
        /\ UNCHANGED <<asked, paid>>
  BY DEF Begin
<1>2. r.op \in Ops
  BY DEF Requests, Ops
<1>3. Path(r.op) \in Seq(Parts) /\ DOMAIN Path(r.op) = 1..Len(Path(r.op))
  BY <1>2, Paths, LenProperties
<1>4. PaidOrToCome(r.op, Path(r.op), paid[t])
  BY <1>3 DEF PaidOrToCome
<1>5. Progress(t)'
  <2>1. asked[t] = None
    BY <1>1 DEF PInv, Progress
  <2>2. req'[t] = r /\ left'[t] = Path(r.op) /\ asked'[t] = None /\ paid'[t] = paid[t]
    BY <1>1, <1>3, <2>1 DEF PInv
  <2>. QED BY <1>2, <1>4, <2>2, NoneIsNothing DEF Progress
<1>6. ASSUME NEW u \in Tasks \ {t}
      PROVE  Progress(u)'
  <2>1. req'[u] = req[u] /\ left'[u] = left[u] /\ asked'[u] = asked[u] /\ paid'[u] = paid[u]
    BY <1>1 DEF PInv
  <2>. QED BY <2>1 DEF PInv, Progress
<1>. QED BY <1>1, <1>3, <1>5, <1>6 DEF PInv

LEMMA HitStep ==
    ASSUME PInv, NEW t \in Tasks, Hit(t)
    PROVE  PInv'
<1>. DEFINE category == Head(left[t])
            granted == Granted(Slid(counter[RateKey(category, req[t])], Window[category], now),
                               category, now)
<1>1. /\ req[t] # None /\ left[t] # <<>> /\ category \in Categories
      /\ asked' = [asked EXCEPT ![t] = granted]
      /\ paid' = IF granted THEN [paid EXCEPT ![t] = @ \cup {category}] ELSE paid
      /\ UNCHANGED <<req, left>>
  BY DEF Hit, Comes
<1>2. granted \in BOOLEAN
  BY DEF Granted
<1>. HIDE DEF granted
<1>3. /\ asked'[t] = granted /\ asked' \in [Tasks -> BOOLEAN \cup {None}]
      /\ \A u \in Tasks \ {t} : asked'[u] = asked[u]
  BY <1>1, <1>2 DEF PInv
<1>4. /\ paid' \in [Tasks -> SUBSET Categories] /\ paid[t] \subseteq paid'[t]
      /\ granted = TRUE => category \in paid'[t]
      /\ \A u \in Tasks \ {t} : paid'[u] = paid[u]
  BY <1>1 DEF PInv
<1>5. PaidOrToCome(req[t].op, left[t], paid'[t])
  BY <1>1, <1>4 DEF PInv, Progress, PaidOrToCome
<1>6. Progress(t)'
  BY <1>1, <1>3, <1>4, <1>5 DEF PInv, Progress
<1>7. ASSUME NEW u \in Tasks \ {t}
      PROVE  Progress(u)'
  <2>1. req'[u] = req[u] /\ left'[u] = left[u] /\ asked'[u] = asked[u] /\ paid'[u] = paid[u]
    BY <1>1, <1>3, <1>4 DEF PInv
  <2>. QED BY <2>1 DEF PInv, Progress
<1>. QED BY <1>1, <1>3, <1>4, <1>6, <1>7 DEF PInv

\* A step of any task keeps it.
LEMMA Inductive == PInv /\ [Next]_vars => PInv'
<1>. SUFFICES ASSUME PInv, [Next]_vars
              PROVE  PInv'
  OBVIOUS
<1>1. CASE UNCHANGED <<req, left, asked, paid>>
  BY <1>1 DEF PInv, Progress
<1>2. ASSUME NEW t \in Tasks, Validate(t)
      PROVE  PInv'
  <2>1. req[t] # None /\ left[t] # <<>> /\ Head(left[t]) = "csrf" /\ "csrf" \notin Categories
    BY <1>2 DEF Validate, Comes, Categories, LoginCategories
  <2>2. CASE left' = [left EXCEPT ![t] = Tail(@)] /\ UNCHANGED <<req, asked, paid>>
    <3>1. asked[t] = None
      BY <2>1 DEF PInv, Progress
    <3>2. asked' = [asked EXCEPT ![t] = None]
      BY <2>2, <3>1 DEF PInv
    <3>. QED BY <2>1, <2>2, <3>2, TailStep
  <2>. QED BY <1>2, <2>2, EndStep DEF Validate
<1>3. ASSUME NEW t \in Tasks, Stats(t)
      PROVE  PInv'
  <2>1. /\ req[t] # None /\ left[t] # <<>> /\ asked[t] \in BOOLEAN
        /\ asked[t] = TRUE => Head(left[t]) \in paid[t]
    BY <1>3 DEF Stats, Comes, PInv, Progress
  <2>. QED BY <1>3, <2>1, EndStep, TailStep DEF Stats
<1>4. ASSUME NEW t \in Tasks, Begin(t) \/ Hit(t) \/ RedisFails(t) \/ Serve(t)
      PROVE  PInv'
  BY <1>4, BeginStep, HitStep, EndStep DEF RedisFails, Serve
<1>. QED BY <1>1, <1>2, <1>3, <1>4 DEF Next, Tick, vars

LEMMA ProgressStart == Init => PInv
BY EmptySeq DEF Init, PInv, Progress

\* Nothing is served before it has been counted under every limit of its
\* route, whatever hits and headers of other requests, failures of Redis and
\* checks come between: RateLimiter.check fails closed.
THEOREM NoFreeService == Spec => []ServedHasPaid
<1>2. PInv => ServedHasPaid
  <2>. SUFFICES ASSUME PInv, NEW t \in Tasks, req[t] # None, left[t] = <<>>,
                       NEW i \in DOMAIN Path(req[t].op), Path(req[t].op)[i] \in Categories
                PROVE  Path(req[t].op)[i] \in paid[t]
    BY DEF ServedHasPaid
  <2>1. Len(left[t]) = 0
    OBVIOUS
  <2>2. PaidOrToCome(req[t].op, left[t], paid[t])
    BY DEF PInv, Progress
  <2>. QED BY <2>1, <2>2 DEF PaidOrToCome
<1>. QED BY <1>2, ProgressStart, Inductive, PTL DEF Spec

-----------------------------------------------------------------------------
(* The counters tell what the history knows.                               *)

Windows == [start : Nat, previous : Nat, current : Nat]

\* What is still to be counted for a request is counted for a subject.
Addressed(t) == req[t] # None =>
    \A j \in 1..Len(left[t]) : left[t][j] \in Categories =>
        Subject(left[t][j], req[t]) \in Subjects[left[t][j]]

Tallied(c, s) == Tallies(counter[<<c, s>>], Window[c], Amount[c], hits[<<c, s>>], now)

\* HitsAreBounded, also from ticks without a hit.
Bounded(c, s) ==
    \A first \in Times : \A more \in 0 .. Window[c] - 1 :
        Span(hits[<<c, s>>], first, first + more) <= Amount[c] + Share(c, more)

CInv ==
    /\ PInv
    /\ now \in Times
    /\ counter \in [Keys -> Windows]
    /\ \A k \in Keys \ Limited : counter[k] = Fresh
    /\ hits \in [Limited -> [Times -> Nat]]
    /\ \A t \in Tasks : Addressed(t)
    /\ \A c \in Categories : \A s \in Subjects[c] : Tallied(c, s) /\ Bounded(c, s)

\* The categories are keys of Subjects, and each of their subjects has a key.
LEMMA SubjectKeys ==
    \A c \in Categories : /\ Amount[c] \in Nat \ {0} /\ Window[c] \in Nat \ {0}
                          /\ \A s \in Subjects[c] : <<c, s>> \in Limited /\ <<c, s>> \in Keys
<1>. SUFFICES ASSUME NEW c \in Categories
              PROVE  /\ Amount[c] \in Nat \ {0} /\ Window[c] \in Nat \ {0}
                     /\ \A s \in Subjects[c] : <<c, s>> \in Limited /\ <<c, s>> \in Keys
  OBVIOUS
<1>1. Amount[c] \in Nat \ {0} /\ Window[c] \in Nat \ {0}
  BY LimitsArePositive
<1>2. Subjects[c] \subseteq Addresses \cup Accounts \cup Users
  BY DEF Subjects
<1>3. \A s \in Subjects[c] : <<c, s>> \in {c} \X Subjects[c]
  OBVIOUS
<1>4. \A s \in Subjects[c] : <<c, s>> \in Limited
  BY <1>3 DEF Limited
<1>5. \A s \in Subjects[c] : <<c, s>> \in Keys
  BY <1>2 DEF Keys
<1>. QED BY <1>1, <1>4, <1>5

LEMMA LimitedKeys ==
    ASSUME NEW x \in Limited
    PROVE  \E c \in Categories : \E s \in Subjects[c] : x = <<c, s>>
BY DEF Limited

LEMMA PathSubjects ==
    ASSUME NEW r \in Requests, NEW j \in DOMAIN Path(r.op), Path(r.op)[j] \in Categories
    PROVE  Subject(Path(r.op)[j], r) \in Subjects[Path(r.op)[j]]
<1>. USE DEF Subject, Subjects, Categories, LoginCategories
<1>1. CASE r \in [op : {"login"}, address : Addresses, name : Names]
  <2>1. r.op = "login" /\ r.address \in Addresses /\ r.name \in Names /\ Normal[r.name] \in Accounts
    BY <1>1, NamesHaveAccounts
  <2>2. Path(r.op)[j] = "login.ip" \/ Path(r.op)[j] = "login.account"
    BY <2>1 DEF Path
  <2>. QED BY <2>1, <2>2
<1>2. CASE r \in [op : {"read", "write", "list"}, user : Users]
  <2>1. r.op \in {"read", "write", "list"} /\ r.user \in Users
    BY <1>2
  <2>2. Path(r.op)[j] \in {"auth.general", "csrf", "list.expensive"}
    BY <2>1 DEF Path
  <2>. QED BY <2>1, <2>2
<1>. QED BY <1>1, <1>2 DEF Requests

\* A hit: v is what Redis decides on.
HitOn(t, c, s, v, granted) ==
    /\ c = Head(left[t]) /\ s = Subject(c, req[t]) /\ asked[t] = None
    /\ v = Slid(counter[<<c, s>>], Window[c], now)
    /\ Current(v, Window[c], Amount[c], hits[<<c, s>>], now)
    /\ granted \in BOOLEAN /\ granted = (Weighted(v, Window[c], now) < Amount[c])
    /\ counter' = [counter EXCEPT ![<<c, s>>] = IF granted THEN Counted(v, now) ELSE v]
    /\ hits' = IF granted THEN [hits EXCEPT ![<<c, s>>][now] = @ + 1] ELSE hits
    /\ asked' = [asked EXCEPT ![t] = granted]
    /\ paid' = IF granted THEN [paid EXCEPT ![t] = @ \cup {c}] ELSE paid
    /\ UNCHANGED <<now, req, left>>

LEMMA HitLooks ==
    ASSUME CInv, NEW t \in Tasks, Hit(t)
    PROVE  \E c \in Categories : \E s \in Subjects[c] : \E v : \E granted : HitOn(t, c, s, v, granted)
<1>. DEFINE c == Head(left[t])  s == Subject(c, req[t])
            v == Slid(counter[<<c, s>>], Window[c], now)
            granted == Weighted(v, Window[c], now) < Amount[c]
<1>1. req[t] # None /\ left[t] # <<>> /\ c \in Categories /\ asked[t] = None
  BY DEF Hit, Comes
<1>2. left[t] \in Seq(Parts)
  BY DEF CInv, PInv
<1>3. 1 \in 1..Len(left[t]) /\ left[t][1] = c
  BY <1>1, <1>2, HeadTailProperties
<1>4. s \in Subjects[c]
  BY <1>1, <1>3 DEF CInv, Addressed
<1>5. RateKey(c, req[t]) = <<c, s>>
  BY DEF RateKey, Subject
<1>6. /\ counter' = [counter EXCEPT ![<<c, s>>] = IF granted THEN Counted(v, now) ELSE v]
      /\ hits' = IF granted THEN [hits EXCEPT ![<<c, s>>][now] = @ + 1] ELSE hits
      /\ asked' = [asked EXCEPT ![t] = granted]
      /\ paid' = IF granted THEN [paid EXCEPT ![t] = @ \cup {c}] ELSE paid
      /\ UNCHANGED <<now, req, left>>
  BY <1>5 DEF Hit, Granted
<1>7. Current(v, Window[c], Amount[c], hits[<<c, s>>], now)
  <2>1. Tallies(counter[<<c, s>>], Window[c], Amount[c], hits[<<c, s>>], now)
    BY <1>1, <1>4 DEF CInv, Tallied
  <2>2. hits[<<c, s>>] \in [Times -> Nat] /\ now \in Nat /\ Window[c] \in Nat \ {0} /\ Amount[c] \in Nat
    BY <1>1, <1>4, SubjectKeys, TimesAreFinite DEF CInv
  <2>. QED BY <2>1, <2>2, Sliding
<1>8. granted \in BOOLEAN
  OBVIOUS
<1>. HIDE DEF c, s, v, granted
<1>9. HitOn(t, c, s, v, granted)
  BY <1>1, <1>6, <1>7, <1>8 DEF HitOn, c, s, v, granted
<1>. QED BY <1>1, <1>4, <1>9

\* What Redis keeps of a hit is what the history keeps.
LEMMA CountStep ==
    ASSUME CInv, NEW t \in Tasks, NEW c \in Categories, NEW s \in Subjects[c], NEW v, NEW granted,
           HitOn(t, c, s, v, granted)
    PROVE  /\ counter' \in [Keys -> Windows]
           /\ \A k \in Keys \ Limited : counter'[k] = Fresh
           /\ hits' \in [Limited -> [Times -> Nat]]
           /\ \A d \in Categories : \A z \in Subjects[d] : Tallied(d, z)' /\ Bounded(d, z)'
<1>. DEFINE key == <<c, s>>  W == Window[c]  A == Amount[c]  h == hits[key]
            u == IF granted THEN Counted(v, now) ELSE v
            g == IF granted THEN [h EXCEPT ![now] = @ + 1] ELSE h
<1>1. /\ key \in Keys /\ key \in Limited /\ W \in Nat \ {0} /\ A \in Nat \ {0}
      /\ h \in [Times -> Nat] /\ now \in Times /\ now \in Nat
  BY SubjectKeys, TimesAreFinite DEF CInv
<1>2. /\ Current(v, W, A, h, now) /\ granted = (Weighted(v, W, now) < A) /\ granted \in BOOLEAN
      /\ counter' = [counter EXCEPT ![key] = u]
      /\ hits' = IF granted THEN [hits EXCEPT ![key][now] = @ + 1] ELSE hits
      /\ now' = now
  BY DEF HitOn
<1>3. v \in Windows
  <2>1. CASE v = Fresh
    BY <2>1 DEF Windows, Fresh
  <2>2. CASE v # Fresh
    <3>1. v \in [start : 0..now, previous : 0..A, current : 0..A]
      BY <1>2, <2>2 DEF Current, Counts
    <3>. QED BY <1>1, <3>1 DEF Windows
  <2>. QED BY <2>1, <2>2
<1>4. Counted(v, now) \in Windows
  <2>1. CASE v = Fresh
    <3>1. Counted(v, now) = [start |-> now, previous |-> 0, current |-> 1]
      BY <2>1 DEF Counted, Fresh
    <3>. QED BY <1>1, <3>1 DEF Windows
  <2>2. CASE v # Fresh
    <3>1. Counted(v, now) = [v EXCEPT !.current = @ + 1]
      BY <2>2 DEF Counted
    <3>. QED BY <1>3, <3>1 DEF Windows
  <2>. QED BY <2>1, <2>2
<1>5. g \in [Times -> Nat]
  BY <1>1
<1>6. hits' = [hits EXCEPT ![key] = g]
  BY <1>1, <1>2 DEF CInv
<1>7. Tallies(u, W, A, g, now) /\ \A a \in Times : \A more \in 0 .. W - 1 :
            Span(g, a, a + more) <= A + (A * more + W - 1) \div W
  <2>0. \A a \in Times : \A more \in 0 .. W - 1 :
            Span(h, a, a + more) <= A + (A * more + W - 1) \div W
    BY DEF CInv, Bounded, Share
  <2>1. CASE granted
    <3>1. Weighted(v, W, now) < A
      BY <1>2, <2>1
    <3>2. v # Fresh => v.current < A
      <4>. SUFFICES ASSUME v # Fresh PROVE v.current < A
        OBVIOUS
      <4>1. /\ v.start \in Nat /\ v.start <= now /\ now <= v.start + W
            /\ v.previous \in 0..A /\ v.current \in 0..A
        BY <1>1, <1>2 DEF Current, Counts
      <4>. DEFINE d == now - v.start
      <4>2. d \in 0..W /\ v.start + W - now = W - d
        BY <1>1, <4>1
      <4>3. Weighted(v, W, now) = (v.previous * (W - d)) \div W + v.current
        BY <4>2 DEF Weighted
      <4>. HIDE DEF d, W
      <4>4. (v.previous * (W - d)) \div W \in Nat
        BY <1>1, <4>1, <4>2, Shrinks
      <4>. QED BY <1>1, <3>1, <4>1, <4>3, <4>4
    <3>. HIDE DEF W, A, h
    <3>3. Tallies(Counted(v, now), W, A, [h EXCEPT ![now] = @ + 1], now)
      BY <1>1, <1>2, <3>2, Counting
    <3>4. ASSUME NEW a \in Times, NEW more \in 0 .. W - 1
          PROVE  Span([h EXCEPT ![now] = @ + 1], a, a + more) <= A + (A * more + W - 1) \div W
      <4>1. Span(h, a, a + more) <= A + (A * more + W - 1) \div W
        BY <2>0 DEF W, A, h
      <4>. QED BY <1>1, <1>2, <3>1, <4>1, Bursts
    <3>. QED BY <2>1, <3>3, <3>4
  <2>2. CASE ~ granted
    <3>1. ~ (Weighted(v, W, now) < A)
      BY <1>2, <2>2
    <3>2. v # Fresh
      <4>. HIDE DEF W, A, h
      <4>. QED BY <1>1, <1>2, <3>1, Spent
    <3>3. Tallies(v, W, A, h, now)
      BY <1>2, <3>2 DEF Current, Tallies
    <3>. QED BY <2>0, <2>2, <3>3
  <2>. QED BY <1>2, <2>1, <2>2
<1>8. u \in Windows
  BY <1>3, <1>4
<1>. HIDE DEF u, g, h
<1>9. counter' \in [Keys -> Windows] /\ hits' \in [Limited -> [Times -> Nat]]
  BY <1>2, <1>5, <1>6, <1>8 DEF CInv
<1>10. \A k \in Keys \ Limited : counter'[k] = Fresh
  BY <1>1, <1>2 DEF CInv
<1>11. ASSUME NEW d \in Categories, NEW z \in Subjects[d]
       PROVE  Tallied(d, z)' /\ Bounded(d, z)'
  <2>1. <<d, z>> \in Keys /\ <<d, z>> \in Limited
    BY SubjectKeys
  <2>2. CASE <<d, z>> = key
    <3>1. d = c /\ z = s
      BY <2>2
    <3>2. counter'[key] = u /\ hits'[key] = g
      BY <1>1, <1>2, <1>6 DEF CInv
    <3>. QED BY <1>2, <1>7, <3>1, <3>2 DEF Tallied, Bounded, Share
  <2>3. CASE <<d, z>> # key
    <3>1. counter'[<<d, z>>] = counter[<<d, z>>] /\ hits'[<<d, z>>] = hits[<<d, z>>]
      BY <1>2, <1>6, <2>1, <2>3 DEF CInv
    <3>. QED BY <1>2, <3>1 DEF CInv, Tallied, Bounded
  <2>. QED BY <2>2, <2>3
<1>. QED BY <1>9, <1>10, <1>11

\* What has been passed need not have a subject.
LEMMA AddressedStep ==
    ASSUME CInv, [Next]_vars
    PROVE  \A t \in Tasks : Addressed(t)'
<1>. SUFFICES ASSUME NEW t \in Tasks PROVE Addressed(t)'
  OBVIOUS
<1>1. CASE req'[t] = req[t] /\ left'[t] = left[t]
  BY <1>1 DEF CInv, Addressed
<1>2. CASE req'[t] = None
  BY <1>2 DEF Addressed
<1>3. CASE req'[t] = req[t] /\ left[t] # <<>> /\ left'[t] = Tail(left[t])
  <2>1. left[t] \in Seq(Parts)
    BY DEF CInv, PInv
  <2>2. \A j \in 1..Len(left'[t]) : j + 1 \in 1..Len(left[t]) /\ left'[t][j] = left[t][j + 1]
    BY <1>3, <2>1, HeadTailProperties
  <2>. QED BY <1>3, <2>2 DEF CInv, Addressed
<1>4. CASE \E r \in Requests : req'[t] = r /\ left'[t] = Path(r.op)
  <2>1. PICK r \in Requests : req'[t] = r /\ left'[t] = Path(r.op)
    BY <1>4
  <2>2. r.op \in Ops
    BY DEF Requests, Ops
  <2>3. DOMAIN Path(r.op) = 1..Len(Path(r.op))
    BY <2>2, Paths, LenProperties
  <2>. QED BY <2>1, <2>3, PathSubjects DEF Addressed
<1>5. req \in [Tasks -> Requests \cup {None}] /\ left \in [Tasks -> Seq(Parts)]
  BY DEF CInv, PInv
<1>6. ASSUME NEW u \in Tasks, End(u)
      PROVE  req'[t] = None \/ (req'[t] = req[t] /\ left'[t] = left[t])
  BY <1>5, <1>6 DEF End
<1>7. CASE UNCHANGED <<req, left>>
  BY <1>1, <1>7
<1>8. ASSUME NEW u \in Tasks, Begin(u)
      PROVE  Addressed(t)'
  BY <1>1, <1>4, <1>5, <1>8 DEF Begin
<1>9. ASSUME NEW u \in Tasks, Validate(u) \/ Stats(u)
      PROVE  Addressed(t)'
  <2>1. left[u] # <<>>
    BY <1>9 DEF Validate, Stats, Comes
  <2>2. CASE left' = [left EXCEPT ![u] = Tail(@)] /\ UNCHANGED req
    BY <1>1, <1>3, <1>5, <2>1, <2>2
  <2>. QED BY <1>1, <1>2, <1>6, <1>9, <2>2 DEF Validate, Stats
<1>10. ASSUME NEW u \in Tasks, RedisFails(u) \/ Serve(u)
       PROVE  Addressed(t)'
  BY <1>1, <1>2, <1>6, <1>10 DEF RedisFails, Serve
<1>11. ASSUME NEW u \in Tasks, Hit(u)
       PROVE  Addressed(t)'
  BY <1>7, <1>11 DEF Hit
<1>. QED BY <1>7, <1>8, <1>9, <1>10, <1>11 DEF Next, Tick, vars

\* A step of any task, and of the clock, keeps it.
LEMMA CountsInductive == CInv /\ [Next]_vars => CInv'
<1>. SUFFICES ASSUME CInv, [Next]_vars
              PROVE  CInv'
  OBVIOUS
<1>1. PInv' /\ \A t \in Tasks : Addressed(t)'
  BY Inductive, AddressedStep DEF CInv
<1>2. CASE UNCHANGED <<now, counter, hits>>
  BY <1>1, <1>2 DEF CInv, Tallied, Bounded
<1>3. CASE Tick
  <2>1. now' \in Times /\ now \in Nat /\ now' \in Nat /\ now <= now' /\ UNCHANGED <<counter, hits>>
    BY <1>3, TimesAreFinite, LimitsArePositive DEF Tick, CInv, Times
  <2>2. \A c \in Categories : \A s \in Subjects[c] : Tallied(c, s)' /\ Bounded(c, s)'
    BY <2>1, TimePasses DEF CInv, Tallied, Bounded
  <2>. QED BY <1>1, <2>1, <2>2 DEF CInv
<1>4. ASSUME NEW t \in Tasks, Hit(t)
      PROVE  CInv'
  <2>1. PICK c \in Categories : \E s \in Subjects[c] : \E v : \E granted : HitOn(t, c, s, v, granted)
    BY <1>4, HitLooks
  <2>2. PICK s \in Subjects[c] : \E v : \E granted : HitOn(t, c, s, v, granted)
    BY <2>1
  <2>3. PICK v : \E granted : HitOn(t, c, s, v, granted)
    BY <2>2
  <2>4. PICK granted : HitOn(t, c, s, v, granted)
    BY <2>3
  <2>5. now' = now
    BY <2>4 DEF HitOn
  <2>. QED BY <1>1, <2>4, <2>5, CountStep DEF CInv
<1>5. ASSUME NEW t \in Tasks, Begin(t) \/ Validate(t) \/ Stats(t) \/ RedisFails(t) \/ Serve(t)
      PROVE  UNCHANGED <<now, counter, hits>>
  BY <1>5 DEF Begin, Validate, Stats, RedisFails, Serve
<1>. QED BY <1>2, <1>3, <1>4, <1>5 DEF Next, vars

LEMMA CountsStart == Init => CInv
<1>. SUFFICES ASSUME Init PROVE CInv
  OBVIOUS
<1>1. PInv
  BY ProgressStart
<1>2. now \in Times /\ now = 0
  BY LimitsArePositive DEF Init, Times
<1>3. counter = [k \in Keys |-> Fresh] /\ Fresh \in Windows
  BY DEF Init, Windows, Fresh
<1>4. hits = [x \in Limited |-> [m \in Times |-> 0]]
  BY DEF Init
<1>5. \A t \in Tasks : Addressed(t)
  BY DEF Init, Addressed
<1>6. ASSUME NEW c \in Categories, NEW s \in Subjects[c]
      PROVE  Tallied(c, s) /\ Bounded(c, s)
  <2>1. /\ <<c, s>> \in Limited /\ <<c, s>> \in Keys
        /\ Amount[c] \in Nat \ {0} /\ Window[c] \in Nat \ {0}
    BY SubjectKeys
  <2>2. Tallied(c, s)
    BY <1>3, <1>4, <2>1 DEF Tallied, Tallies
  <2>3. Bounded(c, s)
    <3>. SUFFICES ASSUME NEW first \in Times, NEW more \in 0 .. Window[c] - 1
                  PROVE  Span(hits[<<c, s>>], first, first + more) <= Amount[c] + Share(c, more)
      BY DEF Bounded
    <3>. DEFINE h == hits[<<c, s>>]  last == first + more
    <3>1. first \in Int /\ last \in Int /\ more \in Nat
      BY <2>1, TimesAreFinite
    <3>2. \A m \in Times : h[m] = 0
      BY <1>4, <2>1
    <3>. HIDE DEF h, last
    <3>3. Span(h, first, last) = 0
      BY <3>1, <3>2, SpanNone
    <3>4. Share(c, more) \in Nat
      BY <2>1, <3>1, MoreShare DEF Share
    <3>. QED BY <2>1, <3>3, <3>4 DEF h, last
  <2>. QED BY <2>2, <2>3
<1>. QED BY <1>1, <1>2, <1>3, <1>4, <1>5, <1>6 DEF CInv

LEMMA AlwaysTallied == Spec => []CInv
BY CountsStart, CountsInductive, PTL DEF Spec

\* Every variable keeps its type, and no counter exceeds the amount of its limit.
THEOREM TypeCorrect == Spec => []TypeOK
<1>1. CInv => TypeOK
  <2>. SUFFICES ASSUME CInv PROVE TypeOK
    OBVIOUS
  <2>1. ASSUME NEW k \in Keys
        PROVE  /\ counter[k].start \in Times
               /\ k[1] \in Categories =>
                    {counter[k].previous, counter[k].current} \subseteq 0..Amount[k[1]]
    <3>1. CASE counter[k] = Fresh
      <4>1. 0 \in Times
        BY LimitsArePositive DEF Times
      <4>2. k[1] \in Categories => Amount[k[1]] \in Nat
        BY LimitsArePositive
      <4>. QED BY <3>1, <4>1, <4>2 DEF Fresh
    <3>2. CASE counter[k] # Fresh
      <4>1. k \in Limited
        BY <3>2 DEF CInv
      <4>2. PICK c \in Categories : \E s \in Subjects[c] : k = <<c, s>>
        BY <4>1, LimitedKeys
      <4>3. PICK s \in Subjects[c] : k = <<c, s>>
        BY <4>2
      <4>4. Counts(counter[k], Window[c], Amount[c], hits[k], now)
        BY <3>2, <4>3 DEF CInv, Tallied, Tallies
      <4>5. counter[k] \in [start : 0..now, previous : 0..Amount[c], current : 0..Amount[c]]
        BY <4>4 DEF Counts
      <4>6. 0..now \subseteq Times
        BY LimitsArePositive DEF CInv, Times
      <4>. QED BY <4>3, <4>5, <4>6
    <3>. QED BY <3>1, <3>2
  <2>. QED BY <2>1 DEF CInv, PInv, TypeOK, Parts
<1>. QED BY <1>1, AlwaysTallied, PTL

\* No limit lets more through than its amount and, for each further tick, its
\* share: the counter has an integer for all hits of a window, which it weighs and
\* rounds, and the history has every hit.
THEOREM BoundedHits == Spec => []HitsAreBounded
<1>1. CInv => HitsAreBounded
  <2>. SUFFICES ASSUME CInv, NEW category \in Categories, NEW s \in Subjects[category],
                       NEW first \in Times, NEW more \in 0 .. Window[category] - 1
                PROVE  HitsIn(category, s, first .. first + more)
                         <= Amount[category] + Share(category, more)
    BY DEF HitsAreBounded
  <2>1. Span(hits[<<category, s>>], first, first + more) <= Amount[category] + Share(category, more)
    BY DEF CInv, Bounded
  <2>. QED BY <2>1, SpanIsHitsIn
<1>. QED BY <1>1, AlwaysTallied, PTL

\* A refusal comes from the subject's own hits: no key is shared, and no counter
\* is ahead of the history.
THEOREM RefusedForOwnHits == Spec => RefusedOnlyWhenSpent
<1>. DEFINE Refusal(t) == asked'[t] = FALSE /\ asked[t] = None =>
         LET category == Head(left[t]) IN
         HitsIn(category, Subject(category, req[t]), now - 2 * Window[category] + 1 .. now)
            >= Amount[category]
<1>1. CInv /\ [Next]_vars => \A t \in Tasks : Refusal(t)
  <2>. SUFFICES ASSUME CInv, [Next]_vars, NEW t \in Tasks, asked'[t] = FALSE, asked[t] = None
                PROVE  Refusal(t)
    OBVIOUS
  <2>1. asked \in [Tasks -> BOOLEAN \cup {None}]
    BY DEF CInv, PInv
  <2>2. None # FALSE
    BY NoneIsNothing
  <2>3. asked' # asked
    BY <2>2
  <2>4. \A u \in Tasks : ~ (End(u) \/ asked' = [asked EXCEPT ![u] = None])
    BY <2>1, <2>2 DEF End
  <2>5. PICK u \in Tasks : Hit(u)
    BY <2>3, <2>4 DEF Next, Tick, vars, Begin, Validate, Stats, RedisFails, Serve
  <2>6. PICK c \in Categories : \E s \in Subjects[c] : \E v : \E granted : HitOn(u, c, s, v, granted)
    BY <2>5, HitLooks
  <2>7. PICK s \in Subjects[c] : \E v : \E granted : HitOn(u, c, s, v, granted)
    BY <2>6
  <2>8. PICK v : \E granted : HitOn(u, c, s, v, granted)
    BY <2>7
  <2>9. PICK granted : HitOn(u, c, s, v, granted)
    BY <2>8
  <2>10. asked' = [asked EXCEPT ![u] = granted] /\ granted \in BOOLEAN
    BY <2>9 DEF HitOn
  <2>11. u = t /\ granted = FALSE
    BY <2>1, <2>2, <2>10
  <2>12. /\ c = Head(left[t]) /\ s = Subject(c, req[t])
         /\ Current(v, Window[c], Amount[c], hits[<<c, s>>], now)
         /\ ~ (Weighted(v, Window[c], now) < Amount[c])
    BY <2>9, <2>11 DEF HitOn
  <2>13. /\ Window[c] \in Nat \ {0} /\ Amount[c] \in Nat \ {0}
         /\ hits[<<c, s>>] \in [Times -> Nat] /\ now \in Times
    BY SubjectKeys DEF CInv
  <2>14. Span(hits[<<c, s>>], now - 2 * Window[c] + 1, now) >= Amount[c]
    BY <2>12, <2>13, Spent
  <2>15. HitsIn(c, s, now - 2 * Window[c] + 1 .. now) >= Amount[c]
    BY <2>14, SpanIsHitsIn
  <2>. QED BY <2>12, <2>15
<1>2. CInv /\ [Next]_vars =>
        \A t \in Tasks : asked'[t] = FALSE /\ asked[t] = None =>
         LET category == Head(left[t]) IN
         HitsIn(category, Subject(category, req[t]), now - 2 * Window[category] + 1 .. now)
            >= Amount[category]
  BY <1>1
<1>. QED BY <1>2, AlwaysTallied, PTL DEF Spec, RefusedOnlyWhenSpent

-----------------------------------------------------------------------------
(* What an account costs.                                                  *)

\* Where a login stands: the address first.
OnTheWay(t) ==
    /\ req[t] = None => paid[t] = {}
    /\ req[t] # None /\ req[t].op = "login" =>
          \/ left[t] = <<"login.ip", "login.account">> /\ "login.account" \notin paid[t]
          \/ /\ left[t] = <<"login.account">> /\ "login.ip" \in paid[t]
             /\ asked[t] = None => "login.account" \notin paid[t]
          \/ left[t] = <<>>
    /\ req[t] # None /\ req[t].op # "login" =>
          /\ paid[t] \cap LoginCategories = {}
          /\ \A j \in 1..Len(left[t]) : left[t][j] \notin LoginCategories

\* The logins that have cost their address a hit and their account none yet.
Between == {t \in Tasks : "login.ip" \in paid[t] /\ "login.account" \notin paid[t]}

Shielded ==
    Total("login.account", Accounts) + Cardinality(Between) <= Total("login.ip", Addresses)

SInv == CInv /\ (\A t \in Tasks : OnTheWay(t)) /\ Shielded

LEMMA WayTail ==
    ASSUME PInv, NEW t \in Tasks, OnTheWay(t), req[t] # None, left[t] # <<>>,
           Head(left[t]) = "csrf" \/ (asked[t] = TRUE /\ Head(left[t]) \in Categories),
           req'[t] = req[t], left'[t] = Tail(left[t]), paid'[t] = paid[t]
    PROVE  OnTheWay(t)'
<1>1. left[t] \in Seq(Parts)
  BY DEF PInv
<1>2. asked[t] = TRUE => Head(left[t]) \in paid[t]
  BY DEF PInv, Progress
<1>3. CASE req[t].op = "login"
  <2>1. CASE left[t] = <<"login.ip", "login.account">> /\ "login.account" \notin paid[t]
    <3>1. Head(left[t]) = "login.ip" /\ Tail(left[t]) = <<"login.account">>
      BY <2>1
    <3>2. "login.ip" \in paid[t]
      BY <1>2, <3>1
    <3>. QED BY <1>3, <2>1, <3>1, <3>2 DEF OnTheWay
  <2>2. CASE left[t] = <<"login.account">>
    <3>1. Tail(left[t]) = <<>>
      BY <2>2
    <3>. QED BY <1>3, <3>1 DEF OnTheWay
  <2>. QED BY <1>3, <2>1, <2>2 DEF OnTheWay
<1>4. CASE req[t].op # "login"
  <2>1. \A j \in 1..Len(Tail(left[t])) : j + 1 \in 1..Len(left[t]) /\ Tail(left[t])[j] = left[t][j + 1]
    BY <1>1, HeadTailProperties
  <2>. QED BY <1>4, <2>1 DEF OnTheWay
<1>. QED BY <1>3, <1>4

LEMMA WayStep ==
    ASSUME PInv, \A t \in Tasks : OnTheWay(t), [Next]_vars
    PROVE  \A t \in Tasks : OnTheWay(t)'
<1>. SUFFICES ASSUME NEW t \in Tasks PROVE OnTheWay(t)'
  OBVIOUS
<1>1. /\ req \in [Tasks -> Requests \cup {None}] /\ left \in [Tasks -> Seq(Parts)]
      /\ asked \in [Tasks -> BOOLEAN \cup {None}] /\ paid \in [Tasks -> SUBSET Categories]
  BY DEF PInv
<1>2. CASE req'[t] = req[t] /\ left'[t] = left[t] /\ asked'[t] = asked[t] /\ paid'[t] = paid[t]
  BY <1>2 DEF OnTheWay
<1>3. CASE req'[t] = None /\ paid'[t] = {}
  BY <1>3 DEF OnTheWay
<1>4. ASSUME NEW u \in Tasks, End(u)
      PROVE  OnTheWay(t)'
  <2>1. CASE u = t
    BY <1>1, <1>3, <1>4, <2>1 DEF End
  <2>2. CASE u # t
    BY <1>1, <1>2, <1>4, <2>2 DEF End
  <2>. QED BY <2>1, <2>2
<1>5. ASSUME NEW u \in Tasks, req[u] # None, left[u] # <<>>,
             Head(left[u]) = "csrf" \/ (asked[u] = TRUE /\ Head(left[u]) \in Categories),
             left' = [left EXCEPT ![u] = Tail(@)], UNCHANGED <<req, paid>>,
             \A v \in Tasks \ {u} : asked'[v] = asked[v]
      PROVE  OnTheWay(t)'
  <2>1. CASE u = t
    <3>1. req'[t] = req[t] /\ left'[t] = Tail(left[t]) /\ paid'[t] = paid[t]
      BY <1>1, <1>5, <2>1
    <3>. QED BY <1>5, <2>1, <3>1, WayTail
  <2>2. CASE u # t
    BY <1>1, <1>2, <1>5, <2>2
  <2>. QED BY <2>1, <2>2
<1>6. ASSUME NEW u \in Tasks, Validate(u)
      PROVE  OnTheWay(t)'
  BY <1>4, <1>5, <1>6 DEF Validate, Comes
<1>7. ASSUME NEW u \in Tasks, Stats(u)
      PROVE  OnTheWay(t)'
  <2>1. /\ req[u] # None /\ left[u] # <<>> /\ Head(left[u]) \in Categories
        /\ asked[u] \in BOOLEAN
    BY <1>1, <1>7 DEF Stats, Comes
  <2>2. CASE asked[u] = TRUE
    <3>1. /\ left' = [left EXCEPT ![u] = Tail(@)] /\ UNCHANGED <<req, paid>>
          /\ \A v \in Tasks \ {u} : asked'[v] = asked[v]
      BY <1>1, <1>7, <2>2 DEF Stats
    <3>. QED BY <1>5, <2>1, <2>2, <3>1
  <2>3. CASE asked[u] = FALSE
    BY <1>4, <1>7, <2>3 DEF Stats
  <2>. QED BY <2>1, <2>2, <2>3
<1>8. ASSUME NEW u \in Tasks, Begin(u)
      PROVE  OnTheWay(t)'
  <2>1. PICK r \in Requests :
          /\ req[u] = None /\ req' = [req EXCEPT ![u] = r]
          /\ left' = [left EXCEPT ![u] = Path(r.op)] /\ UNCHANGED <<asked, paid>>
    BY <1>8 DEF Begin
  <2>2. CASE u = t
    <3>1. req'[t] = r /\ left'[t] = Path(r.op) /\ paid'[t] = {}
      BY <1>1, <2>1, <2>2 DEF OnTheWay
    <3>2. r # None /\ r.op \in Ops
      BY NoneIsNothing DEF Requests, Ops
    <3>3. r.op = "login" => Path(r.op) = <<"login.ip", "login.account">>
      BY DEF Path
    <3>4. r.op # "login" => \A j \in 1..Len(Path(r.op)) : Path(r.op)[j] \notin LoginCategories
      BY <3>2 DEF Path, LoginCategories, Ops
    <3>. QED BY <3>1, <3>2, <3>3, <3>4 DEF OnTheWay
  <2>3. CASE u # t
    BY <1>1, <1>2, <2>1, <2>3
  <2>. QED BY <2>2, <2>3
<1>9. ASSUME NEW u \in Tasks, Hit(u)
      PROVE  OnTheWay(t)'
  <2>. DEFINE category == Head(left[u])
              granted == Granted(Slid(counter[RateKey(category, req[u])], Window[category], now),
                                 category, now)
  <2>1. /\ req[u] # None /\ left[u] # <<>> /\ category \in Categories /\ asked[u] = None
        /\ asked' = [asked EXCEPT ![u] = granted]
        /\ paid' = IF granted THEN [paid EXCEPT ![u] = @ \cup {category}] ELSE paid
        /\ UNCHANGED <<req, left>>
    BY <1>9 DEF Hit, Comes
  <2>2. granted \in BOOLEAN
    BY DEF Granted
  <2>. HIDE DEF granted
  <2>3. CASE u # t
    BY <1>1, <1>2, <2>1, <2>3
  <2>4. CASE u = t
    <3>1. asked'[t] # None /\ req'[t] = req[t] /\ left'[t] = left[t] /\ req[t] # None
      BY <1>1, <2>1, <2>2, <2>4, NoneIsNothing
    <3>2. paid[t] \subseteq paid'[t] /\ paid'[t] \subseteq paid[t] \cup {category}
      BY <1>1, <2>1, <2>4
    <3>3. CASE req[t].op = "login"
      <4>1. CASE left[t] = <<"login.ip", "login.account">> /\ "login.account" \notin paid[t]
        <5>1. category = "login.ip"
          BY <2>4, <4>1
        <5>. QED BY <3>1, <3>2, <3>3, <4>1, <5>1 DEF OnTheWay
      <4>2. CASE left[t] = <<"login.account">> /\ "login.ip" \in paid[t]
        BY <3>1, <3>2, <3>3, <4>2 DEF OnTheWay
      <4>. QED BY <2>1, <2>4, <3>1, <3>3, <4>1, <4>2 DEF OnTheWay
    <3>4. CASE req[t].op # "login"
      <4>1. left[t] \in Seq(Parts) /\ left[t] # <<>>
        BY <1>1, <2>1, <2>4
      <4>2. 1 \in 1..Len(left[t]) /\ category = left[t][1]
        BY <2>4, <4>1, HeadTailProperties
      <4>3. category \notin LoginCategories
        BY <3>1, <3>4, <4>2 DEF OnTheWay
      <4>. QED BY <3>1, <3>2, <3>4, <4>3 DEF OnTheWay
    <3>. QED BY <3>3, <3>4
  <2>. QED BY <2>3, <2>4
<1>10. CASE UNCHANGED <<req, left, asked, paid>>
  BY <1>2, <1>10
<1>. QED BY <1>4, <1>6, <1>7, <1>8, <1>9, <1>10 DEF Next, Tick, vars, RedisFails, Serve

\* The sums of a history, as Total has them and as functions.
TotalOf(history, c, S) ==
    MapThenSumSet(LAMBDA s : MapThenSumSet(LAMBDA m : history[<<c, s>>][m], Times \cap Times), S)

Costs(history, c, S) == [s \in S |-> Sum(history[<<c, s>>], Times)]

LEMMA TotalIsOf ==
    ASSUME NEW c, NEW S
    PROVE  Total(c, S) = TotalOf(hits, c, S) /\ Total(c, S)' = TotalOf(hits', c, S)
<1>1. Total(c, S) = TotalOf(hits, c, S)
  BY DEF Total, HitsIn, TotalOf
<1>2. Total(c, S)' = TotalOf(hits', c, S)
  BY DEF Total, HitsIn, TotalOf, MapThenSumSet, MapThenFoldSet
<1>. QED BY <1>1, <1>2

LEMMA TotalIsSum ==
    ASSUME NEW history, NEW c, NEW S, IsFiniteSet(S)
    PROVE  TotalOf(history, c, S) = Sum(Costs(history, c, S), S)
<1>. DEFINE f == Costs(history, c, S)
            cost(s) == MapThenSumSet(LAMBDA m : history[<<c, s>>][m], Times \cap Times)
            g == CHOOSE k : k = [s \in SUBSET S |-> IF s = {} THEN 0
                                                   ELSE cost(Any(s)) + k[s \ {Any(s)}]]
            h == CHOOSE k : Adds(k, f, S)
<1>1. TotalOf(history, c, S) = g[S]
  BY DEF TotalOf, MapThenSumSet, MapThenFoldSet, Any
<1>2. Sum(f, S) = h[S]
  BY DEF Sum, MapThenSumSet, MapThenFoldSet, Adds, Any
<1>3. \A s \in S : f[s] = cost(s)
  <2>1. Times \cap Times = Times
    OBVIOUS
  <2>. QED BY <2>1 DEF Costs, Sum
<1>. HIDE DEF cost, f
<1>4. \A k : Adds(k, f, S) <=> k = [s \in SUBSET S |-> IF s = {} THEN 0
                                                       ELSE cost(Any(s)) + k[s \ {Any(s)}]]
  <2>1. \A s \in SUBSET S : s # {} => Any(s) \in S
    BY AnyOne
  <2>2. \A s \in SUBSET S : s # {} => f[Any(s)] = cost(Any(s))
    BY <1>3, <2>1
  <2>3. ASSUME NEW k
        PROVE  [s \in SUBSET S |-> IF s = {} THEN 0 ELSE f[Any(s)] + k[s \ {Any(s)}]]
                 = [s \in SUBSET S |-> IF s = {} THEN 0 ELSE cost(Any(s)) + k[s \ {Any(s)}]]
    BY <2>2
  <2>. QED BY <2>3 DEF Adds
<1>5. \E k : Adds(k, f, S)
  BY AddsExists
<1>6. Adds(h, f, S)
  BY <1>5
<1>7. Adds(g, f, S)
  BY <1>4, <1>5
<1>. HIDE DEF g, h
<1>8. g[S] = h[S]
  BY <1>6, <1>7, AddsUnique
<1>. QED BY <1>1, <1>2, <1>8 DEF f

LEMMA TimesBump ==
    ASSUME NEW h \in [Times -> Nat], NEW g, NEW n \in Times, g[n] = h[n] + 1,
           \A m \in Times \ {n} : g[m] = h[m]
    PROVE  Sum(g, Times) = Sum(h, Times) + 1
<1>1. IsFiniteSet(Times)
  BY AllTimes
<1>2. \A m \in Times : h[m] \in Nat
  OBVIOUS
<1>. QED BY <1>1, <1>2, SumBump

\* One more hit of a subject is one more in all.
LEMMA TotalBump ==
    ASSUME NEW history \in [Limited -> [Times -> Nat]], NEW after \in [Limited -> [Times -> Nat]],
           NEW c \in Categories, NEW S, S = Subjects[c], IsFiniteSet(S), NEW s \in S, NEW n \in Times,
           after[<<c, s>>][n] = history[<<c, s>>][n] + 1,
           \A m \in Times \ {n} : after[<<c, s>>][m] = history[<<c, s>>][m],
           \A z \in S \ {s} : after[<<c, z>>] = history[<<c, z>>]
    PROVE  TotalOf(after, c, S) = TotalOf(history, c, S) + 1
<1>. DEFINE f == Costs(history, c, S)  g == Costs(after, c, S)
            x == history[<<c, s>>]  y == after[<<c, s>>]
<1>1. \A z \in S : <<c, z>> \in Limited
  BY SubjectKeys
<1>2. /\ x \in [Times -> Nat] /\ y[n] = x[n] + 1 /\ \A m \in Times \ {n} : y[m] = x[m]
      /\ \A z \in S \ {s} : after[<<c, z>>] = history[<<c, z>>]
  BY <1>1
<1>3. IsFiniteSet(Times)
  BY AllTimes
<1>4. Sum(y, Times) = Sum(x, Times) + 1
  <2>. HIDE DEF x, y
  <2>. QED BY <1>2, TimesBump
<1>5. \A z \in S : f[z] \in Nat
  <2>. SUFFICES ASSUME NEW z \in S PROVE Sum(history[<<c, z>>], Times) \in Nat
    BY DEF Costs
  <2>. DEFINE w == history[<<c, z>>]
  <2>1. \A m \in Times : w[m] \in Nat
    BY <1>1
  <2>. HIDE DEF w
  <2>2. Sum(w, Times) \in Nat
    BY <1>3, <2>1, SumType
  <2>. QED BY <2>2 DEF w
<1>6. g[s] = f[s] + 1 /\ \A z \in S \ {s} : g[z] = f[z]
  BY <1>2, <1>4 DEF Costs
<1>. HIDE DEF f, g
<1>7. Sum(g, S) = Sum(f, S) + 1
  BY <1>5, <1>6, SumBump
<1>. QED BY <1>7, TotalIsSum DEF f, g

\* Hits of others are none of its.
LEMMA TotalSame ==
    ASSUME NEW history, NEW after, NEW c, NEW S, IsFiniteSet(S),
           \A z \in S : after[<<c, z>>] = history[<<c, z>>]
    PROVE  TotalOf(after, c, S) = TotalOf(history, c, S)
<1>1. Costs(after, c, S) = Costs(history, c, S)
  BY DEF Costs
<1>. QED BY <1>1, TotalIsSum

LEMMA TotalType ==
    ASSUME NEW history \in [Limited -> [Times -> Nat]], NEW c \in Categories, NEW S,
           S = Subjects[c], IsFiniteSet(S)
    PROVE  TotalOf(history, c, S) \in Nat
<1>1. IsFiniteSet(Times)
  BY AllTimes
<1>. DEFINE f == Costs(history, c, S)
<1>2. ASSUME NEW z \in S
      PROVE  f[z] \in Nat
  <2>. DEFINE w == history[<<c, z>>]
  <2>1. \A m \in Times : w[m] \in Nat
    BY SubjectKeys
  <2>. HIDE DEF w
  <2>2. Sum(w, Times) \in Nat
    BY <1>1, <2>1, SumType
  <2>. QED BY <2>2 DEF w, Costs
<1>. HIDE DEF f
<1>3. Sum(f, S) \in Nat
  BY <1>2, SumType
<1>. QED BY <1>3, TotalIsSum DEF f

LEMMA LoginSubjects ==
    /\ "login.ip" \in Categories /\ Subjects["login.ip"] = Addresses
    /\ "login.account" \in Categories /\ Subjects["login.account"] = Accounts
BY DEF Subjects, Categories, LoginCategories

LEMMA ShieldStep ==
    ASSUME SInv, [Next]_vars
    PROVE  Shielded'
<1>. DEFINE addresses(history) == TotalOf(history, "login.ip", Addresses)
            accounts(history) == TotalOf(history, "login.account", Accounts)
<1>1. /\ Total("login.ip", Addresses) = addresses(hits)
      /\ Total("login.account", Accounts) = accounts(hits)
      /\ Total("login.ip", Addresses)' = addresses(hits')
      /\ Total("login.account", Accounts)' = accounts(hits')
  BY TotalIsOf
<1>2. hits \in [Limited -> [Times -> Nat]]
  BY DEF SInv, CInv
<1>3. addresses(hits) \in Nat /\ accounts(hits) \in Nat
  BY <1>2, LoginSubjects, SubjectsAreFinite, TotalType
<1>4. Between \in SUBSET Tasks /\ Between' \in SUBSET Tasks
  BY DEF Between
<1>5. /\ IsFiniteSet(Between) /\ Cardinality(Between) \in Nat
      /\ IsFiniteSet(Between') /\ Cardinality(Between') \in Nat
  BY <1>4, SubjectsAreFinite, FS_Subset, FS_CardinalityType
<1>6. accounts(hits) + Cardinality(Between) <= addresses(hits)
  BY <1>1 DEF SInv, Shielded
<1>. SUFFICES accounts(hits') + Cardinality(Between') <= addresses(hits')
  BY <1>1 DEF Shielded
<1>7. ASSUME hits' = hits, Between' \subseteq Between
      PROVE  accounts(hits') + Cardinality(Between') <= addresses(hits')
  <2>1. Cardinality(Between') <= Cardinality(Between)
    BY <1>5, <1>7, FS_Subset
  <2>2. accounts(hits') = accounts(hits) /\ addresses(hits') = addresses(hits)
    BY <1>7
  <2>. HIDE DEF addresses, accounts
  <2>. QED BY <1>3, <1>5, <1>6, <2>1, <2>2
<1>8. paid \in [Tasks -> SUBSET Categories]
  BY DEF SInv, CInv, PInv
<1>9. ASSUME NEW t \in Tasks, End(t)
      PROVE  Between' \subseteq Between
  <2>1. \A u \in Tasks : paid'[u] = IF u = t THEN {} ELSE paid[u]
    BY <1>8, <1>9 DEF End
  <2>. QED BY <2>1 DEF Between
<1>10. CASE UNCHANGED <<hits, paid>>
  BY <1>7, <1>10 DEF Between
<1>11. ASSUME NEW t \in Tasks, Begin(t) \/ Validate(t) \/ Stats(t) \/ RedisFails(t) \/ Serve(t)
       PROVE  accounts(hits') + Cardinality(Between') <= addresses(hits')
  <2>1. hits' = hits
    BY <1>11 DEF Begin, Validate, Stats, RedisFails, Serve
  <2>2. UNCHANGED paid \/ End(t)
    BY <1>11 DEF Begin, Validate, Stats, RedisFails, Serve
  <2>. QED BY <1>7, <1>9, <1>10, <2>1, <2>2
<1>12. ASSUME NEW t \in Tasks, Hit(t)
       PROVE  accounts(hits') + Cardinality(Between') <= addresses(hits')
  <2>1. PICK c \in Categories : \E s \in Subjects[c] : \E v : \E granted : HitOn(t, c, s, v, granted)
    BY <1>12, HitLooks DEF SInv
  <2>2. PICK s \in Subjects[c] : \E v : \E granted : HitOn(t, c, s, v, granted)
    BY <2>1
  <2>3. PICK v : \E granted : HitOn(t, c, s, v, granted)
    BY <2>2
  <2>4. PICK granted : HitOn(t, c, s, v, granted)
    BY <2>3
  <2>5. /\ c = Head(left[t]) /\ asked[t] = None /\ granted \in BOOLEAN
        /\ hits' = IF granted THEN [hits EXCEPT ![<<c, s>>][now] = @ + 1] ELSE hits
        /\ paid' = IF granted THEN [paid EXCEPT ![t] = @ \cup {c}] ELSE paid
    BY <2>4 DEF HitOn
  <2>6. now \in Times /\ hits' \in [Limited -> [Times -> Nat]]
    BY <2>4, CountStep DEF SInv, CInv
  <2>7. req[t] # None /\ left[t] # <<>>
    BY <1>12 DEF Hit, Comes
  <2>8. CASE ~ granted
    BY <1>10, <2>5, <2>8
  <2>9. CASE granted
    <3>1. /\ hits' = [hits EXCEPT ![<<c, s>>][now] = @ + 1]
          /\ \A u \in Tasks : paid'[u] = IF u = t THEN paid[t] \cup {c} ELSE paid[u]
      BY <1>8, <2>5, <2>9
    <3>2. ASSUME NEW d, d # c, NEW z
          PROVE  hits'[<<d, z>>] = hits[<<d, z>>]
      <4>1. <<d, z>> # <<c, s>>
        BY <3>2
      <4>. QED BY <1>2, <2>6, <3>1, <4>1
    <3>3. ASSUME NEW z \in Subjects[c] \ {s}
          PROVE  hits'[<<c, z>>] = hits[<<c, z>>]
      <4>1. <<c, z>> # <<c, s>> /\ <<c, z>> \in Limited
        BY SubjectKeys
      <4>. QED BY <1>2, <3>1, <4>1
    <3>4. /\ hits'[<<c, s>>][now] = hits[<<c, s>>][now] + 1
          /\ \A m \in Times \ {now} : hits'[<<c, s>>][m] = hits[<<c, s>>][m]
      <4>1. <<c, s>> \in Limited
        BY SubjectKeys
      <4>. QED BY <1>2, <2>6, <3>1, <4>1
    <3>5. CASE c = "login.ip"
      <4>1. addresses(hits') = addresses(hits) + 1
        <5>1. s \in Addresses
          BY <3>5, LoginSubjects
        <5>2. \A z \in Addresses \ {s} : hits'[<<"login.ip", z>>] = hits[<<"login.ip", z>>]
          BY <3>3, <3>5, LoginSubjects
        <5>3. /\ hits'[<<"login.ip", s>>][now] = hits[<<"login.ip", s>>][now] + 1
              /\ \A m \in Times \ {now} :
                    hits'[<<"login.ip", s>>][m] = hits[<<"login.ip", s>>][m]
          BY <3>4, <3>5
        <5>. QED BY <1>2, <2>6, <5>1, <5>2, <5>3, LoginSubjects, SubjectsAreFinite, TotalBump
      <4>2. accounts(hits') = accounts(hits)
        <5>1. \A z \in Accounts : hits'[<<"login.account", z>>] = hits[<<"login.account", z>>]
          BY <3>2, <3>5
        <5>. QED BY <5>1, SubjectsAreFinite, TotalSame
      <4>3. Between' \in SUBSET (Between \cup {t})
        BY <3>1 DEF Between
      <4>4. Cardinality(Between') <= Cardinality(Between) + 1
        <5>1. /\ IsFiniteSet(Between \cup {t})
              /\ Cardinality(Between \cup {t}) = IF t \in Between THEN Cardinality(Between)
                                                                 ELSE Cardinality(Between) + 1
          BY <1>5, FS_AddElement
        <5>2. Cardinality(Between') <= Cardinality(Between \cup {t})
          BY <4>3, <5>1, FS_Subset
        <5>. QED BY <1>5, <5>1, <5>2
      <4>. HIDE DEF addresses, accounts
      <4>. QED BY <1>3, <1>5, <1>6, <4>1, <4>2, <4>4
    <3>6. CASE c = "login.account"
      <4>1. accounts(hits') = accounts(hits) + 1
        <5>1. s \in Accounts
          BY <3>6, LoginSubjects
        <5>2. \A z \in Accounts \ {s} : hits'[<<"login.account", z>>] = hits[<<"login.account", z>>]
          BY <3>3, <3>6, LoginSubjects
        <5>3. /\ hits'[<<"login.account", s>>][now] = hits[<<"login.account", s>>][now] + 1
              /\ \A m \in Times \ {now} :
                    hits'[<<"login.account", s>>][m] = hits[<<"login.account", s>>][m]
          BY <3>4, <3>6
        <5>. QED BY <1>2, <2>6, <5>1, <5>2, <5>3, LoginSubjects, SubjectsAreFinite, TotalBump
      <4>2. addresses(hits') = addresses(hits)
        <5>1. \A z \in Addresses : hits'[<<"login.ip", z>>] = hits[<<"login.ip", z>>]
          BY <3>2, <3>6
        <5>. QED BY <5>1, SubjectsAreFinite, TotalSame
      <4>3. t \in Between
        <5>1. OnTheWay(t) /\ left[t] \in Seq(Parts)
          BY DEF SInv, CInv, PInv
        <5>2. 1 \in 1..Len(left[t]) /\ left[t][1] = "login.account"
          BY <2>5, <2>7, <3>6, <5>1, HeadTailProperties
        <5>3. req[t].op = "login"
          BY <2>7, <5>1, <5>2 DEF OnTheWay, LoginCategories
        <5>4. left[t] # <<"login.ip", "login.account">>
          BY <5>2
        <5>. QED BY <2>5, <2>7, <5>1, <5>3, <5>4 DEF OnTheWay, Between
      <4>4. Between' \in SUBSET (Between \ {t})
        BY <3>1, <3>6 DEF Between
      <4>5. Cardinality(Between') <= Cardinality(Between) - 1
        <5>1. /\ IsFiniteSet(Between \ {t})
              /\ Cardinality(Between \ {t}) = Cardinality(Between) - 1
          BY <1>5, <4>3, FS_RemoveElement
        <5>2. Cardinality(Between') <= Cardinality(Between \ {t})
          BY <4>4, <5>1, FS_Subset
        <5>. QED BY <5>1, <5>2
      <4>. HIDE DEF addresses, accounts
      <4>. QED BY <1>3, <1>5, <1>6, <4>1, <4>2, <4>5
    <3>7. CASE c # "login.ip" /\ c # "login.account"
      <4>1. accounts(hits') = accounts(hits)
        <5>1. \A z \in Accounts : hits'[<<"login.account", z>>] = hits[<<"login.account", z>>]
          BY <3>2, <3>7
        <5>. QED BY <5>1, SubjectsAreFinite, TotalSame
      <4>2. addresses(hits') = addresses(hits)
        <5>1. \A z \in Addresses : hits'[<<"login.ip", z>>] = hits[<<"login.ip", z>>]
          BY <3>2, <3>7
        <5>. QED BY <5>1, SubjectsAreFinite, TotalSame
      <4>3. Between' = Between
        BY <3>1, <3>7 DEF Between
      <4>. HIDE DEF addresses, accounts
      <4>. QED BY <1>6, <4>1, <4>2, <4>3
    <3>. QED BY <3>5, <3>6, <3>7
  <2>. QED BY <2>5, <2>8, <2>9
<1>. QED BY <1>10, <1>11, <1>12 DEF Next, Tick, vars

\* Whatever is counted for accounts has been counted for addresses before, at the
\* price of one hit each: login_handler consumes the address's limit first.
THEOREM AddressesPay == Spec => []AddressShieldsAccounts
<1>1. Init => SInv
  <2>. SUFFICES ASSUME Init PROVE SInv
    OBVIOUS
  <2>1. CInv
    BY CountsStart
  <2>2. \A t \in Tasks : OnTheWay(t)
    BY DEF Init, OnTheWay
  <2>3. Between = {}
    BY DEF Init, Between
  <2>4. \A x \in Limited : hits[x] = [m \in Times |-> 0]
    BY DEF Init
  <2>5. ASSUME NEW c \in Categories, NEW S, S = Subjects[c], IsFiniteSet(S)
        PROVE  TotalOf(hits, c, S) = 0
    <3>. DEFINE f == Costs(hits, c, S)
    <3>1. IsFiniteSet(Times)
      BY AllTimes
    <3>2. ASSUME NEW s \in S
          PROVE  f[s] = 0
      <4>. DEFINE h == hits[<<c, s>>]
      <4>1. \A m \in Times : h[m] = 0
        BY <2>4, <2>5, SubjectKeys
      <4>. HIDE DEF h
      <4>2. Sum(h, Times) = 0
        BY <3>1, <4>1, SumZero
      <4>. QED BY <4>2 DEF h, Costs
    <3>. HIDE DEF f
    <3>3. Sum(f, S) = 0
      BY <2>5, <3>2, SumZero
    <3>. QED BY <2>5, <3>3, TotalIsSum DEF f
  <2>6. Total("login.ip", Addresses) = 0 /\ Total("login.account", Accounts) = 0
    BY <2>5, LoginSubjects, SubjectsAreFinite, TotalIsOf
  <2>7. Cardinality(Between) = 0
    BY <2>3, FS_EmptySet
  <2>. QED BY <2>1, <2>2, <2>6, <2>7 DEF SInv, Shielded
<1>2. SInv /\ [Next]_vars => SInv'
  <2>. SUFFICES ASSUME SInv, [Next]_vars PROVE SInv'
    OBVIOUS
  <2>1. CInv'
    BY CountsInductive DEF SInv
  <2>2. \A t \in Tasks : OnTheWay(t)'
    BY WayStep DEF SInv, CInv
  <2>. QED BY <2>1, <2>2, ShieldStep DEF SInv
<1>3. SInv => AddressShieldsAccounts
  <2>. SUFFICES ASSUME SInv PROVE AddressShieldsAccounts
    OBVIOUS
  <2>. DEFINE i == Total("login.ip", Addresses)  a == Total("login.account", Accounts)
  <2>1. i \in Nat /\ a \in Nat
    BY LoginSubjects, SubjectsAreFinite, TotalType, TotalIsOf DEF SInv, CInv
  <2>2. Cardinality(Between) \in Nat
    BY SubjectsAreFinite, FS_Subset, FS_CardinalityType DEF Between
  <2>3. a + Cardinality(Between) <= i
    BY DEF SInv, Shielded
  <2>. HIDE DEF i, a
  <2>4. a <= i
    BY <2>1, <2>2, <2>3
  <2>. QED BY <2>4 DEF AddressShieldsAccounts, i, a
<1>. QED BY <1>1, <1>2, <1>3, PTL DEF Spec

=============================================================================
