-------------------------- MODULE PointTotalsProofs --------------------------
(***************************************************************************)
(* What Total returns for every finite domain: it is a natural number, it  *)
(* is additive, and a change at one place changes it by that amount.       *)
(***************************************************************************)
EXTENDS PointTotals, FiniteSetTheorems, TLAPS

(* A point of f is a pair of a place and an index within its amount. *)
LEMMA UnitsMember ==
  ASSUME NEW S, NEW f \in [S -> Nat], NEW w
  PROVE  w \in Units(f) <=> \E x \in S : \E i \in 1 .. f[x] : w = <<x, i>>
  BY DEF Units

(* Finitely many points in finitely many places. *)
LEMMA UnitsFinite ==
  ASSUME NEW S, IsFiniteSet(S), NEW f \in [S -> Nat]
  PROVE  IsFiniteSet(Units(f))
<1> DEFINE P(x) == {x} \X (1 .. f[x])
           Q == {P(x) : x \in S}
           g == [x \in S |-> P(x)]
<1>1. IsFiniteSet(Q)
  <2>1. g \in Surjection(S, Q)
    BY DEF Surjection
  <2> QED BY <2>1, FS_Surjection
<1>2. ASSUME NEW T \in Q
      PROVE  IsFiniteSet(T)
  <2>1. PICK x \in S : T = P(x)
    OBVIOUS
  <2>2. IsFiniteSet({x})
    BY FS_Singleton
  <2>3. IsFiniteSet(1 .. f[x])
    <3>1. f[x] \in Int
      OBVIOUS
    <3> QED BY <3>1, FS_Interval
  <2> QED BY <2>1, <2>2, <2>3, FS_Product
<1>3. IsFiniteSet(UNION Q)
  <2> HIDE DEF Q
  <2> QED BY <1>1, <1>2, FS_UNION
<1>4. Units(f) = UNION Q
  BY DEF Units
<1> QED BY <1>3, <1>4

(* A total of amounts is a natural number: sums of rows are never negative. *)
LEMMA TotalType ==
  ASSUME NEW S, IsFiniteSet(S), NEW f \in [S -> Nat]
  PROVE  Total(f) \in Nat
  BY UnitsFinite, FS_CardinalityType DEF Total

(* A total with no points is 0. *)
LEMMA TotalZero ==
  ASSUME NEW S, NEW f \in [S -> Nat], \A x \in S : f[x] = 0
  PROVE  Total(f) = 0
<1>1. Units(f) = {}
  BY UnitsMember
<1> QED BY <1>1, FS_EmptySet DEF Total

(* A function over S with all its points in x totals what it holds in x. *)
LEMMA TotalSingle ==
  ASSUME NEW S, NEW x \in S, NEW p \in Nat
  PROVE  Total(Single(S, x, p)) = p
<1> DEFINE f == Single(S, x, p)
           h == [i \in 1 .. p |-> <<x, i>>]
<1>1. f \in [S -> Nat] /\ f[x] = p /\ \A y \in S \ {x} : f[y] = 0
  BY DEF Single
<1>2. \A w : w \in Units(f) <=> \E i \in 1 .. p : w = <<x, i>>
  <2> HIDE DEF f
  <2> TAKE w
  <2>1. w \in Units(f) <=> \E y \in S : \E i \in 1 .. f[y] : w = <<y, i>>
    BY <1>1, UnitsMember
  <2> QED BY <1>1, <2>1
<1>3. h \in Bijection(1 .. p, Units(f))
  BY <1>2 DEF Bijection, Injection, Surjection, IsInjective
<1>4. IsFiniteSet(1 .. p) /\ Cardinality(1 .. p) = p
  BY FS_Interval
<1>5. Cardinality(Units(f)) = Cardinality(1 .. p)
  BY <1>3, <1>4, FS_Bijection DEF ExistsBijection
<1> QED BY <1>4, <1>5 DEF Total

(* Adding amounts place by place adds the totals. *)
LEMMA TotalPlus ==
  ASSUME NEW S, IsFiniteSet(S), NEW f \in [S -> Nat], NEW g \in [S -> Nat]
  PROVE  /\ Plus(f, g) \in [S -> Nat]
         /\ Total(Plus(f, g)) = Total(f) + Total(g)
<1> DEFINE s == Plus(f, g)
           Upper == Units(s) \ Units(f)
           h == [w \in Units(g) |-> <<w[1], w[2] + f[w[1]]>>]
<1>1. s \in [S -> Nat] /\ \A x \in S : s[x] = f[x] + g[x]
  BY DEF Plus
<1> HIDE DEF s
<1>2. Units(f) \subseteq Units(s)
  <2> SUFFICES ASSUME NEW w \in Units(f) PROVE w \in Units(s)
    OBVIOUS
  <2>1. PICK x, i : x \in S /\ i \in 1 .. f[x] /\ w = <<x, i>>
    BY UnitsMember
  <2>2. i \in 1 .. s[x]
    BY <1>1, <2>1
  <2> QED BY <1>1, <2>1, <2>2, UnitsMember
<1>3. \A w : w \in Upper <=> \E x \in S : \E i \in 1 .. g[x] : w = <<x, i + f[x]>>
  <2> SUFFICES ASSUME NEW w
               PROVE  w \in Upper <=> \E x \in S : \E i \in 1 .. g[x] : w = <<x, i + f[x]>>
    OBVIOUS
  <2>1. ASSUME w \in Upper
        PROVE  \E x \in S : \E i \in 1 .. g[x] : w = <<x, i + f[x]>>
    <3>1. PICK x, j : x \in S /\ j \in 1 .. s[x] /\ w = <<x, j>>
      BY <1>1, <2>1, UnitsMember
    <3>2. j \notin 1 .. f[x]
      BY <2>1, <3>1, UnitsMember
    <3>3. j - f[x] \in 1 .. g[x] /\ j = (j - f[x]) + f[x]
      BY <1>1, <3>1, <3>2
    <3> QED BY <3>1, <3>3
  <2>2. ASSUME NEW x \in S, NEW i, i \in 1 .. g[x], w = <<x, i + f[x]>>
        PROVE  w \in Upper
    <3>1. i + f[x] \in 1 .. s[x] /\ i + f[x] \notin 1 .. f[x]
      BY <1>1, <2>2
    <3>2. w \in Units(s)
      BY <1>1, <2>2, <3>1, UnitsMember
    <3>3. w \notin Units(f)
      BY <2>2, <3>1, UnitsMember
    <3> QED BY <3>2, <3>3
  <2> QED BY <2>1, <2>2
<1>4. h \in Bijection(Units(g), Upper)
  <2>1. \A w \in Units(g) : \E x \in S : \E i \in 1 .. g[x] : w = <<x, i>> /\ h[w] = <<x, i + f[x]>>
    BY UnitsMember
  <2>2. \A w \in Units(g) : h[w] \in Upper
    BY <1>3, <2>1
  <2>3. \A v, w \in Units(g) : h[v] = h[w] => v = w
    <3> SUFFICES ASSUME NEW v \in Units(g), NEW w \in Units(g), h[v] = h[w]
                 PROVE  v = w
      OBVIOUS
    <3>1. PICK x, i : x \in S /\ i \in 1 .. g[x] /\ v = <<x, i>> /\ h[v] = <<x, i + f[x]>>
      BY <2>1
    <3>2. PICK y, j : y \in S /\ j \in 1 .. g[y] /\ w = <<y, j>> /\ h[w] = <<y, j + f[y]>>
      BY <2>1
    <3>3. x = y /\ i + f[x] = j + f[x]
      BY <3>1, <3>2
    <3>4. i = j
      BY <3>1, <3>2, <3>3
    <3> QED BY <3>1, <3>2, <3>3, <3>4
  <2>4. \A u \in Upper : \E w \in Units(g) : h[w] = u
    <3> SUFFICES ASSUME NEW u \in Upper PROVE \E w \in Units(g) : h[w] = u
      OBVIOUS
    <3>1. PICK x, i : x \in S /\ i \in 1 .. g[x] /\ u = <<x, i + f[x]>>
      BY <1>3
    <3>2. <<x, i>> \in Units(g)
      BY <3>1, UnitsMember
    <3> QED BY <3>1, <3>2
  <2>5. h \in [Units(g) -> Upper]
    BY <2>2
  <2> HIDE DEF h, Upper
  <2> QED BY <2>3, <2>4, <2>5 DEF Bijection, Injection, Surjection, IsInjective
<1>5. IsFiniteSet(Units(s)) /\ IsFiniteSet(Units(f)) /\ IsFiniteSet(Units(g))
  BY <1>1, UnitsFinite
<1>6. Cardinality(Upper) = Cardinality(Units(g))
  BY <1>4, <1>5, FS_Bijection DEF ExistsBijection
<1>7. Cardinality(Upper) = Cardinality(Units(s)) - Cardinality(Units(f))
  <2>1. Units(s) \cap Units(f) = Units(f)
    BY <1>2
  <2> QED BY <1>5, <2>1, FS_Difference
<1>8. /\ Cardinality(Units(s)) \in Nat
      /\ Cardinality(Units(f)) \in Nat
      /\ Cardinality(Units(g)) \in Nat
  BY <1>5, FS_CardinalityType
<1>9. Total(s) = Total(f) + Total(g)
  BY <1>6, <1>7, <1>8 DEF Total
<1> QED BY <1>1, <1>9 DEF s

(* Taking amounts that are there takes their total. *)
LEMMA TotalMinus ==
  ASSUME NEW S, IsFiniteSet(S), NEW f \in [S -> Nat], NEW g \in [S -> Nat],
         \A x \in S : g[x] <= f[x]
  PROVE  /\ Minus(f, g) \in [S -> Nat]
         /\ Total(Minus(f, g)) = Total(f) - Total(g)
<1> DEFINE d == Minus(f, g)
<1>1. d \in [S -> Nat] /\ \A x \in S : d[x] = f[x] - g[x]
  BY DEF Minus
<1>2. Plus(d, g) = f
  <2> HIDE DEF d
  <2> QED BY <1>1 DEF Plus
<1>3. Total(f) = Total(d) + Total(g)
  <2> HIDE DEF d
  <2> QED BY <1>1, <1>2, TotalPlus
<1>4. Total(d) \in Nat /\ Total(g) \in Nat /\ Total(f) \in Nat
  <2> HIDE DEF d
  <2> QED BY <1>1, TotalType
<1> QED BY <1>1, <1>3, <1>4

(* A change at one place changes the total by that change. *)
LEMMA TotalChange ==
  ASSUME NEW S, IsFiniteSet(S), NEW f \in [S -> Nat], NEW g \in [S -> Nat], NEW x \in S,
         \A y \in S \ {x} : g[y] = f[y]
  PROVE  Total(g) = Total(f) - f[x] + g[x]
<1> DEFINE low == [f EXCEPT ![x] = 0]
           one == Single(S, x, f[x])
           new == Single(S, x, g[x])
<1>1. low \in [S -> Nat] /\ one \in [S -> Nat] /\ new \in [S -> Nat]
  BY DEF Single
<1>2. Plus(low, one) = f
  BY DEF Plus, Single
<1>3. Plus(low, new) = g
  <2>1. \A y \in S : low[y] + new[y] = g[y]
    BY DEF Single
  <2>2. DOMAIN low = S /\ g = [y \in S |-> g[y]]
    OBVIOUS
  <2> QED BY <2>1, <2>2 DEF Plus
<1>4. Total(one) = f[x] /\ Total(new) = g[x]
  BY TotalSingle
<1>5. Total(low) \in Nat
  BY <1>1, TotalType
<1> HIDE DEF low, one, new
<1>6. Total(f) = Total(low) + Total(one)
  BY <1>1, <1>2, TotalPlus
<1>7. Total(g) = Total(low) + Total(new)
  BY <1>1, <1>3, TotalPlus
<1> QED BY <1>4, <1>5, <1>6, <1>7
=============================================================================
