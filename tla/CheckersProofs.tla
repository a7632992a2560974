---------------------------- MODULE CheckersProofs ----------------------------
(***************************************************************************)
(* Proofs about the checkers, for any two texts: what the standard checker *)
(* compares, which checker accepts what another accepts, and that none of  *)
(* them gives more points than the case is worth.                          *)
(***************************************************************************)
EXTENDS MCRules, FiniteSetTheorems, WellFoundedInduction, TLAPS

\* A set of numbers has a least one.
LEMMA Least ==
    ASSUME NEW N \in SUBSET Nat, N # {}
    PROVE  \E n \in N : \A m \in N : n <= m
<1>1. PICK n \in N : \A m \in N : ~(<<m, n>> \in OpToRel(<, Nat))
  BY NatLessThanWellFounded, WFMin, Zenon
<1>2. \A m \in N : ~(m < n)
  BY <1>1 DEF OpToRel
<1>3. QED
  BY <1>2

-------------------------------------------------------------------------------
(* Texts: the tokens of a text and its lines, as places.                   *)

LEMMA CheckersCardinality == \A S : Chk!Cardinality(S) = Cardinality(S)
BY DEF Chk!Cardinality, Cardinality

LEMMA LeastIs ==
    ASSUME NEW N \in SUBSET Nat, N # {}
    PROVE  Chk!Least(N) \in N /\ \A m \in N : Chk!Least(N) <= m
<1>1. \E n \in N : \A m \in N : n <= m
  BY Least
<1>2. QED
  BY <1>1 DEF Chk!Least

\* The elements of a set of numbers, in order.
Increasing(f, n) == \A k, l \in 1 .. n : k < l => f[k] < f[l]

LEMMA SortedIs ==
    ASSUME NEW S \in SUBSET Nat, IsFiniteSet(S)
    PROVE  /\ Cardinality(S) \in Nat
           /\ Chk!Sorted(S) \in [1 .. Cardinality(S) -> S]
           /\ Increasing(Chk!Sorted(S), Cardinality(S))
           /\ \A x \in S : \E k \in 1 .. Cardinality(S) : Chk!Sorted(S)[k] = x
<1> DEFINE below(x) == {y \in S : y < x}
           count(x) == Cardinality(below(x))
           n == Cardinality(S)
<1>1. n \in Nat
  BY FS_CardinalityType
<1>2. \A x \in S : IsFiniteSet(below(x)) /\ count(x) \in Nat
  BY FS_Subset, FS_CardinalityType
<1>3. ASSUME NEW x \in S, NEW y \in S, x < y PROVE count(x) < count(y)
  <2>1. below(x) \in SUBSET below(y) /\ x \in below(y) /\ x \notin below(x)
    <3>1. \A z \in S : z < x => z < y
      BY <1>3
    <3>2. x < y /\ ~(x < x)
      BY <1>3
    <3>3. QED
      BY <3>1, <3>2
  <2> HIDE DEF below
  <2>2. count(x) <= count(y) /\ (count(x) = count(y) => below(x) = below(y))
    BY <1>2, <2>1, FS_Subset
  <2>3. QED
    BY <1>2, <2>1, <2>2
<1>4. ASSUME NEW x \in S PROVE count(x) < n
  <2>1. below(x) \in SUBSET S /\ x \notin below(x)
    OBVIOUS
  <2> HIDE DEF below
  <2>2. count(x) <= n /\ (count(x) = n => below(x) = S)
    BY <2>1, FS_Subset
  <2>3. QED
    BY <1>1, <1>2, <2>1, <2>2
<1> HIDE DEF below, count, n
<1> DEFINE g == [x \in S |-> count(x) + 1]
<1>5. \A x, y \in S : x < y \/ y < x \/ x = y
  OBVIOUS
<1>6. \A x, y \in S : count(x) = count(y) => x = y
  BY <1>2, <1>3, <1>5
<1>7. g \in Injection(S, 1 .. n)
  <2>1. ASSUME NEW x \in S PROVE count(x) + 1 \in 1 .. n
    BY <1>1, <1>2, <1>4
  <2>2. g \in [S -> 1 .. n]
    BY <2>1
  <2>3. \A x, y \in S : g[x] = g[y] => x = y
    BY <1>2, <1>6
  <2>4. QED
    BY <2>2, <2>3 DEF Injection, IsInjective
<1>8. IsFiniteSet(1 .. n) /\ Cardinality(1 .. n) = n
  BY <1>1, FS_Interval
<1>9. g \in Surjection(S, 1 .. n)
  BY <1>7, <1>8, FS_Injection DEF n
<1>10. \A k \in 1 .. n : \E x \in S : count(x) = k - 1
  <2> SUFFICES ASSUME NEW k \in 1 .. n PROVE \E x \in S : count(x) = k - 1
    OBVIOUS
  <2>1. PICK x \in S : g[x] = k
    BY <1>9 DEF Surjection
  <2>2. QED
    BY <1>2, <2>1
<1> DEFINE f == Chk!Sorted(S)
<1>11. f = [k \in 1 .. n |-> CHOOSE x \in S : count(x) = k - 1]
  <2>1. \A x : Chk!Cardinality({y \in S : y < x}) = count(x)
    BY CheckersCardinality DEF count, below
  <2>2. Chk!Cardinality(S) = n
    BY CheckersCardinality DEF n
  <2>3. QED
    BY <2>1, <2>2 DEF Chk!Sorted
<1> HIDE DEF f, g
<1>12. \A k \in 1 .. n : f[k] \in S /\ count(f[k]) = k - 1
  BY <1>10, <1>11
<1>13. f \in [1 .. n -> S]
  BY <1>11, <1>12
<1>14. ASSUME NEW k \in 1 .. n, NEW l \in 1 .. n, k < l PROVE f[k] < f[l]
  <2>1. f[k] \in S /\ f[l] \in S /\ count(f[k]) = k - 1 /\ count(f[l]) = l - 1
    BY <1>12
  <2>2. ~(count(f[l]) < count(f[k])) /\ count(f[l]) # count(f[k])
    BY <1>14, <2>1
  <2>3. QED
    BY <1>3, <1>5, <2>1, <2>2
<1>15. ASSUME NEW x \in S PROVE \E k \in 1 .. n : f[k] = x
  <2>1. count(x) + 1 \in 1 .. n
    BY <1>1, <1>2, <1>4
  <2>2. f[count(x) + 1] \in S /\ count(f[count(x) + 1]) = count(x)
    BY <1>2, <1>12, <2>1
  <2>3. QED
    BY <1>6, <2>1, <2>2
<1>16. QED
  BY <1>1, <1>13, <1>14, <1>15 DEF Increasing, f, n

\* There is one way to put them in order.
LEMMA SortedOnly ==
    ASSUME NEW S \in SUBSET Nat, NEW n \in Nat, NEW f \in [1 .. n -> S], Increasing(f, n),
           \A x \in S : \E k \in 1 .. n : f[k] = x
    PROVE  IsFiniteSet(S) /\ Cardinality(S) = n /\ Chk!Sorted(S) = f
<1> DEFINE g == Chk!Sorted(S)
<1>1. IsFiniteSet(1 .. n) /\ Cardinality(1 .. n) = n
  BY FS_Interval
<1>2. f \in Bijection(1 .. n, S)
  <2>1. f \in Surjection(1 .. n, S)
    BY DEF Surjection
  <2>2. ASSUME NEW k \in 1 .. n, NEW l \in 1 .. n, f[k] = f[l] PROVE k = l
    <3>1. f[k] \in Nat /\ f[l] \in Nat
      OBVIOUS
    <3>2. ~(k < l) /\ ~(l < k)
      BY <2>2, <3>1 DEF Increasing
    <3>3. QED
      BY <3>2
  <2>3. f \in Injection(1 .. n, S)
    BY <2>2 DEF Injection, IsInjective
  <2>4. QED
    BY <2>1, <2>3 DEF Bijection
<1>3. IsFiniteSet(S) /\ Cardinality(S) = n
  <2>1. ExistsBijection(1 .. n, S)
    BY <1>2 DEF ExistsBijection
  <2>2. QED
    BY <1>1, <2>1, FS_Bijection
<1>4. g \in [1 .. n -> S] /\ Increasing(g, n) /\ \A x \in S : \E k \in 1 .. n : g[k] = x
  BY <1>3, SortedIs
<1> HIDE DEF g
<1> DEFINE N == {k \in 1 .. n : f[k] # g[k]}
<1> SUFFICES ASSUME N # {} PROVE FALSE
  <2>1. \A k \in 1 .. n : f[k] = g[k]
    OBVIOUS
  <2>2. g = f
    BY <1>4, <2>1
  <2>3. QED
    BY <1>3, <2>2 DEF g
<1>5. PICK k \in N : \A m \in N : k <= m
  <2>1. N \in SUBSET Nat
    OBVIOUS
  <2>2. QED
    BY <2>1, Least
<1>6. k \in 1 .. n /\ f[k] \in S /\ g[k] \in S /\ f[k] \in Nat /\ g[k] \in Nat /\ f[k] # g[k]
  BY <1>4
<1>7. \A m \in 1 .. n : m < k => f[m] = g[m]
  BY <1>5, <1>6
<1>8. CASE f[k] < g[k]
  <2>1. PICK m \in 1 .. n : g[m] = f[k]
    BY <1>4, <1>6
  <2>2. ~(k < m) /\ m # k
    BY <1>4, <1>6, <1>8, <2>1 DEF Increasing
  <2>3. m < k
    BY <1>6, <2>2
  <2>4. f[m] = f[k]
    BY <1>7, <2>1, <2>3
  <2>5. QED
    BY <1>6, <2>3, <2>4 DEF Increasing
<1>9. CASE g[k] < f[k]
  <2>1. PICK m \in 1 .. n : f[m] = g[k]
    BY <1>6
  <2>2. ~(k < m) /\ m # k
    BY <1>6, <1>9, <2>1 DEF Increasing
  <2>3. m < k
    BY <1>6, <2>2
  <2>4. g[m] = g[k]
    BY <1>7, <2>1, <2>3
  <2>5. QED
    BY <1>4, <1>6, <2>3, <2>4 DEF Increasing
<1>10. QED
  BY <1>6, <1>8, <1>9

LEMMA SkipWhiteOnly ==
    ASSUME NEW S, NEW s \in Seq(S), NEW i0 \in 1 .. Len(s) + 1, NEW q \in i0 .. Len(s) + 1,
           \A m \in i0 .. q - 1 : Chk!White(s[m]), q <= Len(s) => ~Chk!White(s[q])
    PROVE  Chk!SkipWhite(s, i0) = q
<1> DEFINE N == {k \in i0 .. Len(s) : ~Chk!White(s[k])} \cup {Len(s) + 1}
<1>1. N \in SUBSET Nat /\ N # {}
  OBVIOUS
<1>2. q \in N /\ \A m \in N : q <= m
  OBVIOUS
<1>3. Chk!Least(N) \in N /\ \A m \in N : Chk!Least(N) <= m
  BY <1>1, LeastIs
<1>4. Chk!SkipWhite(s, i0) = Chk!Least(N)
  BY DEF Chk!SkipWhite
<1> HIDE DEF N
<1>5. Chk!Least(N) \in Nat /\ q \in Nat
  BY <1>1, <1>2, <1>3
<1>6. QED
  BY <1>2, <1>3, <1>4, <1>5

LEMMA SkipBlackOnly ==
    ASSUME NEW S, NEW s \in Seq(S), NEW i0 \in 1 .. Len(s) + 1, NEW q \in i0 .. Len(s) + 1,
           \A m \in i0 .. q - 1 : ~Chk!White(s[m]), q <= Len(s) => Chk!White(s[q])
    PROVE  Chk!SkipBlack(s, i0) = q
<1> DEFINE N == {k \in i0 .. Len(s) : Chk!White(s[k])} \cup {Len(s) + 1}
<1>1. N \in SUBSET Nat /\ N # {}
  OBVIOUS
<1>2. q \in N /\ \A m \in N : q <= m
  OBVIOUS
<1>3. Chk!Least(N) \in N /\ \A m \in N : Chk!Least(N) <= m
  BY <1>1, LeastIs
<1>4. Chk!SkipBlack(s, i0) = Chk!Least(N)
  BY DEF Chk!SkipBlack
<1> HIDE DEF N
<1>5. Chk!Least(N) \in Nat /\ q \in Nat
  BY <1>1, <1>2, <1>3
<1>6. QED
  BY <1>2, <1>3, <1>4, <1>5

LEMMA SkipWhiteIs ==
    ASSUME NEW S, NEW s \in Seq(S), NEW i0 \in 1 .. Len(s) + 1
    PROVE  /\ Chk!SkipWhite(s, i0) \in i0 .. Len(s) + 1
           /\ \A m \in i0 .. Chk!SkipWhite(s, i0) - 1 : Chk!White(s[m])
           /\ Chk!SkipWhite(s, i0) <= Len(s) => ~Chk!White(s[Chk!SkipWhite(s, i0)])
<1> DEFINE N == {k \in i0 .. Len(s) : ~Chk!White(s[k])} \cup {Len(s) + 1}
<1>1. N \in SUBSET Nat /\ N # {}
  OBVIOUS
<1>2. PICK q \in N : \A m \in N : q <= m
  BY <1>1, Least
<1>3. q \in i0 .. Len(s) + 1 /\ (q <= Len(s) => ~Chk!White(s[q]))
  BY <1>2
<1>4. \A m \in i0 .. q - 1 : Chk!White(s[m])
  BY <1>2, <1>3
<1>5. Chk!SkipWhite(s, i0) = q
  BY <1>3, <1>4, SkipWhiteOnly
<1>6. QED
  BY <1>3, <1>4, <1>5

LEMMA SkipBlackIs ==
    ASSUME NEW S, NEW s \in Seq(S), NEW i0 \in 1 .. Len(s) + 1
    PROVE  /\ Chk!SkipBlack(s, i0) \in i0 .. Len(s) + 1
           /\ \A m \in i0 .. Chk!SkipBlack(s, i0) - 1 : ~Chk!White(s[m])
           /\ Chk!SkipBlack(s, i0) <= Len(s) => Chk!White(s[Chk!SkipBlack(s, i0)])
<1> DEFINE N == {k \in i0 .. Len(s) : Chk!White(s[k])} \cup {Len(s) + 1}
<1>1. N \in SUBSET Nat /\ N # {}
  OBVIOUS
<1>2. PICK q \in N : \A m \in N : q <= m
  BY <1>1, Least
<1>3. q \in i0 .. Len(s) + 1 /\ (q <= Len(s) => Chk!White(s[q]))
  BY <1>2
<1>4. \A m \in i0 .. q - 1 : ~Chk!White(s[m])
  BY <1>2, <1>3
<1>5. Chk!SkipBlack(s, i0) = q
  BY <1>3, <1>4, SkipBlackOnly
<1>6. QED
  BY <1>3, <1>4, <1>5

Starts(s) == {k \in DOMAIN s : ~Chk!White(s[k]) /\ (k = 1 \/ Chk!White(s[k - 1]))}

\* s has n tokens, from st[k] to e[k] - 1, and white space around them.
IsTokens(s, n, st, e) ==
    /\ n \in Nat /\ st \in [1 .. n -> 1 .. Len(s)] /\ e \in [1 .. n -> 1 .. Len(s) + 1]
    /\ \A k \in 1 .. n :
         /\ st[k] < e[k]
         /\ \A m \in st[k] .. e[k] - 1 : ~Chk!White(s[m])
         /\ e[k] <= Len(s) => Chk!White(s[e[k]])
    /\ \A k \in 1 .. n - 1 :
         /\ e[k] < st[k + 1]
         /\ \A m \in e[k] .. st[k + 1] - 1 : Chk!White(s[m])
    /\ \A m \in 1 .. Len(s) : n = 0 \/ m < st[1] \/ e[n] <= m => Chk!White(s[m])

LEMMA NoStart ==
    ASSUME NEW S, NEW s \in Seq(S), NEW a \in 1 .. Len(s) + 1, NEW b \in a .. Len(s) + 1,
           a = 1 \/ a = Len(s) + 1 \/ Chk!White(s[a]),
           \A x \in Starts(s) : ~(a <= x /\ x < b)
    PROVE  \A m \in a .. b - 1 : Chk!White(s[m])
<1> DEFINE N == {m \in a .. b - 1 : ~Chk!White(s[m])}
<1> SUFFICES ASSUME N # {} PROVE FALSE
  OBVIOUS
<1>1. PICK m \in N : \A x \in N : m <= x
  <2>1. N \in SUBSET Nat
    OBVIOUS
  <2>2. QED
    BY <2>1, Least
<1>2. m \in 1 .. Len(s) /\ ~Chk!White(s[m]) /\ a <= m /\ m < b
  OBVIOUS
<1>3. m \notin Starts(s)
  BY <1>2
<1>4. m # 1 /\ ~Chk!White(s[m - 1])
  BY <1>2, <1>3 DEF Starts
<1>5. CASE m - 1 \in a .. b - 1
  <2>1. m - 1 \in N
    BY <1>4, <1>5
  <2>2. QED
    BY <1>1, <1>2, <2>1
<1>6. CASE m - 1 \notin a .. b - 1
  <2>1. m = a
    BY <1>2, <1>4, <1>6
  <2>2. QED
    BY <1>2, <1>4, <2>1
<1>7. QED
  BY <1>5, <1>6

LEMMA TokensAre ==
    ASSUME NEW S, NEW s \in Seq(S)
    PROVE  \E n, st, e : IsTokens(s, n, st, e)
<1> DEFINE n == Cardinality(Starts(s))
           st == Chk!Sorted(Starts(s))
           e == [k \in 1 .. n |-> Chk!SkipBlack(s, st[k])]
<1>1. Len(s) \in Nat /\ DOMAIN s = 1 .. Len(s)
  OBVIOUS
<1>2. Starts(s) \in SUBSET (1 .. Len(s)) /\ Starts(s) \in SUBSET Nat /\ IsFiniteSet(Starts(s))
  <2>1. Starts(s) \in SUBSET (1 .. Len(s))
    BY <1>1 DEF Starts
  <2>2. IsFiniteSet(1 .. Len(s))
    BY <1>1, FS_Interval
  <2>3. QED
    BY <2>1, <2>2, FS_Subset
<1>3. /\ n \in Nat /\ st \in [1 .. n -> Starts(s)] /\ Increasing(st, n)
      /\ \A x \in Starts(s) : \E k \in 1 .. n : st[k] = x
  BY <1>2, SortedIs
<1> HIDE DEF n, st
<1>4. ASSUME NEW k \in 1 .. n
      PROVE  /\ st[k] \in 1 .. Len(s) /\ e[k] \in st[k] + 1 .. Len(s) + 1
             /\ \A m \in st[k] .. e[k] - 1 : ~Chk!White(s[m])
             /\ e[k] <= Len(s) => Chk!White(s[e[k]])
             /\ ~Chk!White(s[st[k]]) /\ (st[k] = 1 \/ Chk!White(s[st[k] - 1]))
  <2>1. st[k] \in Starts(s)
    BY <1>3
  <2>2. /\ st[k] \in 1 .. Len(s) /\ st[k] \in 1 .. Len(s) + 1
        /\ ~Chk!White(s[st[k]]) /\ (st[k] = 1 \/ Chk!White(s[st[k] - 1]))
    BY <1>1, <2>1 DEF Starts
  <2>3. /\ e[k] \in st[k] .. Len(s) + 1
        /\ \A m \in st[k] .. e[k] - 1 : ~Chk!White(s[m])
        /\ e[k] <= Len(s) => Chk!White(s[e[k]])
    BY <2>2, SkipBlackIs
  <2>4. e[k] # st[k]
    BY <1>1, <2>2, <2>3
  <2>5. QED
    BY <1>1, <2>2, <2>3, <2>4
<1>5. \A k \in 1 .. n : e[k] \in 1 .. Len(s) + 1 /\ st[k] \in 1 .. Len(s)
  BY <1>1, <1>4
<1>6. st \in [1 .. n -> 1 .. Len(s)] /\ e \in [1 .. n -> 1 .. Len(s) + 1]
  BY <1>3, <1>5
<1> HIDE DEF e
<1>7. ASSUME NEW k \in 1 .. n, NEW l \in 1 .. n PROVE st[k] < st[l] <=> k < l
  <2>1. st[k] \in Nat /\ st[l] \in Nat /\ k \in Nat /\ l \in Nat
    BY <1>5
  <2>2. k < l => st[k] < st[l]
    BY <1>3 DEF Increasing
  <2>3. l < k => st[l] < st[k]
    BY <1>3 DEF Increasing
  <2>4. QED
    BY <2>1, <2>2, <2>3
<1>8. ASSUME NEW k \in 1 .. n - 1
      PROVE  e[k] < st[k + 1] /\ \A m \in e[k] .. st[k + 1] - 1 : Chk!White(s[m])
  <2>1. k \in 1 .. n /\ k + 1 \in 1 .. n /\ k < k + 1
    BY <1>3
  <2>2. st[k] < st[k + 1] /\ st[k] \in 1 .. Len(s) /\ st[k + 1] \in 1 .. Len(s)
    BY <1>5, <1>7, <2>1
  <2>3. Chk!White(s[st[k + 1] - 1])
    BY <1>4, <2>1, <2>2
  <2>4. e[k] < st[k + 1]
    <3>1. ~(st[k + 1] - 1 \in st[k] .. e[k] - 1)
      BY <1>4, <2>1, <2>3
    <3>2. e[k] \in 1 .. Len(s) + 1
      BY <1>5, <2>1
    <3>3. QED
      BY <2>2, <3>1, <3>2
  <2>5. ASSUME NEW x \in Starts(s), e[k] <= x, x < st[k + 1] PROVE FALSE
    <3>1. PICK l \in 1 .. n : st[l] = x
      BY <1>3
    <3>2. st[k] < x
      BY <1>2, <1>4, <2>1, <2>2, <2>5
    <3>3. k < l /\ l < k + 1
      BY <1>7, <2>1, <2>5, <3>1, <3>2
    <3>4. QED
      BY <3>3
  <2>6. e[k] \in 1 .. Len(s) + 1 /\ st[k + 1] \in e[k] .. Len(s) + 1 /\ Chk!White(s[e[k]])
    BY <1>1, <1>4, <1>5, <2>1, <2>2, <2>4
  <2>7. QED
    BY <2>4, <2>5, <2>6, NoStart
<1>9. ASSUME NEW m \in 1 .. Len(s), n = 0 \/ m < st[1] \/ e[n] <= m PROVE Chk!White(s[m])
  <2>1. CASE n = 0
    <3>1. Starts(s) = {}
      BY <1>3, <2>1
    <3>2. \A x \in 1 .. Len(s) + 1 - 1 : Chk!White(s[x])
      BY <1>1, <3>1, NoStart
    <3>3. QED
      BY <1>1, <3>2
  <2>2. CASE n # 0 /\ m < st[1]
    <3>1. 1 \in 1 .. n
      BY <1>3, <2>2
    <3>2. ASSUME NEW x \in Starts(s), x < st[1] PROVE FALSE
      <4>1. PICK l \in 1 .. n : st[l] = x
        BY <1>3
      <4>2. QED
        BY <1>7, <3>1, <3>2, <4>1
    <3>3. st[1] \in 1 .. Len(s) + 1 /\ 1 \in 1 .. Len(s) + 1
      BY <1>1, <1>5, <3>1
    <3>4. \A x \in 1 .. st[1] - 1 : Chk!White(s[x])
      BY <3>2, <3>3, NoStart
    <3>5. QED
      BY <2>2, <3>3, <3>4
  <2>3. CASE n # 0 /\ e[n] <= m
    <3>1. n \in 1 .. n
      BY <1>3, <2>3
    <3>2. /\ e[n] \in 1 .. Len(s) + 1 /\ Len(s) + 1 \in e[n] .. Len(s) + 1
          /\ e[n] = Len(s) + 1 \/ Chk!White(s[e[n]])
      <4>1. e[n] \in 1 .. Len(s) + 1
        BY <1>5, <3>1
      <4>2. e[n] <= Len(s) => Chk!White(s[e[n]])
        BY <1>4, <3>1
      <4>3. QED
        BY <1>1, <4>1, <4>2
    <3>3. ASSUME NEW x \in Starts(s), e[n] <= x, x < Len(s) + 1 PROVE FALSE
      <4>1. PICK l \in 1 .. n : st[l] = x
        BY <1>3
      <4>2. st[n] < e[n] /\ st[n] \in Nat
        BY <1>4, <3>1
      <4>3. st[n] < st[l]
        BY <1>2, <3>2, <3>3, <4>1, <4>2
      <4>4. QED
        BY <1>3, <1>7, <3>1, <4>3
    <3>4. \A x \in e[n] .. Len(s) + 1 - 1 : Chk!White(s[x])
      BY <3>2, <3>3, NoStart
    <3>5. QED
      BY <1>1, <2>3, <3>2, <3>4
  <2>4. QED
    BY <1>9, <2>1, <2>2, <2>3
<1>10. \A k \in 1 .. n : st[k] < e[k]
  BY <1>4, <1>5
<1>11. IsTokens(s, n, st, e)
  BY <1>3, <1>4, <1>6, <1>8, <1>9, <1>10 DEF IsTokens
<1>12. QED
  BY <1>11

LEMMA BlackInToken ==
    ASSUME NEW S, NEW s \in Seq(S), NEW n, NEW st, NEW e, IsTokens(s, n, st, e),
           NEW x \in 1 .. Len(s), ~Chk!White(s[x])
    PROVE  \E k \in 1 .. n : st[k] <= x /\ x < e[k]
<1>1. /\ n \in Nat /\ Len(s) \in Nat /\ st \in [1 .. n -> 1 .. Len(s)]
      /\ e \in [1 .. n -> 1 .. Len(s) + 1]
  BY DEF IsTokens
<1>2. n # 0 /\ ~(x < st[1]) /\ ~(e[n] <= x)
  BY DEF IsTokens
<1> DEFINE N == {k \in 1 .. n : x < e[k]}
<1>3. n \in 1 .. n /\ 1 \in 1 .. n
  BY <1>1, <1>2
<1>4. e[n] \in 1 .. Len(s) + 1
  BY <1>1, <1>3
<1>5. n \in N
  BY <1>1, <1>2, <1>3, <1>4
<1>6. PICK k \in N : \A m \in N : k <= m
  <2>1. N \in SUBSET Nat /\ N # {}
    BY <1>5
  <2>2. QED
    BY <2>1, Least
<1>7. k \in 1 .. n /\ x < e[k] /\ st[k] \in 1 .. Len(s)
  BY <1>1
<1>8. st[k] <= x
  <2> SUFFICES ASSUME x < st[k] PROVE FALSE
    BY <1>1, <1>7
  <2>1. k # 1
    BY <1>2
  <2>2. k - 1 \in 1 .. n /\ k - 1 \in 1 .. n - 1 /\ k - 1 + 1 = k /\ ~(k <= k - 1)
    BY <1>1, <1>7, <2>1
  <2>3. ~(x < e[k - 1]) /\ e[k - 1] \in 1 .. Len(s) + 1
    BY <1>1, <1>6, <2>2
  <2>4. x \in e[k - 1] .. st[k] - 1
    BY <1>1, <1>7, <2>3
  <2>5. QED
    BY <2>2, <2>4 DEF IsTokens
<1>9. QED
  BY <1>7, <1>8

\* The tokens come one after the other.
LEMMA TokensOrder ==
    ASSUME NEW S, NEW s \in Seq(S), NEW n, NEW st, NEW e, IsTokens(s, n, st, e)
    PROVE  \A k, l \in 1 .. n : k < l => e[k] < st[l]
<1>1. /\ n \in Nat /\ Len(s) \in Nat /\ st \in [1 .. n -> 1 .. Len(s)]
      /\ e \in [1 .. n -> 1 .. Len(s) + 1]
      /\ \A k \in 1 .. n : st[k] < e[k]
      /\ \A k \in 1 .. n - 1 : e[k] < st[k + 1]
  BY DEF IsTokens
<1> SUFFICES ASSUME NEW k \in 1 .. n PROVE \A l \in 1 .. n : k < l => e[k] < st[l]
  OBVIOUS
<1> DEFINE N == {l \in 1 .. n : k < l /\ ~(e[k] < st[l])}
<1> SUFFICES ASSUME N # {} PROVE FALSE
  OBVIOUS
<1>2. PICK l \in N : \A m \in N : l <= m
  <2>1. N \in SUBSET Nat
    OBVIOUS
  <2>2. QED
    BY <2>1, Least
<1>3. l \in 1 .. n /\ k < l /\ ~(e[k] < st[l])
  OBVIOUS
<1>4. l - 1 \in 1 .. n /\ l - 1 \in 1 .. n - 1 /\ l - 1 + 1 = l /\ ~(l <= l - 1)
  BY <1>1, <1>3
<1>5. e[l - 1] < st[l] /\ st[l - 1] < e[l - 1]
  BY <1>1, <1>4
<1>6. /\ e[k] \in 1 .. Len(s) + 1 /\ e[l - 1] \in 1 .. Len(s) + 1
      /\ st[l] \in 1 .. Len(s) /\ st[l - 1] \in 1 .. Len(s)
  BY <1>1, <1>3, <1>4
<1>7. CASE k = l - 1
  BY <1>3, <1>5, <1>7
<1>8. CASE k # l - 1
  <2>1. k < l - 1
    BY <1>3, <1>8
  <2>2. e[k] < st[l - 1]
    BY <1>2, <1>4, <2>1
  <2>3. QED
    BY <1>1, <1>3, <1>5, <1>6, <2>2
<1>9. QED
  BY <1>7, <1>8

LEMMA TokensOnly ==
    ASSUME NEW S, NEW s \in Seq(S), NEW n, NEW st, NEW e, IsTokens(s, n, st, e)
    PROVE  /\ Chk!Sorted(Starts(s)) = st
           /\ Chk!Tokens(s) = [k \in 1 .. n |-> SubSeq(s, st[k], e[k] - 1)]
<1>1. /\ n \in Nat /\ Len(s) \in Nat /\ DOMAIN s = 1 .. Len(s)
      /\ st \in [1 .. n -> 1 .. Len(s)] /\ e \in [1 .. n -> 1 .. Len(s) + 1]
  BY DEF IsTokens
<1>2. ASSUME NEW k \in 1 .. n
      PROVE  /\ st[k] < e[k] /\ st[k] \in 1 .. Len(s) /\ e[k] \in 1 .. Len(s) + 1
             /\ \A m \in st[k] .. e[k] - 1 : ~Chk!White(s[m])
             /\ e[k] <= Len(s) => Chk!White(s[e[k]])
  BY <1>1 DEF IsTokens
<1>3. ASSUME NEW k \in 1 .. n PROVE st[k] \in Starts(s)
  <2>1. st[k] \in 1 .. Len(s) /\ st[k] \in st[k] .. e[k] - 1
    BY <1>1, <1>2
  <2>2. ~Chk!White(s[st[k]])
    BY <1>2, <2>1
  <2>3. ASSUME st[k] # 1 PROVE Chk!White(s[st[k] - 1])
    <3>1. st[k] - 1 \in 1 .. Len(s)
      BY <1>1, <2>1, <2>3
    <3>2. CASE k = 1
      <4>1. st[k] - 1 < st[1]
        BY <2>1, <3>2
      <4>2. QED
        BY <3>1, <4>1 DEF IsTokens
    <3>3. CASE k # 1
      <4>1. k - 1 \in 1 .. n - 1 /\ k - 1 \in 1 .. n /\ k - 1 + 1 = k
        BY <1>1, <3>3
      <4>2. e[k - 1] < st[k] /\ e[k - 1] \in 1 .. Len(s) + 1
        BY <1>1, <4>1 DEF IsTokens
      <4>3. st[k] - 1 \in e[k - 1] .. st[k] - 1
        BY <2>1, <4>2
      <4>4. QED
        BY <4>1, <4>3 DEF IsTokens
    <3>4. QED
      BY <3>2, <3>3
  <2>4. QED
    BY <1>1, <2>1, <2>2, <2>3 DEF Starts
<1>4. ASSUME NEW x \in Starts(s) PROVE \E k \in 1 .. n : st[k] = x
  <2>1. x \in 1 .. Len(s) /\ ~Chk!White(s[x]) /\ (x = 1 \/ Chk!White(s[x - 1]))
    BY <1>1 DEF Starts
  <2>2. PICK k \in 1 .. n : st[k] <= x /\ x < e[k]
    BY <2>1, BlackInToken
  <2>3. ~(x - 1 \in st[k] .. e[k] - 1) \/ x = 1
    BY <1>2, <2>1
  <2>4. st[k] = x
    BY <1>1, <1>2, <2>1, <2>2, <2>3
  <2>5. QED
    BY <2>4
<1>5. Increasing(st, n)
  <2> SUFFICES ASSUME NEW k \in 1 .. n, NEW l \in 1 .. n, k < l PROVE st[k] < st[l]
    BY DEF Increasing
  <2>1. e[k] < st[l]
    BY TokensOrder
  <2>2. QED
    BY <1>2, <2>1
<1>6. Chk!Sorted(Starts(s)) = st
  <2>1. st \in [1 .. n -> Starts(s)]
    BY <1>1, <1>3
  <2>2. Starts(s) \in SUBSET Nat
    BY <1>1 DEF Starts
  <2>3. QED
    BY <1>1, <1>4, <1>5, <2>1, <2>2, SortedOnly
<1>7. \A k \in 1 .. n : Chk!SkipBlack(s, st[k]) = e[k]
  <2> SUFFICES ASSUME NEW k \in 1 .. n PROVE Chk!SkipBlack(s, st[k]) = e[k]
    OBVIOUS
  <2>1. st[k] \in 1 .. Len(s) + 1 /\ e[k] \in st[k] .. Len(s) + 1
    BY <1>1, <1>2
  <2>2. QED
    BY <1>2, <2>1, SkipBlackOnly
<1>8. Chk!Tokens(s) = [k \in 1 .. n |-> SubSeq(s, st[k], e[k] - 1)]
  <2>1. Chk!Tokens(s) =
          [k \in DOMAIN Chk!Sorted(Starts(s)) |->
             SubSeq(s, Chk!Sorted(Starts(s))[k], Chk!SkipBlack(s, Chk!Sorted(Starts(s))[k]) - 1)]
    BY DEF Chk!Tokens, Starts
  <2>2. DOMAIN st = 1 .. n
    BY <1>1
  <2>3. QED
    BY <1>6, <1>7, <2>1, <2>2
<1>9. QED
  BY <1>6, <1>8

\* The passes of the standard checker go from token to token.
LEMMA TokensSkipped ==
    ASSUME NEW S, NEW s \in Seq(S), NEW n, NEW st, NEW e, IsTokens(s, n, st, e)
    PROVE  /\ Chk!SkipWhite(s, 1) = IF n = 0 THEN Len(s) + 1 ELSE st[1]
           /\ \A k \in 1 .. n :
                /\ Chk!SkipWhite(s, e[k]) = IF k = n THEN Len(s) + 1 ELSE st[k + 1]
                /\ Chk!SkipBlack(s, st[k]) = e[k]
                /\ Chk!SkipWhite(s, st[k]) = st[k]
<1>1. /\ n \in Nat /\ Len(s) \in Nat
      /\ st \in [1 .. n -> 1 .. Len(s)] /\ e \in [1 .. n -> 1 .. Len(s) + 1]
      /\ \A m \in 1 .. Len(s) : n = 0 \/ m < st[1] \/ e[n] <= m => Chk!White(s[m])
  BY DEF IsTokens
<1>2. ASSUME NEW k \in 1 .. n
      PROVE  /\ st[k] < e[k] /\ st[k] \in 1 .. Len(s) /\ e[k] \in 1 .. Len(s) + 1
             /\ \A m \in st[k] .. e[k] - 1 : ~Chk!White(s[m])
             /\ e[k] <= Len(s) => Chk!White(s[e[k]])
             /\ ~Chk!White(s[st[k]])
  <2>1. /\ st[k] < e[k] /\ st[k] \in 1 .. Len(s) /\ e[k] \in 1 .. Len(s) + 1
        /\ \A m \in st[k] .. e[k] - 1 : ~Chk!White(s[m])
        /\ e[k] <= Len(s) => Chk!White(s[e[k]])
    BY <1>1 DEF IsTokens
  <2>2. st[k] \in st[k] .. e[k] - 1
    BY <1>1, <2>1
  <2>3. QED
    BY <2>1, <2>2
<1>3. Chk!SkipWhite(s, 1) = IF n = 0 THEN Len(s) + 1 ELSE st[1]
  <2>1. CASE n = 0
    <3>1. 1 \in 1 .. Len(s) + 1 /\ Len(s) + 1 \in 1 .. Len(s) + 1 /\ ~(Len(s) + 1 <= Len(s))
          /\ Len(s) + 1 - 1 = Len(s)
      BY <1>1
    <3>2. \A m \in 1 .. Len(s) + 1 - 1 : Chk!White(s[m])
      BY <1>1, <2>1, <3>1
    <3>3. QED
      BY <2>1, <3>1, <3>2, SkipWhiteOnly
  <2>2. CASE n # 0
    <3>1. 1 \in 1 .. n
      BY <1>1, <2>2
    <3>2. 1 \in 1 .. Len(s) + 1 /\ st[1] \in 1 .. Len(s) + 1
      BY <1>1, <1>2, <3>1
    <3>3. ASSUME NEW m \in 1 .. st[1] - 1 PROVE Chk!White(s[m])
      <4>1. m \in 1 .. Len(s) /\ m < st[1]
        BY <1>1, <1>2, <3>1
      <4>2. QED
        BY <1>1, <4>1
    <3>4. QED
      BY <1>2, <2>2, <3>1, <3>2, <3>3, SkipWhiteOnly
  <2>3. QED
    BY <2>1, <2>2
<1>4. ASSUME NEW k \in 1 .. n
      PROVE  Chk!SkipWhite(s, e[k]) = IF k = n THEN Len(s) + 1 ELSE st[k + 1]
  <2>1. CASE k = n
    <3>1. Len(s) + 1 \in e[k] .. Len(s) + 1 /\ ~(Len(s) + 1 <= Len(s)) /\ e[k] \in 1 .. Len(s) + 1
      BY <1>1, <1>2
    <3>2. \A m \in e[k] .. Len(s) + 1 - 1 : Chk!White(s[m])
      BY <1>1, <2>1, <3>1
    <3>3. QED
      BY <2>1, <3>1, <3>2, SkipWhiteOnly
  <2>2. CASE k # n
    <3>1. k \in 1 .. n - 1 /\ k + 1 \in 1 .. n
      BY <1>1, <2>2
    <3>2. e[k] < st[k + 1] /\ \A m \in e[k] .. st[k + 1] - 1 : Chk!White(s[m])
      BY <3>1 DEF IsTokens
    <3>3. st[k + 1] \in e[k] .. Len(s) + 1 /\ e[k] \in 1 .. Len(s) + 1
      BY <1>1, <1>2, <3>1, <3>2
    <3>4. QED
      BY <1>2, <2>2, <3>1, <3>2, <3>3, SkipWhiteOnly
  <2>3. QED
    BY <2>1, <2>2
<1>5. ASSUME NEW k \in 1 .. n
      PROVE  Chk!SkipBlack(s, st[k]) = e[k] /\ Chk!SkipWhite(s, st[k]) = st[k]
  <2>1. st[k] \in 1 .. Len(s) + 1 /\ e[k] \in st[k] .. Len(s) + 1 /\ st[k] \in st[k] .. Len(s) + 1
    BY <1>1, <1>2
  <2>2. \A m \in st[k] .. st[k] - 1 : Chk!White(s[m])
    BY <1>1, <1>2
  <2>3. QED
    BY <1>2, <2>1, <2>2, SkipBlackOnly, SkipWhiteOnly
<1>6. QED
  BY <1>3, <1>4, <1>5

-------------------------------------------------------------------------------
(* The standard checker compares tokens and what separates them.           *)

\* What check_standard has left to compare at x and y.
Rest(j, p, from, x, y) ==
    LET js == Chk!SkipWhite(j, x)
        ps == Chk!SkipWhite(p, y)
        size == Chk!SkipBlack(j, js) - js
    IN  IF js > Len(j) \/ ps > Len(p)
        THEN js > Len(j) /\ ps > Len(p)
        ELSE /\ Chk!Saw(j, x, js) = Chk!Saw(p, y, ps)
             /\ ps + size <= Len(p) + 1
             /\ SubSeq(j, js, js + size - 1) = SubSeq(p, ps, ps + size - 1)
             /\ from[js + size][ps + size]

IsPass(from, a, j, p) ==
    from = [x \in a .. Len(j) + 1 |-> [y \in 1 .. Len(p) + 1 |-> Rest(j, p, from, x, y)]]

LEMMA RestAhead ==
    ASSUME NEW S, NEW j \in Seq(S), NEW p, NEW a \in 1 .. Len(j) + 1, NEW f, NEW g,
           \A x \in a + 1 .. Len(j) + 1 : f[x] = g[x], NEW y
    PROVE  Rest(j, p, f, a, y) = Rest(j, p, g, a, y)
<1> DEFINE js == Chk!SkipWhite(j, a)
<1>1. js \in a .. Len(j) + 1 /\ (js <= Len(j) => ~Chk!White(j[js]))
  BY SkipWhiteIs
<1>2. CASE js > Len(j)
  BY <1>2 DEF Rest
<1>3. CASE ~(js > Len(j))
  <2>1. js \in 1 .. Len(j) + 1
    BY <1>1
  <2>2. /\ Chk!SkipBlack(j, js) \in js .. Len(j) + 1
        /\ Chk!SkipBlack(j, js) <= Len(j) => Chk!White(j[Chk!SkipBlack(j, js)])
    BY <2>1, SkipBlackIs
  <2>3. js <= Len(j) /\ ~Chk!White(j[js])
    BY <1>1, <1>3, <2>1
  <2> HIDE DEF js
  <2>4. Chk!SkipBlack(j, js) # js
    BY <2>2, <2>3
  <2>5. js + (Chk!SkipBlack(j, js) - js) \in a + 1 .. Len(j) + 1
    BY <1>1, <2>1, <2>2, <2>4
  <2>6. f[js + (Chk!SkipBlack(j, js) - js)] = g[js + (Chk!SkipBlack(j, js) - js)]
    BY <2>5
  <2>7. QED
    BY <2>6 DEF Rest, js
<1>4. QED
  BY <1>2, <1>3

LEMMA PassIs ==
    ASSUME NEW S, NEW j \in Seq(S), NEW p
    PROVE  \E from : IsPass(from, 1, j, p)
<1> DEFINE L == Len(j)
           N == {n \in 0 .. L : ~ \E f : IsPass(f, L + 1 - n, j, p)}
<1>1. L \in Nat
  OBVIOUS
<1> HIDE DEF L
<1> SUFFICES ASSUME N # {} PROVE FALSE
  <2>1. L \in 0 .. L /\ L + 1 - L = 1
    BY <1>1
  <2>2. QED
    BY <2>1
<1>2. PICK n \in N : \A m \in N : n <= m
  <2>1. N \in SUBSET Nat
    BY <1>1
  <2>2. QED
    BY <2>1, Least
<1>3. n \in 0 .. L /\ ~ \E f : IsPass(f, L + 1 - n, j, p)
  OBVIOUS
<1> DEFINE a == L + 1 - n
<1>4. \E f : \A x \in a + 1 .. L + 1 : f[x] = [y \in 1 .. Len(p) + 1 |-> Rest(j, p, f, x, y)]
  <2>1. CASE n = 0
    <3>1. \A x \in a + 1 .. L + 1 : FALSE
      BY <1>1, <2>1
    <3>2. QED
      BY <3>1
  <2>2. CASE n # 0
    <3>1. n - 1 \in 0 .. L /\ ~(n <= n - 1) /\ L + 1 - (n - 1) = a + 1
      BY <1>1, <1>3, <2>2
    <3>2. PICK f : IsPass(f, L + 1 - (n - 1), j, p)
      BY <1>2, <3>1
    <3>3. \A x \in a + 1 .. L + 1 : f[x] = [y \in 1 .. Len(p) + 1 |-> Rest(j, p, f, x, y)]
      BY <3>1, <3>2 DEF IsPass, L
    <3>4. QED
      BY <3>3
  <2>3. QED
    BY <2>1, <2>2
<1>5. PICK f : \A x \in a + 1 .. L + 1 : f[x] = [y \in 1 .. Len(p) + 1 |-> Rest(j, p, f, x, y)]
  BY <1>4
<1> DEFINE g == [x \in a .. L + 1 |-> [y \in 1 .. Len(p) + 1 |-> Rest(j, p, f, x, y)]]
<1>6. a \in 1 .. L + 1 /\ \A x \in a .. L + 1 : \A z \in x + 1 .. L + 1 : z \in a + 1 .. L + 1
  BY <1>1, <1>3
<1>7. \A x \in a + 1 .. L + 1 : g[x] = f[x]
  BY <1>5, <1>6
<1> HIDE DEF a
<1>8. ASSUME NEW x \in a .. L + 1
      PROVE  g[x] = [y \in 1 .. Len(p) + 1 |-> Rest(j, p, g, x, y)]
  <2>1. g[x] = [y \in 1 .. Len(p) + 1 |-> Rest(j, p, f, x, y)]
    OBVIOUS
  <2> HIDE DEF g
  <2>2. \A z \in x + 1 .. Len(j) + 1 : f[z] = g[z]
    BY <1>6, <1>7 DEF L
  <2>3. x \in 1 .. Len(j) + 1
    BY <1>1, <1>6 DEF L
  <2>4. \A y : Rest(j, p, f, x, y) = Rest(j, p, g, x, y)
    BY <2>2, <2>3, RestAhead
  <2>5. QED
    BY <2>1, <2>4
<1>9. g = [x \in a .. L + 1 |-> g[x]]
  OBVIOUS
<1> HIDE DEF g
<1>10. IsPass(g, a, j, p)
  <2>1. g = [x \in a .. L + 1 |-> [y \in 1 .. Len(p) + 1 |-> Rest(j, p, g, x, y)]]
    BY <1>8, <1>9
  <2>2. QED
    BY <2>1 DEF IsPass, L
<1>11. QED
  BY <1>3, <1>10 DEF a

LEMMA StandardPasses ==
    ASSUME NEW S, NEW j \in Seq(S), NEW p \in Seq(S)
    PROVE  \E from :
              /\ \A x \in 1 .. Len(j) + 1, y \in 1 .. Len(p) + 1 : from[x][y] = Rest(j, p, from, x, y)
              /\ Chk!Standard(j, p) = from[Chk!SkipWhite(j, 1)][Chk!SkipWhite(p, 1)]
<1>1. \E from : IsPass(from, 1, j, p)
  BY PassIs
<1> DEFINE F == CHOOSE from : IsPass(from, 1, j, p)
<1>2. IsPass(F, 1, j, p)
  BY <1>1
<1>3. Chk!Standard(j, p) = F[Chk!SkipWhite(j, 1)][Chk!SkipWhite(p, 1)]
  BY DEF Chk!Standard, IsPass, Rest
<1> HIDE DEF F
<1>4. \A x \in 1 .. Len(j) + 1, y \in 1 .. Len(p) + 1 : F[x][y] = Rest(j, p, F, x, y)
  <2>1. F = [x \in 1 .. Len(j) + 1 |-> [y \in 1 .. Len(p) + 1 |-> Rest(j, p, F, x, y)]]
    BY <1>2 DEF IsPass
  <2> TAKE x \in 1 .. Len(j) + 1, y \in 1 .. Len(p) + 1
  <2>2. F[x] = [z \in 1 .. Len(p) + 1 |-> Rest(j, p, F, x, z)]
    BY <2>1
  <2>3. QED
    BY <2>2
<1>5. QED
  BY <1>3, <1>4

SameToken(j, sj, ej, k, p, sp, ep, l) == SubSeq(j, sj[k], ej[k] - 1) = SubSeq(p, sp[l], ep[l] - 1)

\* A line ends between the tokens k - 1 and k.
NewLine(s, st, k) == \E m \in st[k - 1] .. st[k] : s[m] = "n"

LEMMA Slices ==
    ASSUME NEW S, NEW s \in Seq(S), NEW a \in 1 .. Len(s), NEW b \in a + 1 .. Len(s) + 1
    PROVE  /\ SubSeq(s, a, b - 1) \in Seq(S) /\ Len(SubSeq(s, a, b - 1)) = b - a
           /\ \A x \in 1 .. b - a : SubSeq(s, a, b - 1)[x] = s[a + x - 1]
<1>1. b - 1 \in 1 .. Len(s) /\ a \in 1 .. Len(s) /\ b - 1 - a + 1 = b - a /\ a <= b - 1
  OBVIOUS
<1> DEFINE c == b - 1
<1>2. c \in 1 .. Len(s) /\ a <= c /\ c - a + 1 = b - a
  BY <1>1
<1> HIDE DEF c
<1>3. SubSeq(s, a, c) \in Seq(S) /\ Len(SubSeq(s, a, c)) = c - a + 1
  BY <1>1, <1>2
<1>4. \A x \in 1 .. c - a + 1 : SubSeq(s, a, c)[x] = s[a + x - 1]
  BY <1>1, <1>2
<1>5. QED
  BY <1>2, <1>3, <1>4 DEF c

LEMMA SawBetween ==
    ASSUME NEW S, NEW s \in Seq(S), NEW n, NEW st, NEW e, IsTokens(s, n, st, e)
    PROVE  /\ \A k \in 1 .. n - 1 :
                Chk!Saw(s, e[k], st[k + 1]) = IF NewLine(s, st, k + 1) THEN 2 ELSE 1
           /\ \A x \in Nat : Chk!Saw(s, x, x) = 0
<1>1. /\ n \in Nat /\ Len(s) \in Nat
      /\ st \in [1 .. n -> 1 .. Len(s)] /\ e \in [1 .. n -> 1 .. Len(s) + 1]
      /\ \A k \in 1 .. n :
           /\ st[k] < e[k]
           /\ \A m \in st[k] .. e[k] - 1 : ~Chk!White(s[m])
      /\ \A k \in 1 .. n - 1 : e[k] < st[k + 1]
  BY DEF IsTokens
<1>2. ASSUME NEW k \in 1 .. n - 1
      PROVE  Chk!Saw(s, e[k], st[k + 1]) = IF NewLine(s, st, k + 1) THEN 2 ELSE 1
  <2>1. k \in 1 .. n /\ k + 1 \in 1 .. n /\ k + 1 - 1 = k
    BY <1>1
  <2>2. /\ st[k] < e[k] /\ e[k] < st[k + 1] /\ st[k] \in Nat /\ e[k] \in Nat /\ st[k + 1] \in Nat
        /\ st[k + 1] < e[k + 1] /\ e[k + 1] \in Nat
    BY <1>1, <2>1
  <2>3. \A m \in st[k] .. e[k] - 1 : s[m] # "n"
    BY <1>1, <2>1 DEF Chk!White
  <2>4. s[st[k + 1]] # "n"
    <3>1. st[k + 1] \in st[k + 1] .. e[k + 1] - 1
      BY <2>2
    <3>2. QED
      BY <1>1, <2>1, <3>1 DEF Chk!White
  <2>5. NewLine(s, st, k + 1) <=> \E m \in e[k] .. st[k + 1] - 1 : s[m] = "n"
    <3>1. ASSUME NEW m \in st[k] .. st[k + 1], s[m] = "n" PROVE m \in e[k] .. st[k + 1] - 1
      <4>1. m \notin st[k] .. e[k] - 1 /\ m # st[k + 1]
        BY <2>3, <2>4, <3>1
      <4>2. QED
        BY <2>2, <4>1
    <3>2. \A m \in e[k] .. st[k + 1] - 1 : m \in st[k] .. st[k + 1]
      BY <2>2
    <3>3. QED
      BY <2>1, <3>1, <3>2 DEF NewLine
  <2>6. QED
    BY <2>2, <2>5 DEF Chk!Saw
<1>3. ASSUME NEW x \in Nat PROVE Chk!Saw(s, x, x) = 0
  BY DEF Chk!Saw
<1>4. QED
  BY <1>2, <1>3

IsRest(from, j, p) ==
    \A x \in 1 .. Len(j) + 1, y \in 1 .. Len(p) + 1 : from[x][y] = Rest(j, p, from, x, y)

LEMMA RestAtEnd ==
    ASSUME NEW j, NEW p, NEW from, IsRest(from, j, p),
           NEW x \in 1 .. Len(j) + 1, NEW y \in 1 .. Len(p) + 1,
           Chk!SkipWhite(j, x) > Len(j) \/ Chk!SkipWhite(p, y) > Len(p)
    PROVE  from[x][y] <=> Chk!SkipWhite(j, x) > Len(j) /\ Chk!SkipWhite(p, y) > Len(p)
<1>1. from[x][y] = Rest(j, p, from, x, y)
  BY DEF IsRest
<1>2. QED
  BY <1>1 DEF Rest

\* The run of text from a to b, found at c, where a longer or equal one begins.
LEMMA SameRun ==
    ASSUME NEW S, NEW j \in Seq(S), NEW p \in Seq(S),
           NEW a \in 1 .. Len(j), NEW b \in a + 1 .. Len(j) + 1,
           \A m \in a .. b - 1 : ~Chk!White(j[m]),
           NEW c \in 1 .. Len(p), NEW d \in c + 1 .. Len(p) + 1,
           d <= Len(p) => Chk!White(p[d]),
           NEW z \in Nat, z = c + (b - a)
    PROVE  /\ SubSeq(j, a, b - 1) = SubSeq(p, c, d - 1) => z = d
           /\ z <= Len(p) + 1 /\ SubSeq(j, a, b - 1) = SubSeq(p, c, z - 1) => z \in c + 1 .. d
<1>1. /\ Len(SubSeq(j, a, b - 1)) = b - a
      /\ \A v \in 1 .. b - a : SubSeq(j, a, b - 1)[v] = j[a + v - 1]
  BY Slices
<1>2. Len(SubSeq(p, c, d - 1)) = d - c
  BY Slices
<1>3. /\ Len(j) \in Nat /\ Len(p) \in Nat /\ a \in Nat /\ b \in Nat /\ c \in Nat /\ d \in Nat
      /\ a < b /\ c < d /\ z > c /\ z - c = b - a
  OBVIOUS
<1>4. ASSUME SubSeq(j, a, b - 1) = SubSeq(p, c, d - 1) PROVE z = d
  <2>1. b - a = d - c
    BY <1>1, <1>2, <1>4
  <2>2. QED
    BY <1>3, <2>1
<1>5. ASSUME z <= Len(p) + 1, SubSeq(j, a, b - 1) = SubSeq(p, c, z - 1) PROVE z \in c + 1 .. d
  <2>1. z \in c + 1 .. Len(p) + 1
    BY <1>3, <1>5
  <2>2. \A v \in 1 .. z - c : SubSeq(p, c, z - 1)[v] = p[c + v - 1]
    BY <2>1, Slices
  <2>3. \A v \in 1 .. z - c : j[a + v - 1] = p[c + v - 1]
    BY <1>1, <1>3, <1>5, <2>2
  <2>4. ASSUME NEW m \in c .. z - 1 PROVE ~Chk!White(p[m])
    <3>1. PICK v \in Nat : v = m - c + 1
      BY <1>3
    <3>2. v \in 1 .. z - c /\ c + v - 1 = m /\ a + v - 1 \in a .. b - 1
      BY <1>3, <3>1
    <3>3. QED
      BY <2>3, <3>2
  <2>5. ~(d < z)
    <3> SUFFICES ASSUME d < z PROVE FALSE
      OBVIOUS
    <3>1. d \in c .. z - 1 /\ d <= Len(p)
      BY <1>3, <2>1
    <3>2. QED
      BY <2>4, <3>1
  <2>6. QED
    BY <1>3, <2>5
<1>6. QED
  BY <1>4, <1>5

LEMMA TokenAt ==
    ASSUME NEW S, NEW s \in Seq(S), NEW n, NEW st, NEW e, IsTokens(s, n, st, e), NEW k \in 1 .. n
    PROVE  /\ st[k] \in 1 .. Len(s) /\ e[k] \in st[k] + 1 .. Len(s) + 1
           /\ st[k] \in 1 .. Len(s) + 1 /\ e[k] \in 1 .. Len(s) + 1
           /\ \A m \in st[k] .. e[k] - 1 : ~Chk!White(s[m])
           /\ e[k] <= Len(s) => Chk!White(s[e[k]])
           /\ k # n => k \in 1 .. n - 1 /\ k + 1 \in 1 .. n
<1>1. /\ n \in Nat /\ Len(s) \in Nat
      /\ st[k] \in 1 .. Len(s) /\ e[k] \in 1 .. Len(s) + 1 /\ st[k] < e[k]
      /\ \A m \in st[k] .. e[k] - 1 : ~Chk!White(s[m])
      /\ e[k] <= Len(s) => Chk!White(s[e[k]])
  BY DEF IsTokens
<1>2. PICK a \in Nat, b \in Nat : a = st[k] /\ b = e[k]
  BY <1>1
<1>3. a \in 1 .. Len(s) + 1 /\ b \in a + 1 .. Len(s) + 1
  BY <1>1, <1>2
<1>4. k # n => k \in 1 .. n - 1 /\ k + 1 \in 1 .. n
  BY <1>1
<1>5. QED
  BY <1>1, <1>2, <1>3, <1>4

\* A longest run of text without white space.
IsRun(s, a, b) ==
    /\ a \in 1 .. Len(s) /\ b \in a + 1 .. Len(s) + 1
    /\ \A m \in a .. b - 1 : ~Chk!White(s[m])
    /\ b <= Len(s) => Chk!White(s[b])

\* The first run from x on.
NextRun(s, x, a, b) == IsRun(s, a, b) /\ Chk!SkipWhite(s, x) = a /\ Chk!SkipBlack(s, a) = b

\* The judge's run at a is compared with the one at c; what follows it is white.
RunCompared(j, p, from, x, y, a, b, c, d) ==
    /\ NextRun(j, x, a, b)
    /\ Chk!SkipWhite(j, b) > Len(j) \/ Chk!Saw(j, b, Chk!SkipWhite(j, b)) # 0
    /\ NextRun(p, y, c, d)
    => (from[x][y] <=> /\ Chk!Saw(j, x, a) = Chk!Saw(p, y, c)
                       /\ SubSeq(j, a, b - 1) = SubSeq(p, c, d - 1)
                       /\ from[b][d])

LEMMA RestAtRun ==
    ASSUME NEW S, NEW j \in Seq(S), NEW p \in Seq(S), NEW from, IsRest(from, j, p)
    PROVE  \A x \in 1 .. Len(j) + 1, y \in 1 .. Len(p) + 1 : \A a, b, c, d :
              RunCompared(j, p, from, x, y, a, b, c, d)
<1> SUFFICES ASSUME
           NEW x \in 1 .. Len(j) + 1, NEW y \in 1 .. Len(p) + 1, NEW a, NEW b, NEW c, NEW d
        PROVE  RunCompared(j, p, from, x, y, a, b, c, d)
  OBVIOUS
<1> SUFFICES ASSUME
           NextRun(j, x, a, b),
           Chk!SkipWhite(j, b) > Len(j) \/ Chk!Saw(j, b, Chk!SkipWhite(j, b)) # 0,
           NextRun(p, y, c, d)
        PROVE  from[x][y] <=> /\ Chk!Saw(j, x, a) = Chk!Saw(p, y, c)
                              /\ SubSeq(j, a, b - 1) = SubSeq(p, c, d - 1)
                              /\ from[b][d]
  BY DEF RunCompared
<1>8. /\ a \in 1 .. Len(j) /\ b \in a + 1 .. Len(j) + 1
      /\ \A m \in a .. b - 1 : ~Chk!White(j[m])
      /\ c \in 1 .. Len(p) /\ d \in c + 1 .. Len(p) + 1
      /\ \A m \in c .. d - 1 : ~Chk!White(p[m])
      /\ d <= Len(p) => Chk!White(p[d])
  BY DEF IsRun, NextRun
<1>9. Chk!SkipWhite(j, x) = a /\ Chk!SkipWhite(p, y) = c /\ Chk!SkipBlack(j, a) = b
  BY DEF NextRun
<1>1. /\ Len(j) \in Nat /\ Len(p) \in Nat /\ a \in Nat /\ b \in Nat /\ c \in Nat /\ d \in Nat
      /\ a < b /\ c < d /\ a <= Len(j) /\ c <= Len(p) /\ d <= Len(p) + 1
      /\ b \in 1 .. Len(j) + 1 /\ d \in 1 .. Len(p) + 1
  BY <1>8
<1>2. PICK z \in Nat : z = c + (b - a)
  BY <1>1
<1>3. /\ a + (b - a) = b /\ a + (b - a) - 1 = b - 1 /\ c + (b - a) - 1 = z - 1
      /\ ~(a > Len(j)) /\ ~(c > Len(p))
  BY <1>1, <1>2
<1>4. from[x][y] <=> /\ Chk!Saw(j, x, a) = Chk!Saw(p, y, c)
                     /\ z <= Len(p) + 1
                     /\ SubSeq(j, a, b - 1) = SubSeq(p, c, z - 1)
                     /\ from[b][z]
  <2>1. from[x][y] = Rest(j, p, from, x, y)
    BY DEF IsRest
  <2>2. QED
    BY <1>2, <1>3, <1>9, <2>1 DEF Rest
<1>5. /\ SubSeq(j, a, b - 1) = SubSeq(p, c, d - 1) => z = d
      /\ z <= Len(p) + 1 /\ SubSeq(j, a, b - 1) = SubSeq(p, c, z - 1) => z \in c + 1 .. d
  BY <1>2, <1>8, SameRun
<1>6. ASSUME z \in c + 1 .. d, z # d, from[b][z] PROVE FALSE
  <2>1. z \in c .. d - 1 /\ z \in 1 .. Len(p) /\ z \in 1 .. Len(p) + 1 /\ ~(z > Len(p))
    BY <1>1, <1>6
  <2>2. ~Chk!White(p[z])
    BY <1>8, <2>1
  <2>3. Chk!SkipWhite(p, z) = z
    <3>1. z \in z .. Len(p) + 1 /\ \A m \in z .. z - 1 : Chk!White(p[m])
      BY <2>1
    <3>2. QED
      BY <2>1, <2>2, <3>1, SkipWhiteOnly
  <2>4. CASE Chk!SkipWhite(j, b) > Len(j)
    BY <1>1, <1>6, <2>1, <2>3, <2>4, RestAtEnd
  <2>5. CASE ~(Chk!SkipWhite(j, b) > Len(j))
    <3>1. Chk!Saw(p, z, z) = 0
      BY DEF Chk!Saw
    <3>2. from[b][z] = Rest(j, p, from, b, z)
      BY <1>1, <2>1 DEF IsRest
    <3>3. QED
      BY <1>6, <2>1, <2>3, <2>5, <3>1, <3>2 DEF Rest
  <2>6. QED
    BY <2>4, <2>5
<1>7. QED
  BY <1>1, <1>4, <1>5, <1>6

LEMMA RestAtToken ==
    ASSUME NEW S, NEW j \in Seq(S), NEW p \in Seq(S), NEW from, IsRest(from, j, p),
           NEW nj, NEW sj, NEW ej, IsTokens(j, nj, sj, ej),
           NEW np, NEW sp, NEW ep, IsTokens(p, np, sp, ep),
           NEW x \in 1 .. Len(j) + 1, NEW y \in 1 .. Len(p) + 1,
           NEW k \in 1 .. nj, NEW l \in 1 .. np,
           Chk!SkipWhite(j, x) = sj[k], Chk!SkipWhite(p, y) = sp[l]
    PROVE  from[x][y] <=> /\ Chk!Saw(j, x, sj[k]) = Chk!Saw(p, y, sp[l])
                          /\ SameToken(j, sj, ej, k, p, sp, ep, l)
                          /\ from[ej[k]][ep[l]]
<1>1. Chk!SkipBlack(j, sj[k]) = ej[k] /\ Chk!SkipBlack(p, sp[l]) = ep[l]
  BY TokensSkipped
<1>2. NextRun(j, x, sj[k], ej[k])
  BY <1>1, TokenAt DEF IsRun, NextRun
<1>3. NextRun(p, y, sp[l], ep[l])
  BY <1>1, TokenAt DEF IsRun, NextRun
<1>4. Chk!SkipWhite(j, ej[k]) > Len(j) \/ Chk!Saw(j, ej[k], Chk!SkipWhite(j, ej[k])) # 0
  <2>1. CASE k = nj
    <3>1. Chk!SkipWhite(j, ej[k]) = Len(j) + 1 /\ Len(j) \in Nat
      BY <2>1, TokensSkipped
    <3>2. QED
      BY <3>1
  <2>2. CASE k # nj
    <3>1. k \in 1 .. nj - 1
      BY <2>2, TokenAt
    <3>2. Chk!SkipWhite(j, ej[k]) = sj[k + 1]
      BY <2>2, TokensSkipped
    <3>3. Chk!Saw(j, ej[k], sj[k + 1]) = IF NewLine(j, sj, k + 1) THEN 2 ELSE 1
      BY <3>1, SawBetween
    <3>4. QED
      BY <3>2, <3>3
  <2>3. QED
    BY <2>1, <2>2
<1>5. RunCompared(j, p, from, x, y, sj[k], ej[k], sp[l], ep[l])
  BY RestAtRun
<1>6. QED
  BY <1>2, <1>3, <1>4, <1>5 DEF RunCompared, SameToken

\* Where a pass is before the first token, or after the k-th.
After(s, e, k) == IF k = 0 THEN Chk!SkipWhite(s, 1) ELSE e[k]

LEMMA AfterToken ==
    ASSUME NEW S, NEW s \in Seq(S), NEW n, NEW st, NEW e, IsTokens(s, n, st, e), NEW k \in 0 .. n
    PROVE  /\ After(s, e, k) \in 1 .. Len(s) + 1
           /\ k = n => Chk!SkipWhite(s, After(s, e, k)) > Len(s)
           /\ k # n => /\ k + 1 \in 1 .. n
                       /\ Chk!SkipWhite(s, After(s, e, k)) = st[k + 1]
                       /\ ~(Chk!SkipWhite(s, After(s, e, k)) > Len(s))
                       /\ Chk!Saw(s, After(s, e, k), st[k + 1])
                            = IF k = 0 THEN 0 ELSE IF NewLine(s, st, k + 1) THEN 2 ELSE 1
<1>1. n \in Nat /\ Len(s) \in Nat
  BY DEF IsTokens
<1>2. Chk!SkipWhite(s, 1) = IF n = 0 THEN Len(s) + 1 ELSE st[1]
  BY TokensSkipped
<1>3. ASSUME k # n
      PROVE  k + 1 \in 1 .. n /\ st[k + 1] \in 1 .. Len(s) /\ ~(st[k + 1] > Len(s))
  <2>1. k + 1 \in 1 .. n
    BY <1>1, <1>3
  <2>2. st[k + 1] \in 1 .. Len(s)
    BY <2>1, TokenAt
  <2>3. QED
    BY <1>1, <2>1, <2>2
<1>4. CASE k = 0 /\ n = 0
  <2>1. After(s, e, k) = Len(s) + 1
    BY <1>2, <1>4 DEF After
  <2>2. Len(s) + 1 \in 1 .. Len(s) + 1 /\ Len(s) + 1 > Len(s)
    BY <1>1
  <2>3. Chk!SkipWhite(s, Len(s) + 1) \in Len(s) + 1 .. Len(s) + 1
    BY <2>2, SkipWhiteIs
  <2>4. Chk!SkipWhite(s, Len(s) + 1) = Len(s) + 1
    BY <1>1, <2>3
  <2>5. QED
    BY <1>4, <2>1, <2>2, <2>4
<1>5. CASE k = 0 /\ n # 0
  <2>1. After(s, e, k) = st[1] /\ k + 1 = 1
    BY <1>2, <1>5 DEF After
  <2>2. 1 \in 1 .. n
    BY <1>1, <1>5
  <2>3. Chk!SkipWhite(s, st[1]) = st[1]
    BY <2>2, TokensSkipped
  <2>4. st[1] \in Nat /\ st[1] \in 1 .. Len(s) + 1
    BY <1>1, <2>2, TokenAt
  <2>5. Chk!Saw(s, st[1], st[1]) = 0
    BY <2>4, SawBetween
  <2>6. QED
    BY <1>3, <1>5, <2>1, <2>3, <2>4, <2>5
<1>6. CASE k # 0
  <2>1. k \in 1 .. n /\ After(s, e, k) = e[k]
    BY <1>1, <1>6 DEF After
  <2>2. e[k] \in 1 .. Len(s) + 1
    BY <2>1, TokenAt
  <2>3. Chk!SkipWhite(s, e[k]) = IF k = n THEN Len(s) + 1 ELSE st[k + 1]
    BY <2>1, TokensSkipped
  <2>4. Len(s) + 1 > Len(s)
    BY <1>1
  <2>5. ASSUME k # n
        PROVE  Chk!Saw(s, e[k], st[k + 1]) = IF NewLine(s, st, k + 1) THEN 2 ELSE 1
    <3>1. k \in 1 .. n - 1
      BY <1>1, <2>1, <2>5
    <3>2. QED
      BY <3>1, SawBetween
  <2>6. QED
    BY <1>3, <1>6, <2>1, <2>2, <2>3, <2>4, <2>5
<1>7. QED
  BY <1>4, <1>5, <1>6

\* The k-th tokens are the same, and after the same kind of white space.
Alike(j, sj, ej, p, sp, ep, k) ==
    /\ SameToken(j, sj, ej, k, p, sp, ep, k)
    /\ k # 1 => (NewLine(j, sj, k) <=> NewLine(p, sp, k))

LEMMA PassAfterToken ==
    ASSUME NEW S, NEW j \in Seq(S), NEW p \in Seq(S), NEW from, IsRest(from, j, p),
           NEW nj, NEW sj, NEW ej, IsTokens(j, nj, sj, ej),
           NEW np, NEW sp, NEW ep, IsTokens(p, np, sp, ep),
           NEW k \in 0 .. nj, k \in 0 .. np
    PROVE  /\ k = nj \/ k = np =>
                (from[After(j, ej, k)][After(p, ep, k)] <=> k = nj /\ k = np)
           /\ k # nj /\ k # np =>
                (from[After(j, ej, k)][After(p, ep, k)] <=>
                    /\ Alike(j, sj, ej, p, sp, ep, k + 1)
                    /\ from[After(j, ej, k + 1)][After(p, ep, k + 1)])
<1> DEFINE x == After(j, ej, k)
           y == After(p, ep, k)
<1>1. /\ x \in 1 .. Len(j) + 1
      /\ k = nj => Chk!SkipWhite(j, x) > Len(j)
      /\ k # nj => /\ k + 1 \in 1 .. nj
                   /\ Chk!SkipWhite(j, x) = sj[k + 1]
                   /\ ~(Chk!SkipWhite(j, x) > Len(j))
                   /\ Chk!Saw(j, x, sj[k + 1])
                        = IF k = 0 THEN 0 ELSE IF NewLine(j, sj, k + 1) THEN 2 ELSE 1
  BY AfterToken
<1>2. /\ y \in 1 .. Len(p) + 1
      /\ k = np => Chk!SkipWhite(p, y) > Len(p)
      /\ k # np => /\ k + 1 \in 1 .. np
                   /\ Chk!SkipWhite(p, y) = sp[k + 1]
                   /\ ~(Chk!SkipWhite(p, y) > Len(p))
                   /\ Chk!Saw(p, y, sp[k + 1])
                        = IF k = 0 THEN 0 ELSE IF NewLine(p, sp, k + 1) THEN 2 ELSE 1
  BY AfterToken
<1> HIDE DEF x, y
<1>3. ASSUME k = nj \/ k = np PROVE from[x][y] <=> k = nj /\ k = np
  <2>1. Chk!SkipWhite(j, x) > Len(j) \/ Chk!SkipWhite(p, y) > Len(p)
    BY <1>1, <1>2, <1>3
  <2>2. from[x][y] <=> Chk!SkipWhite(j, x) > Len(j) /\ Chk!SkipWhite(p, y) > Len(p)
    BY <1>1, <1>2, <2>1, RestAtEnd
  <2>3. QED
    BY <1>1, <1>2, <2>2
<1>4. ASSUME k # nj /\ k # np
      PROVE  from[x][y] <=> /\ Alike(j, sj, ej, p, sp, ep, k + 1)
                            /\ from[After(j, ej, k + 1)][After(p, ep, k + 1)]
  <2>1. from[x][y] <=> /\ Chk!Saw(j, x, sj[k + 1]) = Chk!Saw(p, y, sp[k + 1])
                       /\ SameToken(j, sj, ej, k + 1, p, sp, ep, k + 1)
                       /\ from[ej[k + 1]][ep[k + 1]]
    BY <1>1, <1>2, <1>4, RestAtToken
  <2>2. k + 1 # 0 /\ (k = 0 <=> k + 1 = 1)
    OBVIOUS
  <2>3. After(j, ej, k + 1) = ej[k + 1] /\ After(p, ep, k + 1) = ep[k + 1]
    BY <2>2 DEF After
  <2>4. Chk!Saw(j, x, sj[k + 1]) = Chk!Saw(p, y, sp[k + 1])
          <=> (k # 0 => (NewLine(j, sj, k + 1) <=> NewLine(p, sp, k + 1)))
    BY <1>1, <1>2, <1>4
  <2>5. QED
    BY <2>1, <2>2, <2>3, <2>4 DEF Alike
<1>5. QED
  BY <1>3, <1>4 DEF x, y

LEMMA StandardAlike ==
    ASSUME NEW S, NEW j \in Seq(S), NEW p \in Seq(S),
           NEW nj, NEW sj, NEW ej, IsTokens(j, nj, sj, ej),
           NEW np, NEW sp, NEW ep, IsTokens(p, np, sp, ep)
    PROVE  Chk!Standard(j, p) <=> nj = np /\ \A k \in 1 .. nj : Alike(j, sj, ej, p, sp, ep, k)
<1>1. PICK from : /\ IsRest(from, j, p)
                  /\ Chk!Standard(j, p) = from[Chk!SkipWhite(j, 1)][Chk!SkipWhite(p, 1)]
  BY StandardPasses DEF IsRest
<1>2. nj \in Nat /\ np \in Nat
  BY DEF IsTokens
<1> DEFINE V(k) == from[After(j, ej, k)][After(p, ep, k)]
           A(k) == Alike(j, sj, ej, p, sp, ep, k)
<1>3. ASSUME NEW k \in 0 .. nj, k \in 0 .. np
      PROVE  /\ k = nj \/ k = np => (V(k) <=> k = nj /\ k = np)
             /\ k # nj /\ k # np => (V(k) <=> A(k + 1) /\ V(k + 1))
  BY <1>1, <1>3, PassAfterToken
<1>4. Chk!Standard(j, p) = V(0)
  BY <1>1 DEF After
<1> HIDE DEF V, A
<1>5. ASSUME V(0) PROVE nj = np /\ \A k \in 1 .. nj : A(k)
  <2> DEFINE Good(k) == k <= np /\ V(k) /\ (k # 0 => A(k))
             N == {k \in 0 .. nj : ~Good(k)}
  <2>1. N = {}
    <3> SUFFICES ASSUME N # {} PROVE FALSE
      OBVIOUS
    <3>1. PICK k \in N : \A m \in N : k <= m
      <4>1. N \in SUBSET Nat
        BY <1>2
      <4>2. QED
        BY <4>1, Least
    <3>2. k \in 0 .. nj /\ ~Good(k)
      OBVIOUS
    <3>3. k # 0
      BY <1>2, <1>5, <3>2
    <3>4. PICK l \in Nat : l = k - 1
      BY <1>2, <3>2, <3>3
    <3>5. l \in 0 .. nj /\ l + 1 = k /\ ~(k <= l) /\ l # nj
      BY <1>2, <3>2, <3>4
    <3>6. Good(l)
      BY <3>1, <3>5
    <3>7. l \in 0 .. np
      BY <1>2, <3>5, <3>6
    <3>8. l # np
      BY <1>3, <3>5, <3>6, <3>7
    <3>9. A(k) /\ V(k)
      BY <1>3, <3>5, <3>6, <3>7, <3>8
    <3>10. k <= np
      BY <1>2, <3>5, <3>7, <3>8
    <3>11. QED
      BY <3>2, <3>9, <3>10
  <2>2. \A k \in 0 .. nj : Good(k)
    BY <2>1
  <2>3. nj \in 0 .. nj /\ (nj <= np => nj \in 0 .. np)
    BY <1>2
  <2>4. nj = np
    BY <1>3, <2>2, <2>3
  <2>5. \A k \in 1 .. nj : k \in 0 .. nj /\ k # 0
    BY <1>2
  <2>6. QED
    BY <2>2, <2>4, <2>5
<1>6. ASSUME nj = np, \A k \in 1 .. nj : A(k) PROVE V(0)
  <2> DEFINE N == {m \in 0 .. nj : ~V(nj - m)}
  <2> SUFFICES ASSUME ~V(0) PROVE FALSE
    OBVIOUS
  <2>1. nj \in N
    BY <1>2
  <2>2. PICK m \in N : \A x \in N : m <= x
    <3>1. N \in SUBSET Nat
      BY <1>2
    <3>2. QED
      BY <2>1, <3>1, Least
  <2>3. m \in 0 .. nj /\ ~V(nj - m)
    OBVIOUS
  <2>4. m # 0
    <3>1. V(nj)
      BY <1>2, <1>3, <1>6
    <3>2. nj - 0 = nj
      BY <1>2
    <3>3. QED
      BY <2>3, <3>1, <3>2
  <2>5. PICK k \in Nat : k = nj - m
    BY <1>2, <2>3
  <2>6. /\ m - 1 \in 0 .. nj /\ ~(m <= m - 1) /\ nj - (m - 1) = k + 1
        /\ k \in 0 .. nj /\ k # nj /\ k + 1 \in 1 .. nj
    BY <1>2, <2>3, <2>4, <2>5
  <2>7. V(k + 1)
    BY <2>2, <2>6
  <2>8. V(k)
    BY <1>3, <1>6, <2>6, <2>7
  <2>9. QED
    BY <2>3, <2>5, <2>8
<1>7. Chk!Standard(j, p) <=> V(0)
  BY <1>4
<1>8. QED
  BY <1>5, <1>6, <1>7 DEF A

LEMMA TokensSame ==
    ASSUME NEW S, NEW j \in Seq(S), NEW p \in Seq(S),
           NEW nj, NEW sj, NEW ej, IsTokens(j, nj, sj, ej),
           NEW np, NEW sp, NEW ep, IsTokens(p, np, sp, ep)
    PROVE  Chk!Tokens(j) = Chk!Tokens(p) <=>
               nj = np /\ \A k \in 1 .. nj : SameToken(j, sj, ej, k, p, sp, ep, k)
<1>1. /\ Chk!Tokens(j) = [k \in 1 .. nj |-> SubSeq(j, sj[k], ej[k] - 1)]
      /\ Chk!Tokens(p) = [k \in 1 .. np |-> SubSeq(p, sp[k], ep[k] - 1)]
  BY TokensOnly
<1>2. nj \in Nat /\ np \in Nat
  BY DEF IsTokens
<1>3. ASSUME Chk!Tokens(j) = Chk!Tokens(p)
      PROVE  nj = np /\ \A k \in 1 .. nj : SameToken(j, sj, ej, k, p, sp, ep, k)
  <2>1. 1 .. nj = 1 .. np
    <3>1. DOMAIN Chk!Tokens(j) = 1 .. nj /\ DOMAIN Chk!Tokens(p) = 1 .. np
      BY <1>1
    <3>2. QED
      BY <1>3, <3>1
  <2>2. nj = np
    BY <1>2, <2>1
  <2>3. ASSUME NEW k \in 1 .. nj PROVE SameToken(j, sj, ej, k, p, sp, ep, k)
    <3>1. Chk!Tokens(j)[k] = SubSeq(j, sj[k], ej[k] - 1)
      BY <1>1
    <3>2. Chk!Tokens(p)[k] = SubSeq(p, sp[k], ep[k] - 1)
      BY <1>1, <2>1
    <3>3. QED
      BY <1>3, <3>1, <3>2 DEF SameToken
  <2>4. QED
    BY <2>2, <2>3
<1>4. ASSUME nj = np, \A k \in 1 .. nj : SameToken(j, sj, ej, k, p, sp, ep, k)
      PROVE  Chk!Tokens(j) = Chk!Tokens(p)
  BY <1>1, <1>4 DEF SameToken
<1>5. QED
  BY <1>3, <1>4

\* Which tokens but the first begin a new line.
NewLines(s) ==
    [k \in 2 .. Len(Chk!Sorted(Starts(s))) |->
        \E m \in Chk!Sorted(Starts(s))[k - 1] .. Chk!Sorted(Starts(s))[k] : s[m] = "n"]

\* The middle of StandardIsTokens, of any two texts.
LEMMA StandardTokens ==
    ASSUME NEW S, NEW j \in Seq(S), NEW p \in Seq(S)
    PROVE  Chk!Standard(j, p) <=>
               Chk!Tokens(j) = Chk!Tokens(p) /\ NewLines(j) = NewLines(p)
<1>1. PICK nj, sj, ej : IsTokens(j, nj, sj, ej)
  BY TokensAre
<1>2. PICK np, sp, ep : IsTokens(p, np, sp, ep)
  BY TokensAre
<1> DEFINE nl(s, st, n) == [k \in 2 .. n |-> NewLine(s, st, k)]
<1>3. nj \in Nat /\ np \in Nat
  BY <1>1, <1>2 DEF IsTokens
<1>4. Chk!Sorted(Starts(j)) = sj /\ Chk!Sorted(Starts(p)) = sp
  BY <1>1, <1>2, TokensOnly
<1>5. Len(sj) = nj /\ Len(sp) = np
  <2>1. sj \in [1 .. nj -> 1 .. Len(j)] /\ sp \in [1 .. np -> 1 .. Len(p)]
    BY <1>1, <1>2 DEF IsTokens
  <2>2. sj \in Seq(1 .. Len(j)) /\ sp \in Seq(1 .. Len(p))
    BY <1>3, <2>1
  <2>3. DOMAIN sj = 1 .. nj /\ DOMAIN sp = 1 .. np
    BY <2>1
  <2>4. QED
    BY <1>3, <2>2, <2>3
<1>6. Chk!Standard(j, p) <=>
          /\ nj = np /\ \A k \in 1 .. nj : SameToken(j, sj, ej, k, p, sp, ep, k)
          /\ \A k \in 1 .. nj : k # 1 => (NewLine(j, sj, k) <=> NewLine(p, sp, k))
  BY <1>1, <1>2, StandardAlike DEF Alike
<1>7. Chk!Tokens(j) = Chk!Tokens(p) <=>
          nj = np /\ \A k \in 1 .. nj : SameToken(j, sj, ej, k, p, sp, ep, k)
  BY <1>1, <1>2, TokensSame
<1>8. ASSUME nj = np
      PROVE  nl(j, sj, nj) = nl(p, sp, np)
               <=> \A k \in 1 .. nj : k # 1 => (NewLine(j, sj, k) <=> NewLine(p, sp, k))
  <2>1. \A k \in 2 .. nj : k \in 1 .. nj /\ k # 1
    BY <1>3
  <2>2. \A k \in 1 .. nj : k # 1 => k \in 2 .. nj
    BY <1>3
  <2>3. ASSUME nl(j, sj, nj) = nl(p, sp, np), NEW k \in 2 .. nj
        PROVE  NewLine(j, sj, k) <=> NewLine(p, sp, k)
    <3>1. nl(j, sj, nj)[k] = NewLine(j, sj, k) /\ nl(p, sp, np)[k] = NewLine(p, sp, k)
      BY <1>8
    <3>2. QED
      BY <2>3, <3>1
  <2>4. ASSUME \A k \in 2 .. nj : NewLine(j, sj, k) <=> NewLine(p, sp, k)
        PROVE  nl(j, sj, nj) = nl(p, sp, np)
    <3>1. \A k \in 2 .. nj : NewLine(j, sj, k) = NewLine(p, sp, k)
      BY <2>4 DEF NewLine
    <3>2. QED
      BY <1>8, <3>1, Zenon
  <2>5. QED
    BY <2>1, <2>2, <2>3, <2>4
<1> HIDE DEF nl
<1>9. Chk!Standard(j, p) <=>
          Chk!Tokens(j) = Chk!Tokens(p) /\ nl(j, sj, nj) = nl(p, sp, np)
  BY <1>6, <1>7, <1>8
<1>10. nl(j, sj, nj) = NewLines(j)
  BY <1>4, <1>5 DEF nl, NewLine, NewLines
<1>11. nl(p, sp, np) = NewLines(p)
  BY <1>4, <1>5 DEF nl, NewLine, NewLines
<1> HIDE DEF nl
<1>12. QED
  BY <1>9, <1>10, <1>11

-------------------------------------------------------------------------------
(* A text that has the same tokens, on the same lines, at other places.    *)

Blacks(s) == {x \in DOMAIN s : ~Chk!White(s[x])}
LineEndIn(s, a, b) == \E m \in a .. b : s[m] = "n"

\* f moves what is black in j to what is black in p.
Moves(j, p, f) ==
    /\ f \in [Blacks(j) -> Blacks(p)]
    /\ \A y \in Blacks(p) : \E x \in Blacks(j) : f[x] = y
    /\ \A x \in Blacks(j) : p[f[x]] = j[x]
    /\ \A x, y \in Blacks(j) : x < y =>
         /\ f[x] < f[y]
         /\ y = x + 1 <=> f[y] = f[x] + 1
         /\ LineEndIn(j, x, y) <=> LineEndIn(p, f[x], f[y])

LEMMA MovedRun ==
    ASSUME NEW S, NEW j \in Seq(S), NEW p \in Seq(S), NEW f, Moves(j, p, f)
    PROVE  \A a \in 1 .. Len(j) : \A b \in a + 1 .. Len(j) + 1 :
              (\A m \in a .. b - 1 : ~Chk!White(j[m]))
              => \A m \in a .. b - 1 : m \in Blacks(j) /\ f[m] = f[a] + (m - a)
<1> SUFFICES ASSUME NEW a \in 1 .. Len(j), NEW b \in a + 1 .. Len(j) + 1,
                    \A m \in a .. b - 1 : ~Chk!White(j[m])
             PROVE  \A m \in a .. b - 1 : m \in Blacks(j) /\ f[m] = f[a] + (m - a)
  OBVIOUS
<1>1. \A m \in a .. b - 1 : m \in Blacks(j)
  BY DEF Blacks
<1>2. f \in [Blacks(j) -> Blacks(p)] /\ Blacks(p) \in SUBSET Nat
  BY DEF Moves, Blacks
<1> DEFINE N == {m \in a .. b - 1 : f[m] # f[a] + (m - a)}
<1> SUFFICES ASSUME N # {} PROVE FALSE
  BY <1>1
<1>3. PICK m \in N : \A x \in N : m <= x
  <2>1. N \in SUBSET Nat
    OBVIOUS
  <2>2. QED
    BY <2>1, Least
<1>4. m \in a .. b - 1 /\ f[m] # f[a] + (m - a)
  OBVIOUS
<1>5. f[a] \in Nat /\ a \in a .. b - 1
  BY <1>1, <1>2
<1>6. m # a
  BY <1>4, <1>5
<1>7. PICK l \in Nat : l = m - 1
  BY <1>4, <1>6
<1>8. l \in a .. b - 1 /\ l < m /\ m = l + 1 /\ ~(m <= l)
  BY <1>4, <1>6, <1>7
<1>9. f[l] = f[a] + (l - a)
  BY <1>3, <1>8
<1>10. f[m] = f[l] + 1
  BY <1>1, <1>4, <1>8 DEF Moves
<1>11. PICK u \in Nat : u = f[a]
  BY <1>5
<1>12. f[l] = u + (l - a) /\ f[m] = u + (l - a) + 1 /\ f[m] # u + (l + 1 - a) /\ a \in Nat
  BY <1>4, <1>8, <1>9, <1>10, <1>11
<1>13. QED
  BY <1>7, <1>12

LEMMA MovedTokens ==
    ASSUME NEW S, NEW j \in Seq(S), NEW p \in Seq(S), NEW f, Moves(j, p, f),
           NEW n, NEW sj, NEW ej, IsTokens(j, n, sj, ej)
    PROVE  \E sp, ep : /\ IsTokens(p, n, sp, ep)
                       /\ \A k \in 1 .. n : Alike(j, sj, ej, p, sp, ep, k)
<1> DEFINE sp == [k \in 1 .. n |-> f[sj[k]]]
           ep == [k \in 1 .. n |-> f[ej[k] - 1] + 1]
<1>1. /\ n \in Nat /\ Len(j) \in Nat /\ Len(p) \in Nat
      /\ f \in [Blacks(j) -> Blacks(p)]
      /\ \A y \in Blacks(p) : \E x \in Blacks(j) : f[x] = y
      /\ \A x \in Blacks(j) : p[f[x]] = j[x]
  BY DEF IsTokens, Moves
<1>a. ASSUME NEW x \in Blacks(j)
      PROVE  /\ x \in 1 .. Len(j) /\ f[x] \in 1 .. Len(p) /\ f[x] \in Nat
             /\ ~Chk!White(j[x]) /\ ~Chk!White(p[f[x]])
  BY <1>1 DEF Blacks
<1>2. ASSUME NEW x \in Blacks(j), NEW y \in Blacks(j)
      PROVE  /\ x < y <=> f[x] < f[y]
             /\ x = y <=> f[x] = f[y]
             /\ y = x + 1 <=> f[y] = f[x] + 1
  <2>1. x \in 1 .. Len(j) /\ y \in 1 .. Len(j) /\ f[x] \in Nat /\ f[y] \in Nat
    BY <1>a
  <2>2. x < y => f[x] < f[y] /\ (y = x + 1 <=> f[y] = f[x] + 1)
    BY DEF Moves
  <2>3. y < x => f[y] < f[x]
    BY DEF Moves
  <2>4. QED
    BY <2>1, <2>2, <2>3
<1>3. ASSUME NEW k \in 1 .. n
      PROVE  /\ sj[k] \in 1 .. Len(j) /\ ej[k] \in sj[k] + 1 .. Len(j) + 1
             /\ sj[k] \in Blacks(j) /\ ej[k] - 1 \in Blacks(j) /\ sj[k] <= ej[k] - 1
             /\ \A m \in sj[k] .. ej[k] - 1 : m \in Blacks(j) /\ f[m] = f[sj[k]] + (m - sj[k])
             /\ f[ej[k] - 1] = f[sj[k]] + (ej[k] - 1 - sj[k])
             /\ ej[k] \notin Blacks(j)
  <2>1. /\ sj[k] \in 1 .. Len(j) /\ ej[k] \in sj[k] + 1 .. Len(j) + 1
        /\ \A m \in sj[k] .. ej[k] - 1 : ~Chk!White(j[m])
        /\ ej[k] <= Len(j) => Chk!White(j[ej[k]])
    BY TokenAt
  <2>2. \A m \in sj[k] .. ej[k] - 1 : m \in Blacks(j) /\ f[m] = f[sj[k]] + (m - sj[k])
    <3>1. \A a \in 1 .. Len(j) : \A b \in a + 1 .. Len(j) + 1 :
              (\A m \in a .. b - 1 : ~Chk!White(j[m]))
              => \A m \in a .. b - 1 : m \in Blacks(j) /\ f[m] = f[a] + (m - a)
      BY MovedRun
    <3>2. QED
      BY <2>1, <3>1, Zenon
  <2>3. sj[k] \in sj[k] .. ej[k] - 1 /\ ej[k] - 1 \in sj[k] .. ej[k] - 1
    BY <2>1
  <2>4. ej[k] \notin Blacks(j)
    BY <1>1, <2>1 DEF Blacks
  <2>5. QED
    BY <2>1, <2>2, <2>3, <2>4
<1>4. ASSUME NEW k \in 1 .. n
      PROVE  /\ sp[k] = f[sj[k]] /\ ep[k] = f[ej[k] - 1] + 1
             /\ sp[k] \in 1 .. Len(p) /\ ep[k] \in 1 .. Len(p) + 1 /\ sp[k] < ep[k]
             /\ ep[k] - sp[k] = ej[k] - sj[k]
  <2>1. sp[k] = f[sj[k]] /\ ep[k] = f[ej[k] - 1] + 1
    OBVIOUS
  <2>2. f[sj[k]] \in 1 .. Len(p) /\ f[ej[k] - 1] \in 1 .. Len(p)
    BY <1>a, <1>3
  <2>3. PICK a \in Nat, b \in Nat, c \in Nat, d \in Nat :
            a = sj[k] /\ b = ej[k] /\ c = f[sj[k]] /\ d = f[ej[k] - 1]
    <3>1. sj[k] \in Nat /\ ej[k] \in Nat
      BY <1>3
    <3>2. f[sj[k]] \in Nat /\ f[ej[k] - 1] \in Nat
      BY <2>2
    <3>3. QED
      BY <3>1, <3>2
  <2>4. a < b /\ d = c + (b - 1 - a) /\ 1 <= c /\ d <= Len(p)
    <3>1. /\ sj[k] \in 1 .. Len(j) /\ ej[k] \in sj[k] + 1 .. Len(j) + 1
          /\ f[ej[k] - 1] = f[sj[k]] + (ej[k] - 1 - sj[k])
      BY <1>3
    <3>2. a \in 1 .. Len(j) /\ b \in a + 1 .. Len(j) + 1 /\ d = c + (b - 1 - a)
      BY <2>3, <3>1
    <3>3. c \in 1 .. Len(p) /\ d \in 1 .. Len(p)
      BY <2>2, <2>3
    <3>4. QED
      BY <1>1, <3>2, <3>3
  <2>5. c \in 1 .. Len(p) /\ d + 1 \in 1 .. Len(p) + 1 /\ c < d + 1 /\ d + 1 - c = b - a
    BY <1>1, <2>4
  <2>6. QED
    BY <2>1, <2>3, <2>5
<1>b. ASSUME NEW k \in 1 .. n
      PROVE  /\ sj[k] \in Nat /\ ej[k] \in Nat /\ sj[k] < ej[k]
             /\ sp[k] \in Nat /\ ep[k] \in Nat /\ sp[k] < ep[k]
             /\ ep[k] - sp[k] = ej[k] - sj[k]
  <2>1. sj[k] \in 1 .. Len(j) /\ ej[k] \in sj[k] + 1 .. Len(j) + 1
    BY <1>3
  <2>2. /\ sp[k] \in 1 .. Len(p) /\ ep[k] \in 1 .. Len(p) + 1 /\ sp[k] < ep[k]
        /\ ep[k] - sp[k] = ej[k] - sj[k]
    BY <1>4
  <2>3. sj[k] \in Nat /\ ej[k] \in Nat /\ sj[k] < ej[k]
    BY <2>1
  <2>4. sp[k] \in Nat /\ ep[k] \in Nat
    BY <2>2
  <2>5. QED
    BY <2>2, <2>3, <2>4
<1>5. sp \in [1 .. n -> 1 .. Len(p)] /\ ep \in [1 .. n -> 1 .. Len(p) + 1]
  BY <1>4
<1> HIDE DEF sp, ep
<1>6. ASSUME NEW k \in 1 .. n, NEW m \in sp[k] .. ep[k] - 1 PROVE ~Chk!White(p[m])
  <2>a. PICK a \in Nat, b \in Nat, c \in Nat, d \in Nat :
            a = sj[k] /\ b = ej[k] /\ c = sp[k] /\ d = ep[k]
    BY <1>b
  <2>b. a < b /\ c < d /\ d - c = b - a
    BY <1>b, <2>a
  <2>c. m \in c .. d - 1
    BY <2>a
  <2>1. PICK x \in Nat : x = a + (m - c)
    BY <2>c
  <2>2. x \in a .. b - 1 /\ c + (x - a) = m
    BY <2>b, <2>c, <2>1
  <2>3. x \in Blacks(j) /\ f[x] = m
    <3>1. f[sj[k]] = c /\ x \in sj[k] .. ej[k] - 1
      BY <1>4, <2>a, <2>2
    <3>2. x \in Blacks(j) /\ f[x] = f[sj[k]] + (x - sj[k])
      BY <1>3, <3>1
    <3>3. QED
      BY <2>a, <2>2, <3>1, <3>2
  <2>4. QED
    BY <1>a, <2>3
<1>7. ASSUME NEW k \in 1 .. n, ep[k] <= Len(p), ~Chk!White(p[ep[k]]) PROVE FALSE
  <2>1. ep[k] \in Blacks(p)
    BY <1>1, <1>4, <1>7 DEF Blacks
  <2>2. PICK c \in Blacks(j) : f[c] = ep[k]
    BY <1>1, <2>1
  <2>3. c = ej[k] - 1 + 1
    <3>1. ej[k] - 1 \in Blacks(j) /\ f[c] = f[ej[k] - 1] + 1
      BY <1>3, <1>4, <2>2
    <3>2. QED
      BY <1>2, <3>1
  <2>4. c = ej[k]
    BY <1>b, <2>3
  <2>5. QED
    BY <1>3, <2>2, <2>4
<1>8. ASSUME NEW k \in 1 .. n - 1
      PROVE  ep[k] < sp[k + 1] /\ \A m \in ep[k] .. sp[k + 1] - 1 : Chk!White(p[m])
  <2>1. k \in 1 .. n /\ k + 1 \in 1 .. n
    BY <1>1
  <2>2. ej[k] < sj[k + 1] /\ \A m \in ej[k] .. sj[k + 1] - 1 : Chk!White(j[m])
    BY DEF IsTokens
  <2>3. ej[k] - 1 < sj[k + 1] /\ sj[k + 1] # ej[k] - 1 + 1
    BY <1>3, <2>1, <2>2
  <2>4. f[ej[k] - 1] < f[sj[k + 1]] /\ f[sj[k + 1]] # f[ej[k] - 1] + 1
    BY <1>2, <1>3, <2>1, <2>3
  <2>5. ep[k] < sp[k + 1]
    <3>1. f[ej[k] - 1] \in Nat /\ f[sj[k + 1]] \in Nat
      BY <1>a, <1>3, <2>1
    <3>2. QED
      BY <1>4, <2>1, <2>4, <3>1
  <2>6. ASSUME NEW m \in ep[k] .. sp[k + 1] - 1, ~Chk!White(p[m]) PROVE FALSE
    <3>1. m \in 1 .. Len(p) /\ f[ej[k] - 1] < m /\ m < f[sj[k + 1]]
      <4>1. f[ej[k] - 1] \in Nat /\ ep[k] = f[ej[k] - 1] + 1 /\ sp[k + 1] = f[sj[k + 1]]
        BY <1>a, <1>3, <1>4, <2>1
      <4>2. sp[k + 1] \in 1 .. Len(p)
        BY <1>4, <2>1
      <4>3. QED
        BY <1>1, <4>1, <4>2
    <3>2. m \in Blacks(p)
      BY <2>6, <3>1 DEF Blacks
    <3>3. PICK c \in Blacks(j) : f[c] = m
      BY <1>1, <3>2
    <3>4. ej[k] - 1 < c /\ c < sj[k + 1]
      BY <1>2, <1>3, <2>1, <3>1, <3>3
    <3>5. c \in ej[k] .. sj[k + 1] - 1
      <4>1. c \in Nat
        BY <1>a
      <4>2. ej[k] \in Nat /\ sj[k + 1] \in Nat
        BY <1>b, <2>1
      <4>3. QED
        BY <3>4, <4>1, <4>2
    <3>6. QED
      BY <1>a, <2>2, <3>5
  <2>7. QED
    BY <2>5, <2>6
<1>9. ASSUME NEW m \in 1 .. Len(p), n = 0 \/ m < sp[1] \/ ep[n] <= m, ~Chk!White(p[m]) PROVE FALSE
  <2>1. m \in Blacks(p)
    BY <1>1, <1>9 DEF Blacks
  <2>2. PICK c \in Blacks(j) : f[c] = m
    BY <1>1, <2>1
  <2>3. c \in 1 .. Len(j) /\ ~Chk!White(j[c])
    BY <1>a, <2>2
  <2>4. n # 0 /\ ~(c < sj[1]) /\ ~(ej[n] <= c)
    BY <2>3 DEF IsTokens
  <2>5. 1 \in 1 .. n /\ n \in 1 .. n
    BY <1>1, <2>4
  <2>6. ~(m < sp[1])
    BY <1>2, <1>3, <1>4, <2>2, <2>4, <2>5
  <2>7. ~(ep[n] <= m)
    <3>1. ~(ej[n] - 1 < c)
      BY <1>3, <2>3, <2>4, <2>5
    <3>2. ~(f[ej[n] - 1] < m)
      BY <1>2, <1>3, <2>2, <2>5, <3>1
    <3>3. f[ej[n] - 1] \in Nat
      BY <1>a, <1>3, <2>5
    <3>4. QED
      BY <1>4, <2>5, <3>2, <3>3
  <2>8. QED
    BY <1>9, <2>4, <2>6, <2>7
<1>10. IsTokens(p, n, sp, ep)
  BY <1>1, <1>4, <1>5, <1>6, <1>7, <1>8, <1>9 DEF IsTokens
<1>11. ASSUME NEW k \in 1 .. n PROVE SameToken(j, sj, ej, k, p, sp, ep, k)
  <2> DEFINE tj == SubSeq(j, sj[k], ej[k] - 1)
             tp == SubSeq(p, sp[k], ep[k] - 1)
             len == ej[k] - sj[k]
  <2>1. tj \in Seq(S) /\ Len(tj) = len /\ \A x \in 1 .. len : tj[x] = j[sj[k] + x - 1]
    <3>1. sj[k] \in 1 .. Len(j) /\ ej[k] \in sj[k] + 1 .. Len(j) + 1
      BY <1>3
    <3>2. QED
      BY <3>1, Slices
  <2>2. ep[k] \in sp[k] + 1 .. Len(p) + 1
    BY <1>4
  <2>3. tp \in Seq(S) /\ Len(tp) = len /\ \A x \in 1 .. len : tp[x] = p[sp[k] + x - 1]
    <3>1. PICK c \in 1 .. Len(p), d \in Nat : d \in c + 1 .. Len(p) + 1 /\ c = sp[k] /\ d = ep[k]
      BY <1>4, <2>2
    <3>2. /\ SubSeq(p, c, d - 1) \in Seq(S) /\ Len(SubSeq(p, c, d - 1)) = d - c
          /\ \A x \in 1 .. d - c : SubSeq(p, c, d - 1)[x] = p[c + x - 1]
      <4>1. d \in c + 1 .. Len(p) + 1
        BY <3>1
      <4>2. QED
        BY <4>1, Slices
    <3>3. d - c = len
      BY <1>4, <3>1
    <3>4. QED
      BY <3>1, <3>2, <3>3
  <2>4. ASSUME NEW x \in 1 .. len PROVE tj[x] = tp[x]
    <3>1. PICK m \in Nat : m = sj[k] + x - 1
      BY <1>3
    <3>2. m \in sj[k] .. ej[k] - 1 /\ sp[k] + x - 1 = sp[k] + (m - sj[k])
      BY <1>b, <3>1
    <3>3. m \in Blacks(j) /\ f[m] = sp[k] + x - 1
      BY <1>3, <1>4, <3>2
    <3>4. QED
      BY <1>1, <2>1, <2>3, <3>1, <3>3
  <2> HIDE DEF tj, tp, len
  <2>5. tj = tp
    BY <2>1, <2>3, <2>4
  <2>6. QED
    BY <2>5 DEF SameToken, tj, tp
<1>12. ASSUME NEW k \in 1 .. n, k # 1 PROVE NewLine(j, sj, k) <=> NewLine(p, sp, k)
  <2>1. k - 1 \in 1 .. n /\ k - 1 < k
    BY <1>1, <1>12
  <2>2. ej[k - 1] < sj[k]
    BY <2>1, TokensOrder
  <2>3. sj[k - 1] < sj[k]
    BY <1>3, <2>1, <2>2
  <2>4. LineEndIn(j, sj[k - 1], sj[k]) <=> LineEndIn(p, f[sj[k - 1]], f[sj[k]])
    BY <1>3, <2>1, <2>3 DEF Moves
  <2>5. QED
    BY <1>4, <2>1, <2>4 DEF NewLine, LineEndIn
<1>13. QED
  BY <1>10, <1>11, <1>12 DEF Alike

LEMMA MovedStandard ==
    ASSUME NEW S, NEW j \in Seq(S), NEW p \in Seq(S), NEW f, Moves(j, p, f)
    PROVE  Chk!Standard(j, p)
<1>1. PICK n, sj, ej : IsTokens(j, n, sj, ej)
  BY TokensAre
<1>2. PICK sp, ep : IsTokens(p, n, sp, ep) /\ \A k \in 1 .. n : Alike(j, sj, ej, p, sp, ep, k)
  BY <1>1, MovedTokens
<1>3. QED
  BY <1>1, <1>2, StandardAlike

-------------------------------------------------------------------------------
(* The lines of a text.                                                    *)

\* s has n lines, from e[k] + 1 to e[k + 1] - 1.
IsLines(s, n, e) ==
    /\ n \in Nat \ {0} /\ e \in [1 .. n + 1 -> 0 .. Len(s) + 1] /\ Increasing(e, n + 1)
    /\ e[1] = 0 /\ e[n + 1] = Len(s) + 1
    /\ \A k \in 1 .. n : \A m \in e[k] + 1 .. e[k + 1] - 1 : s[m] # "n"
    /\ \A k \in 2 .. n : s[e[k]] = "n"

LEMMA LinesAre ==
    ASSUME NEW S, NEW s \in Seq(S)
    PROVE  \E n, e : /\ IsLines(s, n, e)
                     /\ Chk!Lines(s) = [k \in 1 .. n |-> SubSeq(s, e[k] + 1, e[k + 1] - 1)]
<1> DEFINE E == {k \in DOMAIN s : s[k] = "n"} \cup {0, Len(s) + 1}
           c == Cardinality(E)
           e == Chk!Sorted(E)
           L == Len(s)
<1>1. L \in Nat /\ DOMAIN s = 1 .. L
  OBVIOUS
<1>2. E \in SUBSET (0 .. L + 1) /\ 0 \in E /\ L + 1 \in E
  BY <1>1
<1>3. \A k \in E : k \in 1 .. L => s[k] = "n"
  BY <1>1
<1>4. \A k \in 1 .. L : s[k] = "n" => k \in E
  BY <1>1
<1> HIDE DEF E
<1>5. E \in SUBSET Nat /\ IsFiniteSet(E)
  <2>1. IsFiniteSet(0 .. L + 1)
    BY <1>1, FS_Interval
  <2>2. E \in SUBSET Nat
    BY <1>1, <1>2
  <2>3. QED
    BY <1>2, <2>1, <2>2, FS_Subset
<1>6. /\ c \in Nat /\ e \in [1 .. c -> E] /\ Increasing(e, c)
      /\ \A x \in E : \E k \in 1 .. c : e[k] = x
  BY <1>5, SortedIs
<1>7. Len(e) = c
  <2>1. e \in Seq(E) /\ DOMAIN e = 1 .. c
    BY <1>6
  <2>2. QED
    BY <1>6, <2>1
<1>8. Chk!Lines(s) = [k \in 1 .. c - 1 |-> SubSeq(s, e[k] + 1, e[k + 1] - 1)]
  BY <1>7 DEF Chk!Lines, E
<1> HIDE DEF c, e, L
<1>9. \A k \in 1 .. c : e[k] \in E /\ e[k] \in 0 .. L + 1
  BY <1>2, <1>6
<1>10. PICK a \in 1 .. c, b \in 1 .. c : e[a] = 0 /\ e[b] = L + 1
  BY <1>2, <1>6
<1>11. \A k, l \in 1 .. c : k < l <=> e[k] < e[l]
  <2> TAKE k, l \in 1 .. c
  <2>1. e[k] \in Nat /\ e[l] \in Nat
    BY <1>1, <1>9
  <2>2. k < l => e[k] < e[l]
    BY <1>6 DEF Increasing
  <2>3. l < k => e[l] < e[k]
    BY <1>6 DEF Increasing
  <2>4. QED
    BY <1>6, <2>1, <2>2, <2>3
<1>12. a = 1 /\ b = c /\ c - 1 \in Nat \ {0} /\ c - 1 + 1 = c
  <2>1. a < b
    BY <1>1, <1>10, <1>11
  <2>2. 1 \in 1 .. c /\ c \in 1 .. c
    BY <1>6, <2>1
  <2>3. ~(1 < a)
    BY <1>1, <1>9, <1>10, <1>11, <2>2
  <2>4. ~(b < c)
    BY <1>1, <1>9, <1>10, <1>11, <2>2
  <2>5. QED
    BY <1>6, <2>1, <2>3, <2>4
<1> DEFINE n == c - 1
<1>13. /\ n \in Nat \ {0} /\ n + 1 = c /\ e \in [1 .. n + 1 -> 0 .. L + 1]
       /\ Increasing(e, n + 1) /\ e[1] = 0 /\ e[n + 1] = L + 1
  <2>1. e \in [1 .. c -> 0 .. L + 1]
    BY <1>6, <1>9
  <2>2. QED
    BY <1>6, <1>10, <1>12, <2>1
<1>14. ASSUME NEW k \in 1 .. n, NEW m \in e[k] + 1 .. e[k + 1] - 1, s[m] = "n" PROVE FALSE
  <2>1. k \in 1 .. c /\ k + 1 \in 1 .. c
    BY <1>6
  <2>2. e[k] \in 0 .. L + 1 /\ e[k + 1] \in 0 .. L + 1
    BY <1>9, <2>1
  <2>3. m \in 1 .. L /\ e[k] < m /\ m < e[k + 1]
    BY <1>1, <2>2
  <2>4. PICK o \in 1 .. c : e[o] = m
    BY <1>4, <1>6, <1>14, <2>3
  <2>5. k < o /\ o < k + 1
    BY <1>11, <2>1, <2>3, <2>4
  <2>6. QED
    BY <2>5
<1>15. ASSUME NEW k \in 2 .. n PROVE s[e[k]] = "n"
  <2>1. k \in 1 .. c /\ 1 \in 1 .. c /\ c \in 1 .. c /\ 1 < k /\ k < c
    BY <1>6, <1>12
  <2>2. e[1] < e[k] /\ e[k] < e[c]
    BY <1>11, <2>1
  <2>3. e[k] \in 1 .. L
    BY <1>1, <1>9, <1>10, <1>12, <2>1, <2>2
  <2>4. QED
    BY <1>3, <1>9, <2>1, <2>3
<1> HIDE DEF n
<1>16. IsLines(s, n, e)
  BY <1>13, <1>14, <1>15 DEF IsLines, L
<1>17. QED
  BY <1>8, <1>16 DEF n

LEMMA LinesOrder ==
    ASSUME NEW S, NEW s \in Seq(S), NEW n, NEW e, IsLines(s, n, e)
    PROVE  /\ n \in Nat \ {0} /\ Len(s) \in Nat
           /\ \A k \in 1 .. n : /\ k \in 1 .. n + 1 /\ k + 1 \in 1 .. n + 1
                                /\ e[k] \in Nat /\ e[k + 1] \in Nat
                                /\ e[k] < e[k + 1] /\ e[k] <= Len(s) /\ e[k + 1] <= Len(s) + 1
           /\ \A k, l \in 1 .. n : k < l => e[k + 1] <= e[l]
<1>1. n \in Nat \ {0} /\ Len(s) \in Nat /\ e \in [1 .. n + 1 -> 0 .. Len(s) + 1]
  BY DEF IsLines
<1>2. ASSUME NEW k \in 1 .. n
      PROVE  /\ k \in 1 .. n + 1 /\ k + 1 \in 1 .. n + 1
             /\ e[k] \in Nat /\ e[k + 1] \in Nat
             /\ e[k] < e[k + 1] /\ e[k] <= Len(s) /\ e[k + 1] <= Len(s) + 1
  <2>1. k \in 1 .. n + 1 /\ k + 1 \in 1 .. n + 1 /\ k < k + 1
    BY <1>1
  <2>2. e[k] < e[k + 1]
    BY <2>1 DEF IsLines, Increasing
  <2>3. e[k] \in 0 .. Len(s) + 1 /\ e[k + 1] \in 0 .. Len(s) + 1
    BY <1>1, <2>1
  <2>4. QED
    BY <1>1, <2>1, <2>2, <2>3
<1>3. ASSUME NEW k \in 1 .. n, NEW l \in 1 .. n, k < l PROVE e[k + 1] <= e[l]
  <2>1. k + 1 = l \/ k + 1 < l
    BY <1>3
  <2>2. k + 1 < l => e[k + 1] < e[l]
    BY <1>2 DEF IsLines, Increasing
  <2>3. e[k + 1] \in Nat /\ e[l] \in Nat
    BY <1>2
  <2>4. QED
    BY <2>1, <2>2, <2>3
<1>4. QED
  BY <1>1, <1>2, <1>3

\* What is no line end is in one line.
LEMMA InLine ==
    ASSUME NEW S, NEW s \in Seq(S), NEW n, NEW e, IsLines(s, n, e)
    PROVE  /\ \A x \in 1 .. Len(s) : s[x] # "n" => \E k \in 1 .. n : e[k] < x /\ x < e[k + 1]
           /\ \A k, l \in 1 .. n : \A x \in Nat :
                 e[k] < x /\ x < e[k + 1] /\ e[l] < x /\ x < e[l + 1] => k = l
<1>1. /\ n \in Nat \ {0} /\ Len(s) \in Nat
      /\ \A k \in 1 .. n : e[k] \in Nat /\ e[k + 1] \in Nat
      /\ \A k, l \in 1 .. n : k < l => e[k + 1] <= e[l]
  BY LinesOrder
<1>2. ASSUME NEW x \in 1 .. Len(s), s[x] # "n" PROVE \E k \in 1 .. n : e[k] < x /\ x < e[k + 1]
  <2> DEFINE N == {k \in 1 .. n : x < e[k + 1]}
  <2>1. n \in N
    <3>1. e[n + 1] = Len(s) + 1
      BY DEF IsLines
    <3>2. QED
      BY <1>1, <3>1
  <2>2. PICK k \in N : \A m \in N : k <= m
    <3>1. N \in SUBSET Nat
      BY <1>1
    <3>2. QED
      BY <2>1, <3>1, Least
  <2>3. k \in 1 .. n /\ x < e[k + 1]
    OBVIOUS
  <2>4. CASE k = 1
    <3>1. e[k] < x
      BY <2>4 DEF IsLines
    <3>2. QED
      BY <2>3, <3>1
  <2>5. CASE k # 1
    <3>1. k - 1 \in 1 .. n /\ k - 1 + 1 = k /\ ~(k <= k - 1) /\ k \in 2 .. n
      BY <1>1, <2>3, <2>5
    <3>2. k - 1 \notin N
      BY <2>2, <3>1
    <3>3. ~(x < e[k])
      BY <3>1, <3>2
    <3>4. x # e[k]
      BY <1>2, <3>1 DEF IsLines
    <3>5. e[k] < x
      BY <1>1, <2>3, <3>3, <3>4
    <3>6. QED
      BY <2>3, <3>5
  <2>6. QED
    BY <2>4, <2>5
<1>3. ASSUME NEW k \in 1 .. n, NEW l \in 1 .. n, NEW x \in Nat,
             e[k] < x, x < e[k + 1], e[l] < x, x < e[l + 1]
      PROVE  k = l
  <2>1. ~(k < l)
    <3>1. e[k + 1] \in Nat /\ e[l] \in Nat
      BY <1>1
    <3>2. ~(e[k + 1] <= e[l])
      BY <1>3, <3>1
    <3>3. QED
      BY <1>1, <3>2
  <2>2. ~(l < k)
    <3>1. e[l + 1] \in Nat /\ e[k] \in Nat
      BY <1>1
    <3>2. ~(e[l + 1] <= e[k])
      BY <1>3, <3>1
    <3>3. QED
      BY <1>1, <3>2
  <2>3. QED
    BY <1>1, <2>1, <2>2
<1>4. QED
  BY <1>2, <1>3

LEMMA LineIs ==
    ASSUME NEW S, NEW s \in Seq(S), NEW n, NEW e, IsLines(s, n, e), NEW k \in 1 .. n
    PROVE  LET l == SubSeq(s, e[k] + 1, e[k + 1] - 1)
           IN  /\ l \in Seq(S) /\ Len(l) = e[k + 1] - e[k] - 1
               /\ \A x \in 1 .. Len(l) : l[x] = s[e[k] + x]
<1>1. PICK a \in Nat, b \in Nat : a = e[k] /\ b = e[k + 1]
  BY LinesOrder
<1>2. a < b /\ a <= Len(s) /\ b <= Len(s) + 1 /\ Len(s) \in Nat
  BY <1>1, LinesOrder
<1> DEFINE l == SubSeq(s, a + 1, b - 1)
<1>3. ASSUME b = a + 1
      PROVE  l \in Seq(S) /\ Len(l) = b - a - 1 /\ \A x \in 1 .. b - a - 1 : l[x] = s[a + x]
  <2>1. b - 1 = a /\ a + 1 > a /\ b - a - 1 = 0
    BY <1>3
  <2>2. SubSeq(s, a + 1, a) = <<>>
    BY <1>2
  <2>3. l = <<>> /\ <<>> \in Seq(S) /\ Len(<<>>) = 0
    BY <2>1, <2>2
  <2> HIDE DEF l
  <2>4. l \in Seq(S) /\ Len(l) = b - a - 1
    BY <2>1, <2>3
  <2>5. \A x \in 1 .. b - a - 1 : FALSE
    BY <2>1
  <2>6. QED
    BY <2>4, <2>5
<1>4. ASSUME b # a + 1
      PROVE  l \in Seq(S) /\ Len(l) = b - a - 1 /\ \A x \in 1 .. b - a - 1 : l[x] = s[a + x]
  <2>1. PICK c \in 1 .. Len(s), d \in Nat : c = a + 1 /\ d \in c + 1 .. Len(s) + 1 /\ d = b
    BY <1>2, <1>4
  <2>2. /\ SubSeq(s, c, d - 1) \in Seq(S) /\ Len(SubSeq(s, c, d - 1)) = d - c
        /\ \A x \in 1 .. d - c : SubSeq(s, c, d - 1)[x] = s[c + x - 1]
    <3>1. d \in c + 1 .. Len(s) + 1
      BY <2>1
    <3>2. QED
      BY <3>1, Slices
  <2>3. l = SubSeq(s, c, d - 1)
    BY <2>1
  <2>4. d - c = b - a - 1
    BY <1>2, <2>1
  <2> HIDE DEF l
  <2>5. l \in Seq(S) /\ Len(l) = b - a - 1
    BY <2>2, <2>3, <2>4
  <2>6. ASSUME NEW x \in 1 .. b - a - 1 PROVE l[x] = s[a + x]
    <3>1. c + x - 1 = a + x
      BY <1>2, <2>1
    <3>2. QED
      BY <2>2, <2>3, <2>4, <3>1
  <2>7. QED
    BY <2>5, <2>6
<1>5. l \in Seq(S) /\ Len(l) = b - a - 1 /\ \A x \in 1 .. b - a - 1 : l[x] = s[a + x]
  BY <1>3, <1>4
<1> HIDE DEF l
<1>6. l = SubSeq(s, e[k] + 1, e[k + 1] - 1)
  BY <1>1 DEF l
<1>7. Len(l) = e[k + 1] - e[k] - 1 /\ \A x \in 1 .. Len(l) : l[x] = s[e[k] + x]
  BY <1>1, <1>5
<1>8. QED
  BY <1>5, <1>6, <1>7

LEMMA RStripIs ==
    ASSUME NEW S, NEW l \in Seq(S)
    PROVE  \E r \in 0 .. Len(l) :
              /\ Chk!RStrip(l) \in Seq(S) /\ Len(Chk!RStrip(l)) = r
              /\ \A x \in 1 .. r : Chk!RStrip(l)[x] = l[x]
              /\ \A x \in r + 1 .. Len(l) : Chk!White(l[x])
<1> DEFINE L == Len(l)
           N == {r \in 0 .. L : \A m \in r + 1 .. L : Chk!White(l[m])}
           R == {k \in DOMAIN l : \E m \in k .. Len(l) : ~Chk!White(l[m])}
<1>1. L \in Nat /\ DOMAIN l = 1 .. L
  OBVIOUS
<1>2. L \in N
  BY <1>1
<1>3. PICK r \in N : \A m \in N : r <= m
  <2>1. N \in SUBSET Nat
    BY <1>1
  <2>2. QED
    BY <1>2, <2>1, Least
<1>4. r \in 0 .. L /\ \A m \in r + 1 .. L : Chk!White(l[m])
  OBVIOUS
<1>5. r # 0 => ~Chk!White(l[r])
  <2> SUFFICES ASSUME r # 0, Chk!White(l[r]) PROVE FALSE
    OBVIOUS
  <2>1. r - 1 \in 0 .. L /\ r - 1 + 1 = r /\ ~(r <= r - 1)
    BY <1>1, <1>4
  <2>2. PICK m \in r .. L : ~Chk!White(l[m])
    BY <1>3, <2>1
  <2>3. m = r \/ m \in r + 1 .. L
    BY <1>4
  <2>4. QED
    BY <1>4, <2>2, <2>3
<1>6. R = 1 .. r
  <2>1. ASSUME NEW k \in R PROVE k \in 1 .. r
    <3>1. k \in 1 .. L /\ \E m \in k .. L : ~Chk!White(l[m])
      BY <1>1
    <3>2. PICK m \in k .. L : ~Chk!White(l[m])
      BY <3>1
    <3>3. m \notin r + 1 .. L
      BY <1>4, <3>2
    <3>4. QED
      BY <1>4, <3>1, <3>3
  <2>2. ASSUME NEW k \in 1 .. r PROVE k \in R
    <3>1. k \in 1 .. L /\ r \in k .. L /\ r # 0
      BY <1>1, <1>4
    <3>2. QED
      BY <1>1, <1>5, <3>1
  <2>3. QED
    BY <2>1, <2>2
<1>7. Chk!Cardinality(R) = r
  <2> HIDE DEF R
  <2>1. Cardinality(1 .. r) = r
    BY <1>4, FS_Interval
  <2>2. QED
    BY <1>6, <2>1, CheckersCardinality
<1>8. Chk!RStrip(l) = SubSeq(l, 1, r)
  BY <1>7 DEF Chk!RStrip
<1> HIDE DEF L, N, R
<1>9. SubSeq(l, 1, r) \in Seq(S) /\ Len(SubSeq(l, 1, r)) = r /\ \A x \in 1 .. r : SubSeq(l, 1, r)[x] = l[x]
  BY <1>1, <1>4 DEF L
<1>10. QED
  BY <1>4, <1>8, <1>9 DEF L

\* What is black in a line of j is at the same place of that line of p.
LineFor(j, ej, p, ep, n) ==
    \A k \in 1 .. n : \A x \in Nat :
      0 < x /\ ej[k] + x < ej[k + 1] /\ ~Chk!White(j[ej[k] + x])
      => ep[k] + x < ep[k + 1] /\ p[ep[k] + x] = j[ej[k] + x]

LEMMA StrippedLine ==
    ASSUME NEW S, NEW j \in Seq(S), NEW p \in Seq(S), NEW n, NEW ej, NEW ep,
           IsLines(j, n, ej), IsLines(p, n, ep),
           \A k \in 1 .. n : Chk!RStrip(SubSeq(j, ej[k] + 1, ej[k + 1] - 1))
                               = Chk!RStrip(SubSeq(p, ep[k] + 1, ep[k + 1] - 1))
    PROVE  LineFor(j, ej, p, ep, n)
<1> SUFFICES ASSUME NEW k \in 1 .. n, NEW x \in Nat, 0 < x, ej[k] + x < ej[k + 1],
                    ~Chk!White(j[ej[k] + x])
             PROVE  ep[k] + x < ep[k + 1] /\ p[ep[k] + x] = j[ej[k] + x]
  BY DEF LineFor
<1> DEFINE lj == SubSeq(j, ej[k] + 1, ej[k + 1] - 1)
           lp == SubSeq(p, ep[k] + 1, ep[k + 1] - 1)
<1>1. /\ lj \in Seq(S) /\ Len(lj) = ej[k + 1] - ej[k] - 1
      /\ \A y \in 1 .. Len(lj) : lj[y] = j[ej[k] + y]
  BY LineIs
<1>2. /\ lp \in Seq(S) /\ Len(lp) = ep[k + 1] - ep[k] - 1
      /\ \A y \in 1 .. Len(lp) : lp[y] = p[ep[k] + y]
  BY LineIs
<1>3. Chk!RStrip(lj) = Chk!RStrip(lp)
  OBVIOUS
<1> HIDE DEF lj, lp
<1>4. PICK r \in 0 .. Len(lj) :
              /\ Len(Chk!RStrip(lj)) = r
              /\ \A y \in 1 .. r : Chk!RStrip(lj)[y] = lj[y]
              /\ \A y \in r + 1 .. Len(lj) : Chk!White(lj[y])
  BY <1>1, RStripIs
<1>5. PICK q \in 0 .. Len(lp) :
              /\ Len(Chk!RStrip(lp)) = q
              /\ \A y \in 1 .. q : Chk!RStrip(lp)[y] = lp[y]
              /\ \A y \in q + 1 .. Len(lp) : Chk!White(lp[y])
  BY <1>2, RStripIs
<1>6. q = r
  BY <1>3, <1>4, <1>5
<1>7. PICK a \in Nat, b \in Nat, c \in Nat, d \in Nat :
          a = ej[k] /\ b = ej[k + 1] /\ c = ep[k] /\ d = ep[k + 1]
  <2>1. ej[k] \in Nat /\ ej[k + 1] \in Nat /\ ep[k] \in Nat /\ ep[k + 1] \in Nat
    BY LinesOrder
  <2>2. QED
    BY <2>1
<1>8. Len(lj) = b - a - 1 /\ Len(lp) = d - c - 1 /\ a + x < b
  BY <1>1, <1>2, <1>7
<1>9. x \in 1 .. Len(lj)
  BY <1>8
<1>10. ~Chk!White(lj[x])
  BY <1>1, <1>9
<1>11. x \in 1 .. r
  BY <1>4, <1>9, <1>10
<1>12. x \in 1 .. q /\ x \in 1 .. Len(lp)
  BY <1>5, <1>6, <1>11
<1>13. lp[x] = lj[x]
  BY <1>3, <1>4, <1>5, <1>11, <1>12
<1>14. c + x < d
  BY <1>8, <1>12
<1>15. QED
  BY <1>1, <1>2, <1>7, <1>9, <1>12, <1>13, <1>14

LEMMA SameLinesMove ==
    ASSUME NEW S, NEW j \in Seq(S), NEW p \in Seq(S), NEW n, NEW ej, NEW ep,
           IsLines(j, n, ej), IsLines(p, n, ep),
           LineFor(j, ej, p, ep, n), LineFor(p, ep, j, ej, n)
    PROVE  \E f : Moves(j, p, f)
<1> DEFINE ln(x) == CHOOSE k \in 1 .. n : ej[k] < x /\ x < ej[k + 1]
           f == [x \in Blacks(j) |-> ep[ln(x)] + (x - ej[ln(x)])]
<1>1. /\ n \in Nat \ {0} /\ Len(j) \in Nat /\ Len(p) \in Nat
      /\ Blacks(j) \in SUBSET (1 .. Len(j)) /\ Blacks(p) \in SUBSET (1 .. Len(p))
      /\ \A x \in Blacks(j) : ~Chk!White(j[x]) /\ j[x] # "n"
      /\ \A x \in Blacks(p) : ~Chk!White(p[x]) /\ p[x] # "n"
  <2>1. n \in Nat \ {0} /\ Len(j) \in Nat /\ Len(p) \in Nat
    BY LinesOrder
  <2>2. DOMAIN j = 1 .. Len(j) /\ DOMAIN p = 1 .. Len(p)
    OBVIOUS
  <2>3. QED
    BY <2>1, <2>2 DEF Blacks, Chk!White
<1>2. ASSUME NEW k \in 1 .. n
      PROVE  /\ ej[k] \in Nat /\ ej[k + 1] \in Nat /\ ej[k + 1] <= Len(j) + 1
             /\ ep[k] \in Nat /\ ep[k + 1] \in Nat /\ ep[k + 1] <= Len(p) + 1
  BY LinesOrder
<1>3. ASSUME NEW x \in Blacks(j)
      PROVE  ln(x) \in 1 .. n /\ ej[ln(x)] < x /\ x < ej[ln(x) + 1]
  <2>1. \E k \in 1 .. n : ej[k] < x /\ x < ej[k + 1]
    BY <1>1, InLine
  <2>2. QED
    BY <2>1
<1>4. ASSUME NEW x \in Blacks(j), NEW k \in 1 .. n, ej[k] < x, x < ej[k + 1] PROVE ln(x) = k
  BY <1>1, <1>3, <1>4, InLine
<1>5. \A x \in Blacks(j) : f[x] = ep[ln(x)] + (x - ej[ln(x)])
  OBVIOUS
<1>6. f = [x \in Blacks(j) |-> f[x]]
  OBVIOUS
<1> HIDE DEF ln, f
<1>7. ASSUME NEW x \in Blacks(j)
      PROVE  /\ f[x] \in Nat /\ f[x] \in Blacks(p) /\ p[f[x]] = j[x]
             /\ ep[ln(x)] < f[x] /\ f[x] < ep[ln(x) + 1]
  <2>1. PICK k \in 1 .. n : k = ln(x)
    BY <1>3
  <2>2. PICK a \in Nat, b \in Nat, c \in Nat, d \in Nat :
            a = ej[k] /\ b = ej[k + 1] /\ c = ep[k] /\ d = ep[k + 1]
    BY <1>2
  <2>3. x \in Nat /\ a < x /\ x < b /\ d <= Len(p) + 1
    <3>1. x \in Nat
      BY <1>1
    <3>2. a < x /\ x < b
      BY <1>3, <2>1, <2>2
    <3>3. d <= Len(p) + 1
      BY <1>2, <2>2
    <3>4. QED
      BY <3>1, <3>2, <3>3
  <2>4. PICK o \in Nat : o = x - a
    BY <2>3
  <2>5. 0 < o /\ a + o = x /\ ej[k] + o = x
    <3>1. 0 < o /\ a + o = x
      BY <2>3, <2>4
    <3>2. QED
      BY <2>2, <3>1
  <2>6. ep[k] + o < ep[k + 1] /\ p[ep[k] + o] = j[ej[k] + o]
    BY <1>1, <2>2, <2>3, <2>5 DEF LineFor
  <2>7. f[x] = c + o /\ c + o < d /\ p[c + o] = j[x]
    BY <1>5, <2>1, <2>2, <2>4, <2>5, <2>6
  <2>8. c + o \in 1 .. Len(p) /\ ~Chk!White(p[c + o])
    BY <1>1, <2>3, <2>5, <2>7
  <2>9. c + o \in Blacks(p)
    BY <2>8 DEF Blacks
  <2>10. c < c + o /\ c + o \in Nat
    BY <2>5
  <2>11. QED
    BY <2>1, <2>2, <2>7, <2>9, <2>10
<1>8. f \in [Blacks(j) -> Blacks(p)]
  BY <1>6, <1>7
<1>9. ASSUME NEW y \in Blacks(p) PROVE \E x \in Blacks(j) : f[x] = y
  <2>1. PICK k \in 1 .. n : ep[k] < y /\ y < ep[k + 1]
    BY <1>1, InLine
  <2>2. PICK a \in Nat, b \in Nat, c \in Nat, d \in Nat :
            a = ej[k] /\ b = ej[k + 1] /\ c = ep[k] /\ d = ep[k + 1]
    BY <1>2
  <2>3. y \in Nat /\ c < y /\ y < d /\ b <= Len(j) + 1
    <3>1. y \in Nat
      BY <1>1
    <3>2. c < y /\ y < d
      BY <2>1, <2>2
    <3>3. b <= Len(j) + 1
      BY <1>2, <2>2
    <3>4. QED
      BY <3>1, <3>2, <3>3
  <2>4. PICK o \in Nat : o = y - c
    BY <2>3
  <2>5. 0 < o /\ c + o = y
    BY <2>3, <2>4
  <2>6. ej[k] + o < ej[k + 1] /\ j[ej[k] + o] = p[ep[k] + o]
    BY <1>1, <2>2, <2>3, <2>5 DEF LineFor
  <2>7. a + o < b /\ j[a + o] = p[y]
    BY <2>2, <2>5, <2>6
  <2>8. a + o \in 1 .. Len(j) /\ ~Chk!White(j[a + o])
    BY <1>1, <2>3, <2>5, <2>7
  <2>9. a + o \in Blacks(j)
    BY <2>8 DEF Blacks
  <2>10. a < a + o
    BY <2>5
  <2>11. ln(a + o) = k
    BY <1>4, <2>2, <2>7, <2>9, <2>10
  <2>12. PICK x \in Blacks(j) : x = a + o
    BY <2>9
  <2>13. f[x] = c + (x - a)
    BY <1>5, <2>2, <2>11, <2>12
  <2>14. QED
    BY <2>5, <2>12, <2>13
<1>10. ASSUME NEW x \in Blacks(j), NEW y \in Blacks(j), x < y
       PROVE  /\ f[x] < f[y] /\ (y = x + 1 <=> f[y] = f[x] + 1)
              /\ LineEndIn(j, x, y) <=> LineEndIn(p, f[x], f[y])
  <2>1. PICK k \in 1 .. n, l \in 1 .. n : k = ln(x) /\ l = ln(y)
    BY <1>3
  <2>2. /\ x \in Nat /\ y \in Nat /\ f[x] \in Nat /\ f[y] \in Nat
        /\ ej[k] < x /\ x < ej[k + 1] /\ ej[l] < y /\ y < ej[l + 1]
        /\ ep[k] < f[x] /\ f[x] < ep[k + 1] /\ ep[l] < f[y] /\ f[y] < ep[l + 1]
    BY <1>1, <1>3, <1>7, <2>1
  <2>3. ~(l < k)
    <3> SUFFICES ASSUME l < k PROVE FALSE
      OBVIOUS
    <3>1. ej[l + 1] <= ej[k]
      BY LinesOrder
    <3>2. ej[l + 1] \in Nat /\ ej[k] \in Nat
      BY <1>2
    <3>3. QED
      BY <1>10, <2>2, <3>1, <3>2
  <2>4. CASE k = l
    <3>1. PICK a \in Nat, c \in Nat : a = ej[k] /\ c = ep[k]
      BY <1>2
    <3>2. f[x] = c + (x - a) /\ f[y] = c + (y - a)
      BY <1>5, <2>1, <2>4, <3>1
    <3>3. f[x] < f[y] /\ (y = x + 1 <=> f[y] = f[x] + 1)
      BY <1>10, <2>2, <3>2
    <3>4. ~LineEndIn(j, x, y)
      <4>1. PICK u \in Nat, v \in Nat : u = ej[k] /\ v = ej[k + 1]
        BY <1>2
      <4>3. u < x /\ y < v
        BY <2>2, <2>4, <4>1
      <4>4. \A m \in x .. y : m \in u + 1 .. v - 1
        BY <2>2, <4>3
      <4>2. \A m \in ej[k] + 1 .. ej[k + 1] - 1 : j[m] # "n"
        BY DEF IsLines
      <4>5. QED
        BY <4>1, <4>2, <4>4 DEF LineEndIn
    <3>5. ~LineEndIn(p, f[x], f[y])
      <4>1. PICK u \in Nat, v \in Nat : u = ep[k] /\ v = ep[k + 1]
        BY <1>2
      <4>3. u < f[x] /\ f[y] < v
        BY <2>2, <2>4, <4>1
      <4>4. \A m \in f[x] .. f[y] : m \in u + 1 .. v - 1
        BY <2>2, <4>3
      <4>2. \A m \in ep[k] + 1 .. ep[k + 1] - 1 : p[m] # "n"
        BY DEF IsLines
      <4>5. QED
        BY <4>1, <4>2, <4>4 DEF LineEndIn
    <3>6. QED
      BY <3>3, <3>4, <3>5
  <2>5. CASE k < l
    <3>1. ej[k + 1] <= ej[l] /\ ep[k + 1] <= ep[l]
      BY <2>5, LinesOrder
    <3>2. k + 1 \in 2 .. n
      BY <1>1, <2>5
    <3>3. j[ej[k + 1]] = "n" /\ p[ep[k + 1]] = "n"
      BY <3>2 DEF IsLines
    <3>4. /\ ej[k + 1] \in Nat /\ ej[l] \in Nat /\ ep[k + 1] \in Nat /\ ep[l] \in Nat
      BY <1>2
    <3>5. ej[k + 1] \in x .. y /\ y # x + 1
      <4>1. x \in Nat /\ y \in Nat /\ x < ej[k + 1] /\ ej[l] < y
        BY <2>2
      <4>2. QED
        BY <3>1, <3>4, <4>1
    <3>6. ep[k + 1] \in f[x] .. f[y] /\ f[y] # f[x] + 1 /\ f[x] < f[y]
      <4>1. f[x] \in Nat /\ f[y] \in Nat /\ f[x] < ep[k + 1] /\ ep[l] < f[y]
        BY <2>2
      <4>2. QED
        BY <3>1, <3>4, <4>1
    <3>7. LineEndIn(j, x, y) /\ LineEndIn(p, f[x], f[y])
      BY <3>3, <3>5, <3>6 DEF LineEndIn
    <3>8. QED
      BY <3>5, <3>6, <3>7
  <2>6. QED
    BY <1>1, <2>3, <2>4, <2>5
<1>11. Moves(j, p, f)
  BY <1>7, <1>8, <1>9, <1>10 DEF Moves
<1>12. QED
  BY <1>11

\* Texts that differ in the white space before their line ends have the same tokens.
LEMMA StrippedStandard ==
    ASSUME NEW S, NEW j \in Seq(S), NEW p \in Seq(S), Chk!RStripped(j, p)
    PROVE  Chk!Standard(j, p)
<1>1. PICK n, ej : /\ IsLines(j, n, ej)
                   /\ Chk!Lines(j) = [k \in 1 .. n |-> SubSeq(j, ej[k] + 1, ej[k + 1] - 1)]
  BY LinesAre
<1>2. PICK m, ep : /\ IsLines(p, m, ep)
                   /\ Chk!Lines(p) = [k \in 1 .. m |-> SubSeq(p, ep[k] + 1, ep[k + 1] - 1)]
  BY LinesAre
<1> DEFINE rj == [k \in DOMAIN Chk!Lines(j) |-> Chk!RStrip(Chk!Lines(j)[k])]
           rp == [k \in DOMAIN Chk!Lines(p) |-> Chk!RStrip(Chk!Lines(p)[k])]
<1>3. rj = rp
  BY DEF Chk!RStripped
<1>4. DOMAIN rj = 1 .. n /\ DOMAIN rp = 1 .. m
  BY <1>1, <1>2
<1>5. n = m
  <2>1. 1 .. n = 1 .. m
    BY <1>3, <1>4
  <2>2. n \in Nat /\ m \in Nat
    BY <1>1, <1>2 DEF IsLines
  <2>3. QED
    BY <2>1, <2>2
<1>6. ASSUME NEW k \in 1 .. n
      PROVE  Chk!RStrip(SubSeq(j, ej[k] + 1, ej[k + 1] - 1))
               = Chk!RStrip(SubSeq(p, ep[k] + 1, ep[k + 1] - 1))
  <2>1. rj[k] = Chk!RStrip(SubSeq(j, ej[k] + 1, ej[k + 1] - 1))
    BY <1>1
  <2>2. rp[k] = Chk!RStrip(SubSeq(p, ep[k] + 1, ep[k + 1] - 1))
    BY <1>2, <1>5
  <2>3. QED
    BY <1>3, <2>1, <2>2
<1>7. LineFor(j, ej, p, ep, n) /\ LineFor(p, ep, j, ej, n)
  <2>1. IsLines(p, n, ep)
    BY <1>2, <1>5
  <2>2. LineFor(j, ej, p, ep, n)
    BY <1>1, <1>6, <2>1, StrippedLine
  <2>3. LineFor(p, ep, j, ej, n)
    BY <1>1, <1>6, <2>1, StrippedLine
  <2>4. QED
    BY <2>2, <2>3
<1>8. PICK f : Moves(j, p, f)
  BY <1>1, <1>2, <1>5, <1>7, SameLinesMove
<1>9. QED
  BY <1>8, MovedStandard

-------------------------------------------------------------------------------
(* Sequences that are equal once they are sorted.                          *)

\* Equal bags are one another's rearrangement.
LEMMA BagRearranged ==
    ASSUME NEW T, NEW a \in Seq(T), NEW b \in Seq(T), Chk!SameBag(a, b)
    PROVE  \E g \in Bijection(DOMAIN a, DOMAIN b) : \A k \in DOMAIN a : b[g[k]] = a[k]
<1> DEFINE A(x) == {k \in DOMAIN a : a[k] = x}
           B(x) == {k \in DOMAIN b : b[k] = x}
           h(x) == CHOOSE f : f \in Bijection(A(x), B(x))
           g == [k \in DOMAIN a |-> h(a[k])[k]]
<1>1. /\ Len(a) \in Nat /\ Len(b) = Len(a) /\ DOMAIN a = 1 .. Len(a) /\ DOMAIN b = 1 .. Len(a)
      /\ \A k \in DOMAIN a : Cardinality(A(a[k])) = Cardinality(B(a[k]))
  <2>1. Len(b) = Len(a) /\ Len(a) \in Nat
    BY DEF Chk!SameBag
  <2>2. DOMAIN a = 1 .. Len(a) /\ DOMAIN b = 1 .. Len(a)
    BY <2>1
  <2>3. ASSUME NEW k \in DOMAIN a PROVE Cardinality(A(a[k])) = Cardinality(B(a[k]))
    <3>1. a[k] \in {a[m] : m \in DOMAIN a}
      OBVIOUS
    <3>2. Chk!Cardinality(A(a[k])) = Chk!Cardinality(B(a[k]))
      BY <3>1 DEF Chk!SameBag
    <3>3. QED
      BY <3>2, CheckersCardinality
  <2>4. QED
    BY <2>1, <2>2, <2>3
<1>2. IsFiniteSet(DOMAIN a) /\ IsFiniteSet(DOMAIN b) /\ Cardinality(DOMAIN a) = Cardinality(DOMAIN b)
  <2>1. IsFiniteSet(1 .. Len(a))
    BY <1>1, FS_Interval
  <2>2. QED
    BY <1>1, <2>1
<1>3. \A x : IsFiniteSet(A(x)) /\ IsFiniteSet(B(x))
  BY <1>2, FS_Subset
<1> HIDE DEF A, B
<1>4. ASSUME NEW k \in DOMAIN a PROVE h(a[k]) \in Bijection(A(a[k]), B(a[k]))
  <2>1. ExistsBijection(A(a[k]), B(a[k]))
    BY <1>1, <1>3, FS_SameCardinalityBij
  <2>2. QED
    BY <2>1 DEF ExistsBijection
<1> HIDE DEF h
<1>5. ASSUME NEW k \in DOMAIN a
      PROVE  g[k] \in DOMAIN b /\ b[g[k]] = a[k] /\ g[k] = h(a[k])[k] /\ k \in A(a[k])
  <2>1. k \in A(a[k])
    BY DEF A
  <2>2. h(a[k])[k] \in B(a[k])
    BY <1>4, <2>1 DEF Bijection, Injection
  <2>3. QED
    BY <2>1, <2>2 DEF B
<1>6. g = [k \in DOMAIN a |-> g[k]]
  OBVIOUS
<1> HIDE DEF g
<1>7. ASSUME NEW k \in DOMAIN a, NEW l \in DOMAIN a, g[k] = g[l] PROVE k = l
  <2>1. a[k] = a[l]
    BY <1>5, <1>7
  <2>2. h(a[k])[k] = h(a[k])[l] /\ k \in A(a[k]) /\ l \in A(a[k])
    BY <1>5, <1>7, <2>1
  <2>3. QED
    BY <1>4, <2>2 DEF Bijection, Injection, IsInjective
<1>8. g \in Injection(DOMAIN a, DOMAIN b)
  <2>1. g \in [DOMAIN a -> DOMAIN b]
    BY <1>5, <1>6
  <2>2. QED
    BY <1>7, <2>1 DEF Injection, IsInjective
<1>9. g \in Surjection(DOMAIN a, DOMAIN b)
  BY <1>2, <1>8, FS_Injection
<1>10. QED
  BY <1>5, <1>8, <1>9 DEF Bijection

\* What two sequences list of one set, in some order, are equal bags.
LEMMA ListedBag ==
    ASSUME NEW T, NEW a \in Seq(T), NEW b \in Seq(T), NEW X,
           NEW u \in Bijection(X, DOMAIN a), NEW v \in Bijection(X, DOMAIN b),
           \A q \in X : a[u[q]] = b[v[q]]
    PROVE  Chk!SameBag(a, b)
<1>1. Len(a) \in Nat /\ Len(b) \in Nat /\ DOMAIN a = 1 .. Len(a) /\ DOMAIN b = 1 .. Len(b)
  OBVIOUS
<1>2. /\ IsFiniteSet(DOMAIN a) /\ Cardinality(DOMAIN a) = Len(a)
      /\ IsFiniteSet(DOMAIN b) /\ Cardinality(DOMAIN b) = Len(b)
  <2>a. \A N \in Nat : IsFiniteSet(1 .. N) /\ Cardinality(1 .. N) = N
    BY FS_Interval
  <2>1. IsFiniteSet(1 .. Len(a)) /\ Cardinality(1 .. Len(a)) = Len(a)
    BY <1>1, <2>a
  <2>2. IsFiniteSet(1 .. Len(b)) /\ Cardinality(1 .. Len(b)) = Len(b)
    BY <1>1, <2>a
  <2>3. QED
    BY <1>1, <2>1, <2>2
<1>3. /\ u \in [X -> DOMAIN a] /\ v \in [X -> DOMAIN b]
      /\ \A q, r \in X : u[q] = u[r] => q = r
      /\ \A q, r \in X : v[q] = v[r] => q = r
      /\ \A k \in DOMAIN a : \E q \in X : u[q] = k
      /\ \A k \in DOMAIN b : \E q \in X : v[q] = k
  BY DEF Bijection, Injection, Surjection, IsInjective
<1>4. IsFiniteSet(X)
  BY <1>2, FS_Injection DEF Bijection
<1>5. Len(a) = Len(b)
  <2>1. ExistsBijection(X, DOMAIN a) /\ ExistsBijection(X, DOMAIN b)
    BY DEF ExistsBijection
  <2>2. QED
    BY <1>2, <1>4, <2>1, FS_Bijection
<1>6. ASSUME NEW x
      PROVE  Cardinality({k \in DOMAIN a : a[k] = x}) = Cardinality({k \in DOMAIN b : b[k] = x})
  <2> DEFINE A == {k \in DOMAIN a : a[k] = x}
             B == {k \in DOMAIN b : b[k] = x}
             Y == {q \in X : a[u[q]] = x}
             ua == [q \in Y |-> u[q]]
             va == [q \in Y |-> v[q]]
  <2>1. IsFiniteSet(Y)
    BY <1>4, FS_Subset
  <2>2. ua \in Bijection(Y, A)
    <3>1. ua \in [Y -> A]
      BY <1>3
    <3>2. \A q, r \in Y : ua[q] = ua[r] => q = r
      BY <1>3
    <3>3. \A k \in A : \E q \in Y : ua[q] = k
      BY <1>3
    <3> HIDE DEF ua, A, Y
    <3>4. QED
      BY <3>1, <3>2, <3>3 DEF Bijection, Injection, Surjection, IsInjective
  <2>3. va \in Bijection(Y, B)
    <3>1. va \in [Y -> B]
      BY <1>3
    <3>2. \A q, r \in Y : va[q] = va[r] => q = r
      BY <1>3
    <3>3. \A k \in B : \E q \in Y : va[q] = k
      BY <1>3
    <3> HIDE DEF va, B, Y
    <3>4. QED
      BY <3>1, <3>2, <3>3 DEF Bijection, Injection, Surjection, IsInjective
  <2> HIDE DEF A, B, Y, ua, va
  <2>4. ExistsBijection(Y, A) /\ ExistsBijection(Y, B)
    BY <2>2, <2>3 DEF ExistsBijection
  <2>5. Cardinality(A) = Cardinality(Y) /\ Cardinality(B) = Cardinality(Y)
    BY <2>1, <2>4, FS_Bijection
  <2>6. QED
    BY <2>5 DEF A, B
<1>7. QED
  BY <1>5, <1>6, CheckersCardinality DEF Chk!SameBag

-------------------------------------------------------------------------------
(* The tokens of a text are those of its lines.                            *)

StartOf(s, k) == Chk!Sorted(Starts(s))[k]
TokenFrom(s, x) == SubSeq(s, x, Chk!SkipBlack(s, x) - 1)

LEMMA TokensByStart ==
    ASSUME NEW S, NEW s \in Seq(S)
    PROVE  LET n == Cardinality(Starts(s))
           IN  /\ n \in Nat /\ Chk!Tokens(s) \in Seq(Seq(S)) /\ DOMAIN Chk!Tokens(s) = 1 .. n
               /\ \A k \in 1 .. n : StartOf(s, k) \in Starts(s)
               /\ \A k, l \in 1 .. n : StartOf(s, k) = StartOf(s, l) => k = l
               /\ \A x \in Starts(s) : \E k \in 1 .. n : StartOf(s, k) = x
               /\ \A k \in 1 .. n : Chk!Tokens(s)[k] = TokenFrom(s, StartOf(s, k))
<1> DEFINE n == Cardinality(Starts(s))
           st == Chk!Sorted(Starts(s))
<1>1. DOMAIN s = 1 .. Len(s) /\ Len(s) \in Nat
  OBVIOUS
<1>2. Starts(s) \in SUBSET (1 .. Len(s))
  BY <1>1 DEF Starts
<1>3. Starts(s) \in SUBSET Nat /\ IsFiniteSet(Starts(s))
  <2>1. IsFiniteSet(1 .. Len(s))
    BY <1>1, FS_Interval
  <2>2. QED
    BY <1>2, <2>1, FS_Subset
<1>4. /\ n \in Nat /\ st \in [1 .. n -> Starts(s)] /\ Increasing(st, n)
      /\ \A x \in Starts(s) : \E k \in 1 .. n : st[k] = x
  BY <1>3, SortedIs
<1>5. Chk!Tokens(s) = [k \in DOMAIN st |-> TokenFrom(s, st[k])]
  BY DEF Chk!Tokens, TokenFrom, Starts
<1> HIDE DEF n, st
<1>6. DOMAIN st = 1 .. n
  BY <1>4
<1>7. Chk!Tokens(s) = [k \in 1 .. n |-> TokenFrom(s, st[k])]
  BY <1>5, <1>6
<1>8. ASSUME NEW k \in 1 .. n PROVE TokenFrom(s, st[k]) \in Seq(S)
  <2>1. st[k] \in 1 .. Len(s)
    BY <1>2, <1>4
  <2>2. st[k] \in 1 .. Len(s) + 1
    BY <1>1, <2>1
  <2>3. PICK a \in 1 .. Len(s), b \in Nat :
            a = st[k] /\ b = Chk!SkipBlack(s, st[k]) /\ b \in a .. Len(s) + 1
    <3>1. Chk!SkipBlack(s, st[k]) \in st[k] .. Len(s) + 1
      BY <2>2, SkipBlackIs
    <3>2. Chk!SkipBlack(s, st[k]) \in Nat
      BY <2>1, <3>1
    <3>3. QED
      BY <2>1, <3>1, <3>2
  <2>4. \A x \in a .. b - 1 : x \in 1 .. Len(s)
    BY <1>1, <2>3
  <2>5. SubSeq(s, a, b - 1) \in Seq(S)
    BY <1>1, <2>3, <2>4
  <2>6. QED
    BY <2>3, <2>5 DEF TokenFrom
<1>9. Chk!Tokens(s) \in Seq(Seq(S))
  BY <1>4, <1>7, <1>8
<1>10. \A k, l \in 1 .. n : st[k] = st[l] => k = l
  <2> SUFFICES ASSUME NEW k \in 1 .. n, NEW l \in 1 .. n, st[k] = st[l] PROVE k = l
    OBVIOUS
  <2>1. st[k] \in Nat /\ st[l] \in Nat
    BY <1>3, <1>4
  <2>2. ~(k < l) /\ ~(l < k)
    BY <1>4, <2>1 DEF Increasing
  <2>3. QED
    BY <1>4, <2>2
<1>11. DOMAIN Chk!Tokens(s) = 1 .. n /\ \A k \in 1 .. n : Chk!Tokens(s)[k] = TokenFrom(s, st[k])
  BY <1>7
<1>12. QED
  BY <1>4, <1>9, <1>10, <1>11 DEF n, st, StartOf

\* l is the k-th line of s.
IsLine(l, s, e, k) == l = SubSeq(s, e[k] + 1, e[k + 1] - 1)

LEMMA LineTokens ==
    ASSUME NEW S, NEW s \in Seq(S), NEW n, NEW e, IsLines(s, n, e), NEW k \in 1 .. n,
           NEW l, IsLine(l, s, e, k)
    PROVE  /\ l \in Seq(S)
           /\ \A y \in Starts(l) :
                 /\ y \in Nat /\ e[k] < e[k] + y /\ e[k] + y < e[k + 1]
                 /\ e[k] + y \in Starts(s)
                 /\ TokenFrom(l, y) = TokenFrom(s, e[k] + y)
           /\ \A x \in Starts(s) : e[k] < x /\ x < e[k + 1] => x - e[k] \in Starts(l)
<1>1. l \in Seq(S) /\ Len(l) = e[k + 1] - e[k] - 1 /\ \A x \in 1 .. Len(l) : l[x] = s[e[k] + x]
  BY LineIs DEF IsLine
<1>2. PICK a \in Nat, b \in Nat : a = e[k] /\ b = e[k + 1]
  <2>1. e[k] \in Nat /\ e[k + 1] \in Nat
    BY LinesOrder
  <2>2. QED
    BY <2>1
<1>3. n \in Nat \ {0} /\ Len(s) \in Nat /\ a < b /\ a <= Len(s) /\ b <= Len(s) + 1
  BY <1>2, LinesOrder
<1>4. PICK L \in Nat : L = Len(l) /\ L = b - a - 1
  BY <1>1, <1>2, <1>3
<1>5. DOMAIN l = 1 .. L /\ DOMAIN s = 1 .. Len(s)
  BY <1>1, <1>4
<1>6. ASSUME NEW y \in 1 .. L PROVE l[y] = s[a + y] /\ a + y \in 1 .. Len(s) /\ a < a + y /\ a + y < b
  <2>1. l[y] = s[a + y]
    BY <1>1, <1>2, <1>4
  <2>2. a + y \in 1 .. Len(s) /\ a < a + y /\ a + y < b
    BY <1>3, <1>4
  <2>3. QED
    BY <2>1, <2>2
<1>7. a # 0 => Chk!White(s[a])
  <2>1. k # 1 => s[e[k]] = "n"
    <3>1. k # 1 => k \in 2 .. n
      BY <1>3
    <3>2. QED
      BY <3>1 DEF IsLines
  <2>2. k = 1 => e[k] = 0
    BY DEF IsLines
  <2>3. QED
    BY <1>2, <2>1, <2>2 DEF Chk!White
<1>8. b <= Len(s) => Chk!White(s[b])
  <2>1. k = n => b = Len(s) + 1
    <3>1. e[n + 1] = Len(s) + 1
      BY DEF IsLines
    <3>2. QED
      BY <1>2, <3>1
  <2>2. k # n => k + 1 \in 2 .. n
    BY <1>3
  <2>3. k # n => s[b] = "n"
    BY <1>2, <2>2 DEF IsLines
  <2>4. k = n => ~(b <= Len(s))
    BY <1>3, <2>1
  <2>5. k # n => Chk!White(s[b])
    BY <2>3 DEF Chk!White
  <2>6. QED
    BY <2>4, <2>5
<1>9. ASSUME NEW y \in 1 .. L PROVE y \in Starts(l) <=> a + y \in Starts(s)
  <2>1. y \in Starts(l) <=> ~Chk!White(l[y]) /\ (y = 1 \/ Chk!White(l[y - 1]))
    BY <1>5 DEF Starts
  <2>2. a + y \in Starts(s) <=> ~Chk!White(s[a + y]) /\ (a + y = 1 \/ Chk!White(s[a + y - 1]))
    BY <1>5, <1>6 DEF Starts
  <2>3. CASE y = 1
    <3>1. a + y - 1 = a /\ (a + y = 1 <=> a = 0)
      BY <2>3
    <3>2. QED
      BY <1>6, <1>7, <2>1, <2>2, <2>3, <3>1
  <2>4. CASE y # 1
    <3>1. y - 1 \in 1 .. L /\ a + (y - 1) = a + y - 1 /\ a + y # 1
      BY <1>4, <2>4
    <3>2. l[y - 1] = s[a + y - 1]
      BY <1>6, <3>1
    <3>3. QED
      BY <1>6, <2>1, <2>2, <2>4, <3>1, <3>2
  <2>5. QED
    BY <2>3, <2>4
<1>10. ASSUME NEW y \in Starts(l) PROVE TokenFrom(l, y) = TokenFrom(s, a + y)
  <2>1. y \in 1 .. L /\ ~Chk!White(l[y])
    BY <1>5 DEF Starts
  <2>2. y \in 1 .. Len(l) + 1
    BY <1>4, <2>1
  <2>3. /\ Chk!SkipBlack(l, y) \in y .. Len(l) + 1
        /\ \A m \in y .. Chk!SkipBlack(l, y) - 1 : ~Chk!White(l[m])
        /\ Chk!SkipBlack(l, y) <= Len(l) => Chk!White(l[Chk!SkipBlack(l, y)])
    BY <1>1, <2>2, SkipBlackIs
  <2>4. PICK z \in Nat : z = Chk!SkipBlack(l, y)
    BY <1>4, <2>1, <2>3
  <2>5. /\ z \in y .. L + 1 /\ \A m \in y .. z - 1 : ~Chk!White(l[m])
        /\ z <= L => Chk!White(l[z])
    BY <1>4, <2>3, <2>4
  <2>6. z \in y + 1 .. L + 1
    <3>1. z # y
      BY <2>1, <2>5
    <3>2. QED
      BY <2>1, <2>5, <3>1
  <2>7. Chk!SkipBlack(s, a + y) = a + z
    <3>1. a + y \in 1 .. Len(s) + 1 /\ a + z \in a + y .. Len(s) + 1
      BY <1>3, <1>4, <2>1, <2>6
    <3>2. ASSUME NEW m \in a + y .. a + z - 1 PROVE ~Chk!White(s[m])
      <4>1. PICK x \in Nat : x = m - a
        BY <2>1
      <4>2. x \in y .. z - 1 /\ x \in 1 .. L /\ a + x = m
        BY <2>1, <2>6, <4>1
      <4>3. QED
        BY <1>6, <2>5, <4>2
    <3>3. ASSUME a + z <= Len(s) PROVE Chk!White(s[a + z])
      <4>1. CASE z <= L
        <5>1. z \in 1 .. L
          BY <2>1, <2>6, <4>1
        <5>2. QED
          BY <1>6, <2>5, <4>1, <5>1
      <4>2. CASE ~(z <= L)
        <5>1. a + z = b
          BY <1>3, <1>4, <2>6, <4>2
        <5>2. QED
          BY <1>8, <3>3, <5>1
      <4>3. QED
        BY <4>1, <4>2
    <3>4. QED
      BY <3>1, <3>2, <3>3, SkipBlackOnly
  <2> DEFINE tl == SubSeq(l, y, z - 1)
             ts == SubSeq(s, a + y, a + z - 1)
  <2>8. tl \in Seq(S) /\ Len(tl) = z - y /\ \A x \in 1 .. z - y : tl[x] = l[y + x - 1]
    <3>1. y \in 1 .. Len(l) /\ z \in y + 1 .. Len(l) + 1
      BY <1>4, <2>1, <2>6
    <3>2. QED
      BY <1>1, <3>1, Slices
  <2>9. ts \in Seq(S) /\ Len(ts) = z - y /\ \A x \in 1 .. z - y : ts[x] = s[a + y + x - 1]
    <3>1. PICK c \in 1 .. Len(s), d \in Nat : c = a + y /\ d = a + z
      BY <1>6, <2>1
    <3>2. d \in c + 1 .. Len(s) + 1 /\ d - c = z - y
      BY <1>3, <1>4, <2>1, <2>6, <3>1
    <3>3. /\ SubSeq(s, c, d - 1) \in Seq(S) /\ Len(SubSeq(s, c, d - 1)) = d - c
          /\ \A x \in 1 .. d - c : SubSeq(s, c, d - 1)[x] = s[c + x - 1]
      BY <3>2, Slices
    <3>4. ts = SubSeq(s, c, d - 1)
      BY <3>1
    <3> HIDE DEF ts
    <3>5. ts \in Seq(S) /\ Len(ts) = z - y
      BY <3>2, <3>3, <3>4
    <3>6. \A x \in 1 .. z - y : ts[x] = s[a + y + x - 1]
      BY <3>1, <3>2, <3>3, <3>4
    <3>7. QED
      BY <3>5, <3>6
  <2> HIDE DEF tl, ts
  <2>10. ASSUME NEW x \in 1 .. z - y PROVE tl[x] = ts[x]
    <3>1. PICK w \in Nat : w = y + x - 1
      BY <2>1
    <3>2. w \in 1 .. L /\ a + w = a + y + x - 1
      BY <2>1, <2>6, <3>1
    <3>3. QED
      BY <1>6, <2>8, <2>9, <3>1, <3>2
  <2>11. tl = ts
    BY <2>8, <2>9, <2>10
  <2>12. TokenFrom(l, y) = tl
    BY <2>4 DEF TokenFrom, tl
  <2>13. TokenFrom(s, a + y) = ts
    <3>1. \A x, w : Chk!SkipBlack(s, x) = w => TokenFrom(s, x) = SubSeq(s, x, w - 1)
      BY DEF TokenFrom
    <3>2. QED
      BY <2>7, <3>1 DEF ts
  <2>14. QED
    BY <2>11, <2>12, <2>13
<1>11. ASSUME NEW y \in Starts(l) PROVE y \in 1 .. L
  BY <1>5 DEF Starts
<1>12. ASSUME NEW x \in Starts(s), a < x, x < b PROVE x - a \in Starts(l)
  <2>1. x \in Nat
    BY <1>5 DEF Starts
  <2>2. PICK y \in Nat : y = x - a
    BY <1>12, <2>1
  <2>3. y \in 1 .. L /\ a + y = x
    BY <1>4, <1>12, <2>1, <2>2
  <2>4. QED
    BY <1>9, <2>2, <2>3
<1>13. QED
  BY <1>1, <1>2, <1>6, <1>9, <1>10, <1>11, <1>12

\* The tokens of a list of lines, by line and by place in the line.
Pairs(ls) == {q \in Nat \X Nat : q[1] \in DOMAIN ls /\ q[2] \in DOMAIN ls[q[1]]}

TokensByLine(s) ==
    [k \in DOMAIN Chk!NonEmpty(Chk!Lines(s)) |-> Chk!Tokens(Chk!NonEmpty(Chk!Lines(s))[k])]

LEMMA TokensOfLines ==
    ASSUME NEW S, NEW s \in Seq(S)
    PROVE  /\ TokensByLine(s) \in Seq(Seq(Seq(S)))
           /\ \E h \in Bijection(Pairs(TokensByLine(s)), DOMAIN Chk!Tokens(s)) :
                \A q \in Pairs(TokensByLine(s)) : Chk!Tokens(s)[h[q]] = TokensByLine(s)[q[1]][q[2]]
<1>1. PICK n, e : /\ IsLines(s, n, e)
                  /\ Chk!Lines(s) = [k \in 1 .. n |-> SubSeq(s, e[k] + 1, e[k + 1] - 1)]
  BY LinesAre
<1> DEFINE K == {k \in DOMAIN Chk!Lines(s) : Chk!Lines(s)[k] # <<>>}
           kept == Chk!Sorted(K)
           M == Cardinality(K)
           ne == Chk!NonEmpty(Chk!Lines(s))
           ls == TokensByLine(s)
<1>2. n \in Nat \ {0} /\ Len(s) \in Nat
  BY <1>1, LinesOrder
<1>3. K \in SUBSET (1 .. n) /\ \A k \in 1 .. n : Chk!Lines(s)[k] # <<>> => k \in K
  BY <1>1
<1> HIDE DEF K
<1>4. K \in SUBSET Nat /\ IsFiniteSet(K)
  <2>1. IsFiniteSet(1 .. n)
    BY <1>2, FS_Interval
  <2>2. K \in SUBSET Nat
    BY <1>2, <1>3
  <2>3. IsFiniteSet(K)
    BY <1>3, <2>1, FS_Subset
  <2>4. QED
    BY <2>2, <2>3
<1>5. /\ M \in Nat /\ kept \in [1 .. M -> K] /\ Increasing(kept, M)
      /\ \A x \in K : \E k \in 1 .. M : kept[k] = x
  BY <1>4, SortedIs
<1>6. ne = [k \in DOMAIN kept |-> Chk!Lines(s)[kept[k]]]
  BY DEF Chk!NonEmpty, K
<1> HIDE DEF kept, M, ne
<1>7. DOMAIN kept = 1 .. M
  BY <1>5
<1>8. ne = [k \in 1 .. M |-> Chk!Lines(s)[kept[k]]]
  BY <1>6, <1>7
<1>9. ASSUME NEW k \in 1 .. M
      PROVE  kept[k] \in 1 .. n /\ IsLine(ne[k], s, e, kept[k]) /\ ne[k] \in Seq(S)
  <2>1. kept[k] \in 1 .. n
    BY <1>3, <1>5
  <2>2. ne[k] = SubSeq(s, e[kept[k]] + 1, e[kept[k] + 1] - 1)
    BY <1>1, <1>8, <2>1
  <2>3. IsLine(ne[k], s, e, kept[k])
    BY <2>2 DEF IsLine
  <2>4. QED
    BY <1>1, <2>1, <2>3, LineTokens
<1>10. ls = [k \in 1 .. M |-> Chk!Tokens(ne[k])]
  <2>1. DOMAIN ne = 1 .. M
    BY <1>8
  <2>2. ls = [k \in DOMAIN ne |-> Chk!Tokens(ne[k])]
    BY DEF TokensByLine, ne
  <2>3. QED
    BY <2>1, <2>2
<1> HIDE DEF ls
<1>11. ASSUME NEW k \in 1 .. M
       PROVE  /\ ls[k] = Chk!Tokens(ne[k]) /\ ls[k] \in Seq(Seq(S))
              /\ \A c \in DOMAIN ls[k] : /\ StartOf(ne[k], c) \in Starts(ne[k])
                                         /\ ls[k][c] = TokenFrom(ne[k], StartOf(ne[k], c))
              /\ \A c, d \in DOMAIN ls[k] : StartOf(ne[k], c) = StartOf(ne[k], d) => c = d
              /\ \A y \in Starts(ne[k]) : \E c \in DOMAIN ls[k] : StartOf(ne[k], c) = y
  <2>1. ls[k] = Chk!Tokens(ne[k])
    BY <1>10
  <2>2. ne[k] \in Seq(S)
    BY <1>9
  <2> DEFINE t == Chk!Tokens(ne[k])
             m == Cardinality(Starts(ne[k]))
  <2>3. /\ t \in Seq(Seq(S)) /\ DOMAIN t = 1 .. m
        /\ \A c \in 1 .. m : StartOf(ne[k], c) \in Starts(ne[k])
        /\ \A c, d \in 1 .. m : StartOf(ne[k], c) = StartOf(ne[k], d) => c = d
        /\ \A y \in Starts(ne[k]) : \E c \in 1 .. m : StartOf(ne[k], c) = y
        /\ \A c \in 1 .. m : t[c] = TokenFrom(ne[k], StartOf(ne[k], c))
    BY <2>2, TokensByStart
  <2>4. ls[k] = t
    BY <2>1
  <2> HIDE DEF t, m
  <2>5. QED
    BY <2>1, <2>3, <2>4
<1>12. ls \in Seq(Seq(Seq(S))) /\ DOMAIN ls = 1 .. M
  <2>1. ls \in [1 .. M -> Seq(Seq(S))]
    <3>1. ls = [k \in 1 .. M |-> ls[k]]
      BY <1>10
    <3>2. QED
      BY <1>11, <3>1
  <2>2. QED
    BY <1>5, <2>1
<1> DEFINE P == Pairs(ls)
           x(q) == e[kept[q[1]]] + StartOf(ne[q[1]], q[2])
           h == [q \in P |-> CHOOSE t \in DOMAIN Chk!Tokens(s) : StartOf(s, t) = x(q)]
<1>13. /\ \A t \in DOMAIN Chk!Tokens(s) : /\ StartOf(s, t) \in Starts(s)
                                          /\ Chk!Tokens(s)[t] = TokenFrom(s, StartOf(s, t))
       /\ \A t, r \in DOMAIN Chk!Tokens(s) : StartOf(s, t) = StartOf(s, r) => t = r
       /\ \A y \in Starts(s) : \E t \in DOMAIN Chk!Tokens(s) : StartOf(s, t) = y
  BY TokensByStart
<1>14. ASSUME NEW q \in P
       PROVE  q \in Nat \X Nat /\ q[1] \in 1 .. M /\ q[2] \in DOMAIN ls[q[1]]
  BY <1>12 DEF Pairs
<1>15. ASSUME NEW k \in 1 .. M, NEW y \in Starts(ne[k])
       PROVE  /\ y \in Nat /\ e[kept[k]] \in Nat
              /\ e[kept[k]] < e[kept[k]] + y /\ e[kept[k]] + y < e[kept[k] + 1]
              /\ e[kept[k]] + y \in Starts(s)
              /\ TokenFrom(ne[k], y) = TokenFrom(s, e[kept[k]] + y)
  <2>1. kept[k] \in 1 .. n /\ IsLine(ne[k], s, e, kept[k])
    BY <1>9
  <2>2. e[kept[k]] \in Nat
    BY <1>1, <2>1, LinesOrder
  <2>3. QED
    BY <1>1, <2>1, <2>2, LineTokens
<1>16. ASSUME NEW q \in P
       PROVE  /\ StartOf(ne[q[1]], q[2]) \in Starts(ne[q[1]]) /\ x(q) \in Starts(s) /\ x(q) \in Nat
              /\ e[kept[q[1]]] < x(q) /\ x(q) < e[kept[q[1]] + 1]
              /\ ls[q[1]][q[2]] = TokenFrom(s, x(q))
  <2>1. q[1] \in 1 .. M /\ q[2] \in DOMAIN ls[q[1]]
    BY <1>14
  <2>2. PICK k \in 1 .. M : k = q[1]
    BY <2>1
  <2>3. PICK y \in Starts(ne[k]) : y = StartOf(ne[k], q[2])
    BY <1>11, <2>1, <2>2
  <2>4. ls[k][q[2]] = TokenFrom(ne[k], y)
    BY <1>11, <2>1, <2>2, <2>3
  <2>5. x(q) = e[kept[k]] + y
    BY <2>2, <2>3
  <2>6. e[kept[k]] + y \in Nat
    <3>1. e[kept[k]] \in Nat /\ y \in Nat
      BY <1>15
    <3>2. QED
      BY <3>1
  <2>7. QED
    BY <1>15, <2>2, <2>3, <2>4, <2>5, <2>6
<1> HIDE DEF P
<1>17. ASSUME NEW q \in P
       PROVE  h[q] \in DOMAIN Chk!Tokens(s) /\ StartOf(s, h[q]) = x(q)
  <2>1. \E t \in DOMAIN Chk!Tokens(s) : StartOf(s, t) = x(q)
    BY <1>13, <1>16
  <2>2. h[q] = CHOOSE t \in DOMAIN Chk!Tokens(s) : StartOf(s, t) = x(q)
    OBVIOUS
  <2> HIDE DEF h, x
  <2>3. QED
    BY <2>1, <2>2
<1>18. h = [q \in P |-> h[q]]
  OBVIOUS
<1> HIDE DEF h
<1>19. ASSUME NEW q \in P PROVE Chk!Tokens(s)[h[q]] = ls[q[1]][q[2]]
  <2> HIDE DEF x
  <2>1. QED
    BY <1>13, <1>16, <1>17
<1>20. ASSUME NEW q \in P, NEW r \in P, h[q] = h[r] PROVE q = r
  <2>1. x(q) = x(r)
    BY <1>17, <1>20
  <2>2. PICK k \in 1 .. M, l \in 1 .. M : k = q[1] /\ l = r[1]
    BY <1>14
  <2>3. kept[k] = kept[l]
    <3>1. kept[k] \in 1 .. n /\ kept[l] \in 1 .. n
      BY <1>9
    <3>2. /\ x(q) \in Nat /\ e[kept[k]] < x(q) /\ x(q) < e[kept[k] + 1]
          /\ e[kept[l]] < x(q) /\ x(q) < e[kept[l] + 1]
      BY <1>16, <2>1, <2>2
    <3> HIDE DEF x
    <3>3. QED
      BY <1>1, <3>1, <3>2, InLine
  <2>4. k = l
    <3>1. kept[k] \in Nat /\ kept[l] \in Nat
      BY <1>4, <1>5
    <3>2. ~(k < l) /\ ~(l < k)
      BY <1>5, <2>3, <3>1 DEF Increasing
    <3>3. QED
      BY <1>5, <3>2
  <2>5. q[2] = r[2]
    <3>1. PICK y \in Nat, z \in Nat : y = StartOf(ne[k], q[2]) /\ z = StartOf(ne[k], r[2])
      BY <1>15, <1>16, <2>2, <2>4
    <3>2. e[kept[k]] + y = e[kept[k]] + z
      BY <2>1, <2>2, <2>4, <3>1
    <3>3. e[kept[k]] \in Nat
      BY <1>15, <1>16, <2>2
    <3>4. y = z
      BY <3>2, <3>3
    <3>5. q[2] \in DOMAIN ls[k] /\ r[2] \in DOMAIN ls[k]
      BY <1>14, <2>2, <2>4
    <3>6. \A c, d \in DOMAIN ls[k] : StartOf(ne[k], c) = StartOf(ne[k], d) => c = d
      BY <1>11
    <3>7. QED
      BY <3>1, <3>4, <3>5, <3>6
  <2>6. q = <<q[1], q[2]>> /\ r = <<r[1], r[2]>>
    BY <1>14
  <2>7. QED
    BY <2>2, <2>4, <2>5, <2>6
<1>21. ASSUME NEW t \in DOMAIN Chk!Tokens(s) PROVE \E q \in P : h[q] = t
  <2>1. PICK z \in Starts(s) : z = StartOf(s, t)
    BY <1>13
  <2>2. z \in 1 .. Len(s) /\ s[z] # "n"
    <3>1. DOMAIN s = 1 .. Len(s)
      OBVIOUS
    <3>2. QED
      BY <3>1 DEF Starts, Chk!White
  <2>3. PICK k \in 1 .. n : e[k] < z /\ z < e[k + 1]
    BY <1>1, <2>2, InLine
  <2>4. PICK l : l = SubSeq(s, e[k] + 1, e[k + 1] - 1)
    OBVIOUS
  <2>5. l \in Seq(S) /\ z - e[k] \in Starts(l)
    BY <1>1, <2>3, <2>4, LineTokens DEF IsLine
  <2>6. l # <<>>
    BY <2>5 DEF Starts
  <2>7. Chk!Lines(s)[k] = l
    BY <1>1, <2>4
  <2>8. k \in K
    BY <1>3, <2>6, <2>7
  <2>9. PICK m \in 1 .. M : kept[m] = k
    BY <1>5, <2>8
  <2>10. ne[m] = l
    BY <1>8, <2>7, <2>9
  <2>11. PICK c \in DOMAIN ls[m] : StartOf(ne[m], c) = z - e[k]
    BY <1>11, <2>5, <2>10
  <2>12. c \in Nat /\ m \in Nat
    BY <1>11
  <2> DEFINE q == <<m, c>>
  <2>13. q \in P /\ q[1] = m /\ q[2] = c
    BY <1>12, <2>12 DEF P, Pairs
  <2>14. x(q) = e[k] + (z - e[k])
    BY <2>9, <2>11, <2>13
  <2>15. e[k] \in Nat /\ z \in Nat
    BY <1>1, <2>2, LinesOrder
  <2>16. x(q) = z
    <3> HIDE DEF x, q
    <3>1. QED
      BY <2>14, <2>15
  <2>17. h[q] \in DOMAIN Chk!Tokens(s) /\ StartOf(s, h[q]) = StartOf(s, t)
    <3> HIDE DEF x, q
    <3>1. QED
      BY <1>17, <2>1, <2>13, <2>16
  <2>18. h[q] = t
    BY <1>13, <2>17
  <2>19. QED
    BY <2>13, <2>18
<1>22. h \in Bijection(P, DOMAIN Chk!Tokens(s))
  <2> HIDE DEF x
  <2>1. h \in [P -> DOMAIN Chk!Tokens(s)]
    BY <1>17, <1>18
  <2>2. QED
    BY <1>20, <1>21, <2>1 DEF Bijection, Injection, Surjection, IsInjective
<1>23. QED
  BY <1>12, <1>19, <1>22 DEF P, ls

\* Texts with the same lines of tokens, in some order, have the same tokens.
LEMMA LinesTokens ==
    ASSUME NEW S, NEW j \in Seq(S), NEW p \in Seq(S), Chk!SortedLines(j, p)
    PROVE  Chk!SortedTokens(j, p)
<1> DEFINE lj == TokensByLine(j)
           lp == TokensByLine(p)
<1>1. PICK hj \in Bijection(Pairs(lj), DOMAIN Chk!Tokens(j)) :
          \A q \in Pairs(lj) : Chk!Tokens(j)[hj[q]] = lj[q[1]][q[2]]
  BY TokensOfLines
<1>2. PICK hp \in Bijection(Pairs(lp), DOMAIN Chk!Tokens(p)) :
          \A q \in Pairs(lp) : Chk!Tokens(p)[hp[q]] = lp[q[1]][q[2]]
  BY TokensOfLines
<1>3. lj \in Seq(Seq(Seq(S))) /\ lp \in Seq(Seq(Seq(S)))
  BY TokensOfLines
<1>4. Chk!SameBag(lj, lp)
  BY DEF Chk!SortedLines, TokensByLine
<1> HIDE DEF lj, lp
<1>5. PICK g \in Bijection(DOMAIN lj, DOMAIN lp) : \A k \in DOMAIN lj : lp[g[k]] = lj[k]
  BY <1>3, <1>4, BagRearranged
<1>6. /\ g \in [DOMAIN lj -> DOMAIN lp] /\ DOMAIN lp \in SUBSET Nat /\ DOMAIN lj \in SUBSET Nat
      /\ \A k, l \in DOMAIN lj : g[k] = g[l] => k = l
      /\ \A k \in DOMAIN lp : \E l \in DOMAIN lj : g[l] = k
  BY <1>3, <1>5 DEF Bijection, Injection, Surjection, IsInjective
<1> DEFINE X == Pairs(lj)
           Y == Pairs(lp)
           f == [q \in X |-> <<g[q[1]], q[2]>>]
           v == [q \in X |-> hp[f[q]]]
<1>7. ASSUME NEW q \in X
      PROVE  /\ q \in Nat \X Nat /\ q[1] \in DOMAIN lj /\ f[q] = <<g[q[1]], q[2]>>
             /\ f[q] \in Y /\ lp[f[q][1]][f[q][2]] = lj[q[1]][q[2]]
  <2>1. q \in Nat \X Nat /\ q[1] \in DOMAIN lj /\ q[2] \in DOMAIN lj[q[1]] /\ q[2] \in Nat
    BY DEF Pairs
  <2>2. f[q] = <<g[q[1]], q[2]>>
    OBVIOUS
  <2>3. g[q[1]] \in DOMAIN lp /\ g[q[1]] \in Nat /\ lp[g[q[1]]] = lj[q[1]]
    BY <1>5, <1>6, <2>1
  <2>4. <<g[q[1]], q[2]>> \in Y
    BY <2>1, <2>3 DEF Pairs
  <2>5. QED
    BY <2>1, <2>2, <2>3, <2>4
<1>8. ASSUME NEW r \in Y PROVE \E q \in X : f[q] = r
  <2>1. r \in Nat \X Nat /\ r[1] \in DOMAIN lp /\ r[2] \in DOMAIN lp[r[1]] /\ r[2] \in Nat
    BY DEF Pairs
  <2>2. PICK l \in DOMAIN lj : g[l] = r[1]
    BY <1>6, <2>1
  <2>3. l \in Nat /\ lp[r[1]] = lj[l]
    BY <1>5, <1>6, <2>2
  <2>4. <<l, r[2]>> \in X
    BY <2>1, <2>3 DEF Pairs
  <2>5. f[<<l, r[2]>>] = <<g[l], r[2]>>
    BY <2>4
  <2>6. <<g[l], r[2]>> = r
    BY <2>1, <2>2
  <2>7. QED
    BY <2>4, <2>5, <2>6
<1>9. f \in [X -> Y]
  BY <1>7
<1> HIDE DEF X, Y, f
<1>10. ASSUME NEW q \in X, NEW r \in X, f[q] = f[r] PROVE q = r
  <2>1. g[q[1]] = g[r[1]] /\ q[2] = r[2]
    BY <1>7, <1>10
  <2>2. q[1] = r[1]
    BY <1>6, <1>7, <2>1
  <2>3. QED
    BY <1>7, <2>1, <2>2
<1>11. /\ hp \in [Y -> DOMAIN Chk!Tokens(p)]
       /\ \A q, r \in Y : hp[q] = hp[r] => q = r
       /\ \A t \in DOMAIN Chk!Tokens(p) : \E q \in Y : hp[q] = t
  BY <1>2 DEF Bijection, Injection, Surjection, IsInjective, Y
<1>12. v \in Bijection(X, DOMAIN Chk!Tokens(p))
  <2>1. v \in [X -> DOMAIN Chk!Tokens(p)]
    BY <1>9, <1>11
  <2>2. ASSUME NEW q \in X, NEW r \in X, v[q] = v[r] PROVE q = r
    BY <1>9, <1>10, <1>11, <2>2
  <2>3. ASSUME NEW t \in DOMAIN Chk!Tokens(p) PROVE \E q \in X : v[q] = t
    <3>1. PICK r \in Y : hp[r] = t
      BY <1>11
    <3>2. PICK q \in X : f[q] = r
      BY <1>8, <3>1
    <3>3. QED
      BY <3>1, <3>2
  <2> HIDE DEF v
  <2>4. QED
    BY <2>1, <2>2, <2>3 DEF Bijection, Injection, Surjection, IsInjective
<1>13. ASSUME NEW q \in X PROVE Chk!Tokens(j)[hj[q]] = Chk!Tokens(p)[v[q]]
  <2>1. Chk!Tokens(j)[hj[q]] = lj[q[1]][q[2]]
    BY <1>1 DEF X
  <2>2. Chk!Tokens(p)[hp[f[q]]] = lp[f[q][1]][f[q][2]]
    BY <1>2, <1>7 DEF Y
  <2>3. QED
    BY <1>7, <2>1, <2>2
<1>14. hj \in Bijection(X, DOMAIN Chk!Tokens(j))
  BY <1>1 DEF X
<1> HIDE DEF v
<1>15. Chk!Tokens(j) \in Seq(Seq(S)) /\ Chk!Tokens(p) \in Seq(Seq(S))
  BY TokensByStart
<1>16. QED
  BY <1>12, <1>13, <1>14, <1>15, ListedBag DEF Chk!SortedTokens

-------------------------------------------------------------------------------
(* What the checkers agree on.                                             *)

CheckTypes ==
    /\ judge \in Seq(Chk!Chars) /\ process \in Seq(Chk!Chars)
    /\ helper \in Chk!Helpers \cup {Chk!NoHelper}
    /\ floats \in Chk!Floats \cup {Chk!NoFloats}

LEMMA ToleranceIsWider ==
    ASSUME floats \in Chk!Floats \cup {Chk!NoFloats},
           Chk!Absolute(floats) \/ Chk!Relative(floats)
    PROVE  Chk!Tolerance(floats)
<1>1. CASE Chk!Absolute(floats)
  BY <1>1 DEF Chk!Absolute, Chk!Tolerance
<1>2. CASE Chk!Relative(floats)
  <2>1. floats.precision \in {0, 1}
    BY DEF Chk!Floats, Chk!NoFloats
  <2>2. floats.process \in SUBSET Int /\ floats.judge \in SUBSET Int
    BY DEF Chk!Floats, Chk!NoFloats, Chk!Float, Chk!Range10
  <2>3. PICK p \in floats.process, j \in floats.judge :
            LET ends == {j * (Chk!Inverse(floats) - 1), j * (Chk!Inverse(floats) + 1)}
            IN  \E low, high \in ends : low <= p * Chk!Inverse(floats) /\ p * Chk!Inverse(floats) <= high
    BY <1>2 DEF Chk!Relative
  <2>4. p \in Int /\ j \in Int
    BY <2>2
  <2>5. SUFFICES \/ Chk!Inverse(floats) * Chk!Distance(p, j) <= 10
                 \/ /\ Chk!Inverse(floats) * Chk!Distance(j, 0) >= 10
                    /\ Chk!Inverse(floats) * Chk!Distance(j, p) <= Chk!Distance(j, 0)
    BY DEF Chk!Tolerance
  <2>6. CASE floats.precision = 0
    <3>1. Chk!Inverse(floats) = 1
      BY <2>6 DEF Chk!Inverse
    <3>2. \E low, high \in {j * 0, j * 2} : low <= p * 1 /\ p * 1 <= high
      BY <2>3, <3>1
    <3>3. (0 <= p /\ p <= 2 * j) \/ (2 * j <= p /\ p <= 0)
      BY <2>4, <3>2
    <3>4. QED
      BY <2>4, <3>1, <3>3 DEF Chk!Distance
  <2>7. CASE floats.precision = 1
    <3>1. Chk!Inverse(floats) = 10
      BY <2>7 DEF Chk!Inverse
    <3>2. \E low, high \in {j * 9, j * 11} : low <= p * 10 /\ p * 10 <= high
      BY <2>3, <3>1
    <3>3. (9 * j <= 10 * p /\ 10 * p <= 11 * j) \/ (11 * j <= 10 * p /\ 10 * p <= 9 * j)
      BY <2>4, <3>2
    <3>4. QED
      BY <2>4, <3>1, <3>3 DEF Chk!Distance
  <2>8. QED
    BY <2>1, <2>6, <2>7
<1>3. QED
  BY <1>1, <1>2

\* The lines that are not empty, and how many of them agree.
LEMMA LinesCounted ==
    ASSUME NEW S, NEW s \in Seq(S)
    PROVE  Chk!NonEmpty(Chk!Lines(s)) \in Seq(Seq(S))
<1> DEFINE K == {k \in DOMAIN Chk!Lines(s) : Chk!Lines(s)[k] # <<>>}
           kept == Chk!Sorted(K)
           M == Cardinality(K)
<1>1. PICK n, e : /\ IsLines(s, n, e)
                  /\ Chk!Lines(s) = [k \in 1 .. n |-> SubSeq(s, e[k] + 1, e[k + 1] - 1)]
  BY LinesAre
<1>2. n \in Nat
  BY <1>1, LinesOrder
<1>3. K \in SUBSET (1 .. n)
  BY <1>1
<1> HIDE DEF K
<1>4. K \in SUBSET Nat /\ IsFiniteSet(K)
  <2>1. IsFiniteSet(1 .. n)
    BY <1>2, FS_Interval
  <2>2. K \in SUBSET Nat
    BY <1>2, <1>3
  <2>3. IsFiniteSet(K)
    BY <1>3, <2>1, FS_Subset
  <2>4. QED
    BY <2>2, <2>3
<1>5. M \in Nat /\ kept \in [1 .. M -> K]
  BY <1>4, SortedIs
<1>6. Chk!NonEmpty(Chk!Lines(s)) = [k \in DOMAIN kept |-> Chk!Lines(s)[kept[k]]]
  BY DEF Chk!NonEmpty, K
<1> HIDE DEF kept, M
<1>7. \A k \in 1 .. M : Chk!Lines(s)[kept[k]] \in Seq(S)
  <2> SUFFICES ASSUME NEW k \in 1 .. M PROVE Chk!Lines(s)[kept[k]] \in Seq(S)
    OBVIOUS
  <2>1. PICK m \in 1 .. n : m = kept[k]
    BY <1>3, <1>5
  <2>2. SubSeq(s, e[m] + 1, e[m + 1] - 1) \in Seq(S)
    BY <1>1, LineIs
  <2>3. QED
    BY <1>1, <2>1, <2>2
<1>8. Chk!NonEmpty(Chk!Lines(s)) = [k \in 1 .. M |-> Chk!Lines(s)[kept[k]]]
  BY <1>5, <1>6
<1>9. QED
  BY <1>5, <1>7, <1>8

LEMMA CountsAre ==
    ASSUME NEW T, NEW a \in Seq(T), NEW D, D \in SUBSET (DOMAIN a)
    PROVE  /\ Chk!Cardinality(D) \in Nat /\ Chk!Cardinality(D) <= Len(a)
           /\ Chk!Cardinality(D) > 0 <=> D # {}
<1>1. DOMAIN a = 1 .. Len(a) /\ Len(a) \in Nat
  OBVIOUS
<1>2. IsFiniteSet(1 .. Len(a)) /\ Cardinality(1 .. Len(a)) = Len(a)
  <2>1. \A N \in Nat : IsFiniteSet(1 .. N) /\ Cardinality(1 .. N) = N
    BY FS_Interval
  <2>2. QED
    BY <1>1, <2>1
<1>3. IsFiniteSet(D) /\ Cardinality(D) <= Len(a)
  BY <1>1, <1>2, FS_Subset
<1>4. Cardinality(D) \in Nat /\ (Cardinality(D) = 0 <=> D = {})
  BY <1>3, FS_CardinalityType, FS_EmptySet
<1>5. Chk!Cardinality(D) = Cardinality(D)
  BY CheckersCardinality
<1>6. QED
  BY <1>3, <1>4, <1>5

LEMMA LinesScored ==
    ASSUME NEW S, NEW j \in Seq(S), NEW p \in Seq(S)
    PROVE  /\ Chk!LineMatches(j, p).passed => Chk!LineCount(j, p).points > 0
           /\ \A r \in {Chk!LineCount(j, p), Chk!LineMatches(j, p)} :
                r.points <= r.of /\ (r.passed => r.points > 0)
<1> DEFINE jl == Chk!NonEmpty(Chk!Lines(j))
           pl == Chk!NonEmpty(Chk!Lines(p))
           A == {k \in DOMAIN pl : Chk!Strip(jl[k]) = Chk!Strip(pl[k])}
           B == {k \in DOMAIN pl : jl[k] = pl[k]}
           a == Chk!Cardinality(A)
           b == Chk!Cardinality(B)
<1>1. jl \in Seq(Seq(S)) /\ pl \in Seq(Seq(S))
  BY LinesCounted
<1>2. /\ Chk!LineCount(j, p) =
            IF Len(pl) > Len(jl) THEN Chk!NotPassed
            ELSE IF jl = <<>> THEN [passed |-> TRUE, points |-> 1, of |-> 1]
            ELSE [passed |-> a = Len(jl), points |-> a, of |-> Len(jl)]
      /\ Chk!LineMatches(j, p) =
            IF Len(pl) # Len(jl) THEN Chk!NotPassed
            ELSE [passed |-> b > 0, points |-> b, of |-> Len(jl)]
  BY DEF Chk!LineCount, Chk!LineMatches
<1> HIDE DEF jl, pl
<1>3. A \in SUBSET (DOMAIN pl) /\ B \in SUBSET (DOMAIN pl) /\ B \in SUBSET A
  OBVIOUS
<1> HIDE DEF A, B
<1>4. /\ a \in Nat /\ a <= Len(pl) /\ (a > 0 <=> A # {})
      /\ b \in Nat /\ b <= Len(pl) /\ (b > 0 <=> B # {})
  BY <1>1, <1>3, CountsAre
<1>5. Len(jl) \in Nat /\ Len(pl) \in Nat /\ (jl # <<>> => Len(jl) > 0)
  BY <1>1
<1> HIDE DEF a, b
<1>6. b > 0 => a > 0
  BY <1>3, <1>4
<1>7. ASSUME Chk!LineMatches(j, p).passed
       PROVE  Len(pl) = Len(jl) /\ b > 0 /\ jl # <<>>
  <2>1. CASE Len(pl) # Len(jl)
    <3>1. Chk!LineMatches(j, p) = Chk!NotPassed
      BY <1>2, <2>1
    <3>2. QED
      BY <1>7, <3>1 DEF Chk!NotPassed
  <2>2. CASE Len(pl) = Len(jl)
    <3>1. Chk!LineMatches(j, p) = [passed |-> b > 0, points |-> b, of |-> Len(jl)]
      BY <1>2, <2>2
    <3>2. Chk!LineMatches(j, p).passed = (b > 0)
      BY <3>1
    <3>3. b > 0
      BY <1>7, <3>2, Zenon
    <3>4. jl # <<>>
      BY <1>4, <2>2, <3>3
    <3>5. QED
      BY <2>2, <3>3, <3>4
  <2>3. QED
    BY <2>1, <2>2
<1>8. ASSUME Chk!LineMatches(j, p).passed PROVE Chk!LineCount(j, p).points > 0
  <2>1. Len(pl) = Len(jl) /\ b > 0 /\ jl # <<>>
    BY <1>8, <1>7
  <2>2. ~ (Len(pl) > Len(jl))
    BY <1>5, <2>1
  <2>3. Chk!LineCount(j, p) = [passed |-> a = Len(jl), points |-> a, of |-> Len(jl)]
    BY <1>2, <2>1, <2>2
  <2>4. Chk!LineCount(j, p).points = a
    BY <2>3
  <2>5. QED
    BY <1>6, <2>1, <2>4
<1>9. Chk!LineCount(j, p).points <= Chk!LineCount(j, p).of
  BY <1>2, <1>4, <1>5 DEF Chk!NotPassed
<1>10. ASSUME Chk!LineCount(j, p).passed PROVE Chk!LineCount(j, p).points > 0
  <2>1. CASE Len(pl) > Len(jl)
    <3>1. Chk!LineCount(j, p) = Chk!NotPassed
      BY <1>2, <2>1
    <3>2. QED
      BY <1>10, <3>1 DEF Chk!NotPassed
  <2>2. CASE ~ (Len(pl) > Len(jl)) /\ jl = <<>>
    <3>1. Chk!LineCount(j, p) = [passed |-> TRUE, points |-> 1, of |-> 1]
      BY <1>2, <2>2
    <3>2. QED
      BY <3>1
  <2>3. CASE ~ (Len(pl) > Len(jl)) /\ jl # <<>>
    <3>1. Chk!LineCount(j, p) = [passed |-> a = Len(jl), points |-> a, of |-> Len(jl)]
      BY <1>2, <2>3
    <3>2. Chk!LineCount(j, p).passed = (a = Len(jl))
      BY <3>1
    <3>3. a = Len(jl)
      BY <1>10, <3>2, Zenon
    <3>4. Chk!LineCount(j, p).points = a
      BY <3>1
    <3>5. QED
      BY <1>5, <2>3, <3>3, <3>4
  <2>4. QED
    BY <2>1, <2>2, <2>3
<1>11. Chk!LineMatches(j, p).points <= Chk!LineMatches(j, p).of
  BY <1>2, <1>4, <1>5 DEF Chk!NotPassed
<1>12. ASSUME Chk!LineMatches(j, p).passed PROVE Chk!LineMatches(j, p).points > 0
  <2>1. Len(pl) = Len(jl) /\ b > 0
    BY <1>12, <1>7
  <2>2. Chk!LineMatches(j, p) = [passed |-> b > 0, points |-> b, of |-> Len(jl)]
    BY <1>2, <2>1
  <2>3. Chk!LineMatches(j, p).points = b
    BY <2>2
  <2>4. QED
    BY <2>1, <2>3
<1>13. QED
  BY <1>8, <1>9, <1>10, <1>11, <1>12

LEMMA HelpersScored ==
    ASSUME helper \in Chk!Helpers
    PROVE  /\ Chk!Default(helper).points <= helper.value
           /\ Chk!Testlib(helper).points <= helper.value
           /\ Chk!Coci(helper).points <= helper.value * (IF helper.code = 7 THEN helper.whole ELSE 1)
<1>1. /\ helper.code \in 0 .. 8 /\ helper.part \in Int /\ helper.part <= Value + 1
      /\ helper.whole \in Nat /\ helper.value \in Nat
  BY ValueAssumption DEF Chk!Helpers
<1>2. Chk!Default(helper).points <= helper.value
  <2>1. CASE helper.code = 0
    BY <1>1, <2>1 DEF Chk!Default, Chk!Verdict
  <2>2. CASE helper.code = 1
    BY <1>1, <2>2 DEF Chk!Default, Chk!Verdict
  <2>3. CASE helper.code \notin {0, 1}
    <3>1. Chk!Default(helper) = Chk!HelperError
      BY <2>3 DEF Chk!Default
    <3>2. QED
      BY <1>1, <3>1 DEF Chk!HelperError, Chk!InternalError
  <2>4. QED
    BY <2>1, <2>2, <2>3
<1>3. Chk!Testlib(helper).points <= helper.value
  <2>1. CASE helper.code \in {0, 1}
    <3>1. helper.code # 2 /\ helper.code # 7
      BY <2>1
    <3>2. Chk!Testlib(helper) = Chk!Default(helper)
      BY <2>1, <3>1 DEF Chk!Testlib
    <3>3. QED
      BY <1>2, <3>2
  <2>2. CASE helper.code = 7
    <3>1. Chk!Testlib(helper) = IF helper.part \in 0 .. helper.value
                                THEN Chk!Verdict(TRUE, helper.part) ELSE Chk!InternalError
      BY <2>2 DEF Chk!Testlib
    <3>2. QED
      BY <1>1, <3>1 DEF Chk!Verdict, Chk!InternalError
  <2>3. CASE helper.code = 2
    <3>1. Chk!Testlib(helper) = Chk!Verdict(FALSE, 0)
      BY <2>3 DEF Chk!Testlib
    <3>2. QED
      BY <1>1, <3>1 DEF Chk!Verdict
  <2>4. CASE helper.code \notin {0, 1, 2, 7}
    <3>1. Chk!Testlib(helper) = Chk!HelperError
      BY <2>4 DEF Chk!Testlib
    <3>2. QED
      BY <1>1, <3>1 DEF Chk!HelperError, Chk!InternalError
  <2>5. QED
    BY <2>1, <2>2, <2>3, <2>4
<1>4. Chk!Coci(helper).points <= helper.value * (IF helper.code = 7 THEN helper.whole ELSE 1)
  <2>1. CASE helper.code # 7
    <3>1. Chk!Coci(helper) = Chk!Testlib(helper)
      BY <2>1 DEF Chk!Coci
    <3>2. helper.value * 1 = helper.value
      BY <1>1
    <3>3. QED
      BY <1>3, <2>1, <3>1, <3>2
  <2>2. CASE helper.code = 7
    <3>1. \A x, y, z \in Nat : x <= y => x * z <= z * y
      OBVIOUS
    <3>2. helper.value * helper.whole \in Nat
      BY <1>1
    <3>3. CASE helper.part \in 0 .. helper.whole
      <4>1. Chk!Coci(helper).points = helper.part * helper.value
        BY <2>2, <3>3 DEF Chk!Coci, Chk!Verdict
      <4>2. helper.part \in Nat /\ helper.part <= helper.whole
        BY <1>1, <3>3
      <4>3. helper.part * helper.value <= helper.value * helper.whole
        BY <1>1, <3>1, <4>2
      <4>4. QED
        BY <2>2, <4>1, <4>3
    <3>4. CASE helper.part \notin 0 .. helper.whole
      <4>1. Chk!Coci(helper).points = -1
        BY <2>2, <3>4 DEF Chk!Coci, Chk!InternalError
      <4>2. QED
        BY <2>2, <3>2, <4>1
    <3>5. QED
      BY <3>3, <3>4
  <2>3. QED
    BY <2>1, <2>2
<1>5. QED
  BY <1>2, <1>3, <1>4

\* Every write keeps the texts texts.
LEMMA CheckTyped == Chk!Init /\ [][Chk!Write]_checkVars => []CheckTypes
<1>1. Chk!Init => CheckTypes
  BY DEF Chk!Init, CheckTypes
<1>2. CheckTypes /\ [Chk!Write]_checkVars => CheckTypes'
  <2> SUFFICES ASSUME CheckTypes, [Chk!Write]_checkVars PROVE CheckTypes'
    OBVIOUS
  <2>1. CASE Chk!Write
    <3>1. helper' = helper /\ floats' = floats
      BY <2>1 DEF Chk!Write
    <3>2. judge' \in Seq(Chk!Chars) /\ process' \in Seq(Chk!Chars)
      <4>1. judge \in Seq(Chk!Chars) /\ process \in Seq(Chk!Chars)
        BY DEF CheckTypes
      <4>2. judge' = judge \/ \E c \in Chk!Chars : judge' = Append(judge, c)
        BY <2>1 DEF Chk!Write
      <4>3. process' = process \/ \E c \in Chk!Chars : process' = Append(process, c)
        BY <2>1 DEF Chk!Write
      <4>4. \A s \in Seq(Chk!Chars), c \in Chk!Chars : Append(s, c) \in Seq(Chk!Chars)
        OBVIOUS
      <4>5. QED
        BY <4>1, <4>2, <4>3, <4>4, Zenon
    <3>3. QED
      BY <3>1, <3>2 DEF CheckTypes
  <2>2. CASE UNCHANGED checkVars
    BY <2>2 DEF checkVars, CheckTypes
  <2>3. QED
    BY <2>1, <2>2
<1>3. QED
  BY <1>1, <1>2, PTL

\* The checkers agree with what they are documented to compare, with one another,
\* and with the value of the case, for any two texts, however long.
THEOREM CheckersAlwaysSound == Chk!Init /\ [][Chk!Write]_checkVars => []CheckersSound
<1>1. CheckTypes => CheckersSound
  <2> SUFFICES ASSUME CheckTypes PROVE Chk!CheckersSound
    BY DEF CheckersSound
  <2>1. judge \in Seq(Chk!Chars) /\ process \in Seq(Chk!Chars)
    BY DEF CheckTypes
  <2>2. Chk!StandardIsTokens
    <3>1. Chk!Standard(judge, process) <=>
              Chk!Tokens(judge) = Chk!Tokens(process) /\ NewLines(judge) = NewLines(process)
      BY <2>1, StandardTokens
    <3>2. QED
      BY <3>1 DEF Chk!StandardIsTokens, NewLines, Starts
  <2>3. Chk!StricterAcceptsLess
    <3>1. Chk!Identical(judge, process) => Chk!RStripped(judge, process)
      BY DEF Chk!Identical, Chk!RStripped
    <3>2. Chk!RStripped(judge, process) => Chk!Standard(judge, process)
      BY <2>1, StrippedStandard
    <3>3. Chk!Standard(judge, process) => Chk!SortedTokens(judge, process)
      <4>1. Chk!Standard(judge, process) => Chk!Tokens(judge) = Chk!Tokens(process)
        BY <2>1, StandardTokens
      <4>2. \A f : Chk!SameBag(f, f)
        BY DEF Chk!SameBag
      <4>3. QED
        BY <4>1, <4>2 DEF Chk!SortedTokens
    <3>4. Chk!SortedLines(judge, process) => Chk!SortedTokens(judge, process)
      BY <2>1, LinesTokens
    <3>5. Chk!LineMatches(judge, process).passed => Chk!LineCount(judge, process).points > 0
      BY <2>1, LinesScored
    <3>6. Chk!Absolute(floats) \/ Chk!Relative(floats) => Chk!Tolerance(floats)
      BY ToleranceIsWider DEF CheckTypes
    <3>7. QED
      BY <3>1, <3>2, <3>3, <3>4, <3>5, <3>6 DEF Chk!StricterAcceptsLess
  <2>4. Chk!PointsWithinValue
    <3>1. \A r \in {Chk!LineCount(judge, process), Chk!LineMatches(judge, process)} :
             r.points <= r.of /\ (r.passed => r.points > 0)
      BY <2>1, LinesScored
    <3>2. helper # Chk!NoHelper => helper \in Chk!Helpers
      BY DEF CheckTypes
    <3>3. QED
      BY <3>1, <3>2, HelpersScored DEF Chk!PointsWithinValue
  <2>5. QED
    BY <2>2, <2>3, <2>4 DEF Chk!CheckersSound
<1>2. QED
  BY <1>1, CheckTyped, PTL
===============================================================================
