----------------------- MODULE SanctionsOracle_proofs -----------------------
(***************************************************************************)
(* The sanctions tree and the circuit that reads from it, for lists of     *)
(* every length, and the server around the tree, for any number of         *)
(* refreshes.                                                              *)
(***************************************************************************)
EXTENDS SanctionsOracle, NatLemmas
-----------------------------------------------------------------------------
\* Powers of two.
IsPow2(f, n) == f = [i \in 0 .. n |-> IF i = 0 THEN 1 ELSE 2 * f[i - 1]]

LEMMA Pow2Exists == \A n \in Nat : \E f : IsPow2(f, n)
<1> DEFINE T == {k \in Nat : \E f : IsPow2(f, k)}
<1>1. 0 \in T
  <2>1. IsPow2([i \in 0 .. 0 |-> 1], 0)
    BY DEF IsPow2
  <2> QED BY <2>1
<1>2. ASSUME NEW k \in T PROVE k + 1 \in T
  <2>1. PICK g : IsPow2(g, k)
    OBVIOUS
  <2> DEFINE f == [i \in 0 .. k + 1 |-> IF i = k + 1 THEN 2 * g[k] ELSE g[i]]
  <2>2. k \in Nat /\ k \in 0 .. k
    OBVIOUS
  <2>3. f[k + 1] = 2 * g[k] /\ \A i \in 0 .. k : f[i] = g[i]
    BY <2>2
  <2>4. \A i \in 0 .. k : g[i] = IF i = 0 THEN 1 ELSE 2 * g[i - 1]
    BY <2>1 DEF IsPow2
  <2>5. f = [i \in 0 .. k + 1 |-> f[i]]
    OBVIOUS
  <2> HIDE DEF f
  <2>6. ASSUME NEW i \in 0 .. k + 1 PROVE f[i] = IF i = 0 THEN 1 ELSE 2 * f[i - 1]
    <3>1. CASE i = k + 1
      <4>1. i # 0 /\ i - 1 = k
        BY <3>1, <2>2
      <4> QED BY <4>1, <3>1, <2>2, <2>3
    <3>2. CASE i \in 0 .. k
      <4>1. i # 0 => i - 1 \in 0 .. k
        BY <3>2, <2>2
      <4> QED BY <4>1, <3>2, <2>3, <2>4
    <3> QED BY <3>1, <3>2, <2>2
  <2>7. IsPow2(f, k + 1)
    BY <2>5, <2>6 DEF IsPow2
  <2> QED BY <2>2, <2>7
<1> HIDE DEF T
<1>3. \A n \in Nat : n \in T
  BY <1>1, <1>2, SetInduction DEF T
<1> QED BY <1>3 DEF T

LEMMA Pow2Def ==
    /\ pow2[0] = 1
    /\ \A n \in Nat : pow2[n + 1] = 2 * pow2[n] /\ pow2[n] \in Nat \ {0} /\ pow2[n] > n
<1> DEFINE part(n) == CHOOSE f : IsPow2(f, n)
           F == [n \in Nat |-> part(n)[n]]
<1>1. \A n \in Nat : IsPow2(part(n), n)
  BY Pow2Exists
<1> HIDE DEF part
<1>2. \A n \in Nat : \A i \in 0 .. n : part(n)[i] = IF i = 0 THEN 1 ELSE 2 * part(n)[i - 1]
  BY <1>1 DEF IsPow2
<1>3. \A n \in Nat : \A i \in 0 .. n : part(n + 1)[i] = part(n)[i]
  <2> TAKE n \in Nat
  <2> DEFINE T == {i \in Nat : i <= n => part(n + 1)[i] = part(n)[i]}
  <2>1. 0 \in T
    BY <1>2
  <2>2. ASSUME NEW i \in T PROVE i + 1 \in T
    <3> SUFFICES ASSUME i + 1 <= n PROVE part(n + 1)[i + 1] = part(n)[i + 1]
      OBVIOUS
    <3>1. i \in Nat /\ i <= n /\ i + 1 \in 0 .. n /\ i + 1 \in 0 .. n + 1 /\ i + 1 # 0 /\ (i + 1) - 1 = i
      OBVIOUS
    <3>2. part(n + 1)[i] = part(n)[i]
      BY <3>1
    <3>3. part(n)[i + 1] = 2 * part(n)[i] /\ part(n + 1)[i + 1] = 2 * part(n + 1)[i]
      BY <1>2, <3>1
    <3> QED BY <3>2, <3>3
  <2> HIDE DEF T
  <2>3. \A i \in Nat : i \in T
    BY <2>1, <2>2, SetInduction DEF T
  <2> QED BY <2>3 DEF T
<1>4. F[0] = 1 /\ \A n \in Nat : F[n + 1] = 2 * F[n]
  <2>1. F[0] = 1
    BY <1>2
  <2>2. ASSUME NEW n \in Nat PROVE F[n + 1] = 2 * F[n]
    <3>1. part(n + 1)[n + 1] = 2 * part(n + 1)[n]
      BY <1>2
    <3>2. part(n + 1)[n] = part(n)[n]
      BY <1>3
    <3> QED BY <3>1, <3>2
  <2> QED BY <2>1, <2>2
<1>5. F = [n \in Nat |-> IF n = 0 THEN 1 ELSE 2 * F[n - 1]]
  <2>1. F = [n \in Nat |-> F[n]]
    OBVIOUS
  <2> HIDE DEF F
  <2>2. ASSUME NEW n \in Nat PROVE F[n] = IF n = 0 THEN 1 ELSE 2 * F[n - 1]
    <3>1. n # 0 => n - 1 \in Nat /\ (n - 1) + 1 = n
      OBVIOUS
    <3> QED BY <1>4, <3>1
  <2> QED BY <2>1, <2>2
<1> HIDE DEF F
<1>6. pow2 = [n \in Nat |-> IF n = 0 THEN 1 ELSE 2 * pow2[n - 1]]
  BY <1>5 DEF pow2
<1>7. pow2[0] = 1 /\ \A n \in Nat : pow2[n + 1] = 2 * pow2[n]
  <2>1. \A n \in Nat : pow2[n] = IF n = 0 THEN 1 ELSE 2 * pow2[n - 1]
    BY <1>6
  <2>2. \A n \in Nat : n + 1 \in Nat /\ n + 1 # 0 /\ (n + 1) - 1 = n
    OBVIOUS
  <2> QED BY <2>1, <2>2
<1> DEFINE T == {n \in Nat : pow2[n] \in Nat \ {0} /\ pow2[n] > n}
<1>8. 0 \in T /\ \A n \in T : n + 1 \in T
  BY <1>7
<1> HIDE DEF T
<1>9. \A n \in Nat : n \in T
  BY <1>8, SetInduction DEF T
<1> QED BY <1>7, <1>9 DEF T

LEMMA Pow2Grows ==
    ASSUME NEW m \in Nat, NEW n \in Nat, m < n
    PROVE  pow2[m] < pow2[n]
<1> DEFINE T == {k \in Nat : pow2[m] < pow2[m + 1 + k]}
<1>1. 0 \in T
  <2>1. pow2[m + 1] = 2 * pow2[m] /\ pow2[m] \in Nat \ {0}
    BY Pow2Def
  <2> QED BY <2>1
<1>2. ASSUME NEW k \in T PROVE k + 1 \in T
  <2>1. m + 1 + k \in Nat /\ m + 1 + (k + 1) = (m + 1 + k) + 1
    OBVIOUS
  <2>2. pow2[(m + 1 + k) + 1] = 2 * pow2[m + 1 + k] /\ pow2[m + 1 + k] \in Nat \ {0} /\ pow2[m] \in Nat \ {0}
    BY <2>1, Pow2Def
  <2> QED BY <2>1, <2>2
<1> HIDE DEF T
<1>3. \A k \in Nat : k \in T
  BY <1>1, <1>2, SetInduction DEF T
<1>4. n - m - 1 \in Nat /\ m + 1 + (n - m - 1) = n
  OBVIOUS
<1>5. \A k \in Nat : pow2[m] < pow2[m + 1 + k]
  BY <1>3 DEF T
<1> QED BY <1>4, <1>5

\* The power of two that is reached from n, and its exponent.
LEMMA NextPower ==
    ASSUME NEW n \in Nat \ {0}
    PROVE  \E d \in Nat : next_power_of_two(n) = pow2[d] /\ n <= pow2[d] /\ pow2[d] < 2 * n
<1> DEFINE P(k) == pow2[k] >= n /\ \A j \in 0 .. k - 1 : pow2[j] < n
           S == {k \in Nat : pow2[k] >= n}
<1>1. n \in S
  <2>1. n \in Nat /\ pow2[n] \in Nat /\ pow2[n] > n
    BY Pow2Def
  <2> QED BY <2>1
<1>2. PICK k \in S : \A j \in S : k <= j
  BY <1>1, LeastElement
<1>3. k \in 0 .. n /\ P(k)
  <2>1. k \in Nat /\ k <= n /\ pow2[k] >= n
    BY <1>1, <1>2
  <2>2. ASSUME NEW j \in 0 .. k - 1 PROVE pow2[j] < n
    <3>1. j \in Nat /\ ~ (k <= j)
      BY <2>1
    <3>2. ~ (pow2[j] >= n) /\ pow2[j] \in Nat
      BY <1>2, <3>1, Pow2Def
    <3> QED BY <3>2
  <2> QED BY <2>1, <2>2
<1> DEFINE d == CHOOSE m \in 0 .. n : P(m)
<1>4. next_power_of_two(n) = pow2[d]
  BY DEF next_power_of_two
<1> HIDE DEF P
<1>5. d \in 0 .. n /\ P(d)
  BY <1>3
<1> HIDE DEF d
<1>6. pow2[d] < 2 * n
  <2>1. CASE d = 0
    BY <2>1, Pow2Def
  <2>2. CASE d # 0
    <3>1. d - 1 \in Nat /\ d - 1 \in 0 .. d - 1 /\ (d - 1) + 1 = d
      BY <1>5, <2>2
    <3>2. pow2[d] = 2 * pow2[d - 1] /\ pow2[d - 1] \in Nat /\ pow2[d - 1] < n
      BY <1>5, <3>1, Pow2Def DEF P
    <3> QED BY <3>2
  <2> QED BY <2>1, <2>2
<1>7. d \in Nat /\ n <= pow2[d]
  <2>1. d \in Nat /\ pow2[d] \in Nat /\ pow2[d] >= n
    BY <1>5, Pow2Def DEF P
  <2> QED BY <2>1
<1> QED BY <1>4, <1>6, <1>7

LEMMA TreeDepth ==
    ASSUME NEW d \in Nat
    PROVE  tree_depth(pow2[d]) = d
<1> DEFINE size == pow2[d]
           P(k) == pow2[k] = size
<1>1. size \in Nat /\ d \in 0 .. size /\ P(d)
  <2>1. pow2[d] \in Nat /\ pow2[d] > d
    BY Pow2Def
  <2> QED BY <2>1
<1>2. ASSUME NEW k \in 0 .. size, P(k) PROVE k = d
  <2>1. k \in Nat /\ pow2[k] = pow2[d] /\ pow2[d] \in Nat
    BY <1>1, <1>2, Pow2Def
  <2>2. ~ (k < d) /\ ~ (d < k)
    BY <2>1, Pow2Grows
  <2> QED BY <2>1, <2>2
<1>3. tree_depth(size) = CHOOSE k \in 0 .. size : P(k)
  BY DEF tree_depth
<1> HIDE DEF size, P
<1>4. (CHOOSE k \in 0 .. size : P(k)) = d
  BY <1>1, <1>2
<1> QED BY <1>3, <1>4 DEF size
-----------------------------------------------------------------------------
\* The places of the members of a finite set of numbers.
Below(S, x) == {y \in S : y < x}

LEMMA RankExists ==
    ASSUME NEW S \in SUBSET Nat, IsFiniteSet(S)
    PROVE  \A m \in 0 .. Cardinality(S) - 1 : \E x \in S : Cardinality(Below(S, x)) = m
<1> DEFINE n == Cardinality(S)
           T == {m \in Nat : m < n => \E x \in S : Cardinality(Below(S, x)) = m}
<1>1. n \in Nat
  BY FS_CardinalityType
<1>2. 0 \in T
  <2> SUFFICES ASSUME 0 < n PROVE \E x \in S : Cardinality(Below(S, x)) = 0
    BY DEF Below
  <2>1. S # {}
    BY FS_EmptySet
  <2>2. PICK x \in S : \A y \in S : x <= y
    BY <2>1, LeastElement
  <2>3. Below(S, x) = {}
    <3>1. \A y \in S : x \in Nat /\ y \in Nat /\ x <= y
      BY <2>2
    <3>2. \A y \in S : ~ (y < x)
      BY <3>1
    <3> QED BY <3>2 DEF Below
  <2> QED BY <2>3, FS_EmptySet
<1>3. ASSUME NEW m \in T PROVE m + 1 \in T
  <2> SUFFICES ASSUME m + 1 < n PROVE \E x \in S : Cardinality(Below(S, x)) = m + 1
    OBVIOUS
  <2>1. PICK x \in S : Cardinality(Below(S, x)) = m
    BY <1>1
  <2>2. Below(S, x) \in SUBSET S /\ IsFiniteSet(Below(S, x)) /\ x \notin Below(S, x) /\ x \in Nat
    <3>1. Below(S, x) \in SUBSET S
      BY DEF Below
    <3>2. IsFiniteSet(Below(S, x))
      BY <3>1, FS_Subset
    <3>3. x \notin Below(S, x) /\ x \in Nat
      BY DEF Below
    <3> QED BY <3>1, <3>2, <3>3
  <2> DEFINE upto == Below(S, x) \cup {x}
             rest == S \ upto
  <2>3. IsFiniteSet(upto) /\ Cardinality(upto) = m + 1
    BY <2>1, <2>2, FS_AddElement
  <2>4. rest # {}
    <3> SUFFICES ASSUME S \subseteq upto PROVE FALSE
      OBVIOUS
    <3>1. S = upto
      BY <2>2
    <3> HIDE DEF upto
    <3>2. n = m + 1
      BY <2>3, <3>1
    <3> QED BY <1>1, <3>2
  <2>5. PICK z \in rest : \A y \in rest : z <= y
    <3>1. rest \in SUBSET Nat
      OBVIOUS
    <3> HIDE DEF rest
    <3> QED BY <2>4, <3>1, LeastElement
  <2>6. Below(S, z) = upto
    <3>1. ASSUME NEW y \in S, y < z PROVE y \in upto
      BY <2>5, <3>1
    <3>2. ASSUME NEW y \in upto PROVE y \in S /\ y < z
      <4>1. y \in S /\ y <= x /\ y \in Nat
        BY <3>2, <2>2 DEF Below
      <4>2. z \in S /\ z \in Nat /\ ~ (z < x) /\ z # x
        BY <2>5 DEF Below
      <4> QED BY <4>1, <4>2, <2>2
    <3> QED BY <3>1, <3>2 DEF Below
  <2> QED BY <2>3, <2>5, <2>6
<1> HIDE DEF T, n
<1>4. \A m \in Nat : m \in T
  BY <1>2, <1>3, SetInduction DEF T
<1> QED BY <1>1, <1>4 DEF T, n

LEMMA RankGrows ==
    ASSUME NEW S \in SUBSET Nat, IsFiniteSet(S), NEW x \in S, NEW y \in S, x < y
    PROVE  /\ Cardinality(Below(S, x)) \in Nat /\ Cardinality(Below(S, y)) \in Nat
           /\ Cardinality(Below(S, x)) < Cardinality(Below(S, y))
           /\ Cardinality(Below(S, y)) < Cardinality(S)
<1>1. Below(S, y) \in SUBSET S /\ y \notin Below(S, y) /\ x \in Below(S, y)
  BY DEF Below
<1>2. IsFiniteSet(Below(S, y)) /\ Cardinality(Below(S, y)) <= Cardinality(S) /\ Cardinality(Below(S, y)) # Cardinality(S)
  BY <1>1, FS_Subset
<1>3. Below(S, x) \in SUBSET Below(S, y) /\ x \notin Below(S, x)
  <2>1. \A z \in S : z < x => z < y
    OBVIOUS
  <2>2. ~ (x < x)
    OBVIOUS
  <2>3. \A z : z \in Below(S, x) => z \in Below(S, y)
    BY <2>1, Zenon DEF Below
  <2>4. x \notin Below(S, x)
    BY <2>2, Zenon DEF Below
  <2> QED BY <2>3, <2>4, Zenon
<1>4. /\ IsFiniteSet(Below(S, x)) /\ Cardinality(Below(S, x)) <= Cardinality(Below(S, y))
      /\ Cardinality(Below(S, x)) # Cardinality(Below(S, y))
  BY <1>1, <1>2, <1>3, FS_Subset
<1>5. Cardinality(Below(S, x)) \in Nat /\ Cardinality(Below(S, y)) \in Nat /\ Cardinality(S) \in Nat
  BY <1>2, <1>4, FS_CardinalityType
<1> QED BY <1>2, <1>4, <1>5

\* ascending lists the members of the set, each once, in order.
LEMMA Ascending ==
    ASSUME NEW S \in SUBSET Nat, IsFiniteSet(S)
    PROVE  LET a == ascending(S) IN
           /\ Len(a) = Cardinality(S) /\ Cardinality(S) \in Nat /\ DOMAIN a = 1 .. Cardinality(S)
           /\ \A i \in 1 .. Cardinality(S) : a[i] \in S
           /\ \A i, j \in 1 .. Cardinality(S) : i < j => a[i] < a[j]
           /\ \A x \in S : \E i \in 1 .. Cardinality(S) : a[i] = x
<1> DEFINE n == Cardinality(S)
           a == ascending(S)
           Nth(i, x) == Cardinality(Below(S, x)) = i - 1
<1>1. n \in Nat
  BY FS_CardinalityType
<1>2. a = [i \in 1 .. n |-> CHOOSE x \in S : Nth(i, x)]
  BY DEF ascending, Below
<1>3. Len(a) = n /\ DOMAIN a = 1 .. n
  <2> HIDE DEF Nth
  <2> QED BY <1>1, <1>2
<1>4. \A i \in 1 .. n : a[i] \in S /\ Nth(i, a[i])
  <2> TAKE i \in 1 .. n
  <2>1. i - 1 \in 0 .. n - 1
    BY <1>1
  <2>2. \E x \in S : Nth(i, x)
    BY <2>1, RankExists
  <2>3. a[i] = CHOOSE x \in S : Nth(i, x)
    BY <1>2
  <2> HIDE DEF Nth, a
  <2> QED BY <2>2, <2>3
<1> HIDE DEF a
<1>5. ASSUME NEW i \in 1 .. n, NEW j \in 1 .. n, i < j PROVE a[i] < a[j]
  <2>1. a[i] \in S /\ a[j] \in S /\ a[i] \in Nat /\ a[j] \in Nat
    BY <1>4
  <2>2. a[i] # a[j]
    BY <1>4, <1>5, <1>1
  <2>3. ~ (a[j] < a[i])
    <3> SUFFICES ASSUME a[j] < a[i] PROVE FALSE
      OBVIOUS
    <3>1. Cardinality(Below(S, a[j])) < Cardinality(Below(S, a[i]))
      BY <2>1, RankGrows
    <3> QED BY <1>1, <1>4, <1>5, <3>1
  <2> QED BY <2>1, <2>2, <2>3
<1>6. ASSUME NEW x \in S PROVE \E i \in 1 .. n : a[i] = x
  <2>1. Below(S, x) \in SUBSET S /\ x \notin Below(S, x)
    BY DEF Below
  <2> DEFINE m == Cardinality(Below(S, x))
  <2>2. m \in Nat /\ m < n
    <3>1. IsFiniteSet(Below(S, x)) /\ m <= n /\ m # n
      BY <2>1, FS_Subset
    <3>2. m \in Nat
      BY <3>1, FS_CardinalityType
    <3> QED BY <1>1, <3>1, <3>2
  <2> HIDE DEF n
  <2>3. m + 1 \in 1 .. n
    BY <1>1, <2>2
  <2>4. a[m + 1] \in S /\ Cardinality(Below(S, a[m + 1])) = m
    BY <1>4, <2>2, <2>3
  <2>5. ~ (a[m + 1] < x) /\ ~ (x < a[m + 1])
    <3> HIDE DEF n
    <3>1. a[m + 1] < x => Cardinality(Below(S, a[m + 1])) < m
      BY <2>4, RankGrows
    <3>2. x < a[m + 1] => m < Cardinality(Below(S, a[m + 1]))
      BY <2>4, RankGrows
    <3> HIDE DEF m
    <3> QED BY <2>2, <2>4, <3>1, <3>2
  <2>6. a[m + 1] \in Nat /\ x \in Nat
    BY <2>4
  <2> QED BY <2>3, <2>5, <2>6
<1> QED BY <1>1, <1>3, <1>4, <1>5, <1>6 DEF a
-----------------------------------------------------------------------------
\* The leaves of the tree: the keys in order, and the upper sentinel after them.
Leaves(f, d, K) ==
    /\ d \in Nat \ {0}
    /\ f = [i \in 0 .. pow2[d] - 1 |-> f[i]]
    /\ \A i \in 0 .. pow2[d] - 1 : f[i] \in K
    /\ \A x \in K : \E i \in 0 .. pow2[d] - 1 : f[i] = x
    /\ \A i, j \in 0 .. pow2[d] - 1 : i < j => f[i] <= f[j]
    /\ f[0] = 0 /\ f[pow2[d] - 1] = MAX_KEY

LEMMA Keys ==
    ASSUME NEW list \in Seq(Addresses)
    PROVE  LET K == keys_of(list) IN
           /\ K \in SUBSET (0 .. MAX_KEY) /\ IsFiniteSet(K)
           /\ 0 \in K /\ MAX_KEY \in K
           /\ Cardinality(K) \in Nat \ {0, 1}
           /\ Cardinality(K) <= Len(list) + 2
<1> DEFINE K == keys_of(list)
           n == Len(list)
<1>1. n \in Nat /\ \A i \in 1 .. n : list[i] \in Addresses
  OBVIOUS
<1>2. MAX_KEY \in Nat \ {0} /\ \A a \in Addresses : hash_addr(a) \in 1 .. MAX_KEY - 1
  BY KeysAssumption
<1>3. K \in SUBSET (0 .. MAX_KEY) /\ 0 \in K /\ MAX_KEY \in K
  BY <1>1, <1>2 DEF keys_of
<1>4. IsFiniteSet(K)
  <2>1. IsFiniteSet(0 .. MAX_KEY)
    BY <1>2, FS_Interval
  <2> QED BY <2>1, <1>3, FS_Subset
<1>5. Cardinality(K) <= n + 2
  <2> DEFINE f == [i \in 1 .. n + 2 |-> IF i <= n THEN hash_addr(list[i]) ELSE IF i = n + 1 THEN 0 ELSE MAX_KEY]
  <2>1. \A i \in 1 .. n : i \in 1 .. n + 2 /\ f[i] = hash_addr(list[i])
    BY <1>1
  <2>2. n + 1 \in 1 .. n + 2 /\ n + 2 \in 1 .. n + 2 /\ f[n + 1] = 0 /\ f[n + 2] = MAX_KEY
    BY <1>1
  <2>3. \A i \in 1 .. n + 2 : i \in 1 .. n \/ i = n + 1 \/ i = n + 2
    BY <1>1
  <2>4. \A x \in K : x = 0 \/ x = MAX_KEY \/ \E i \in 1 .. n : x = hash_addr(list[i])
    BY DEF keys_of
  <2>5. \A i \in 1 .. n : hash_addr(list[i]) \in K
    BY DEF keys_of
  <2>6. f = [i \in 1 .. n + 2 |-> f[i]]
    OBVIOUS
  <2> HIDE DEF f, K, n
  <2>7. \A i \in 1 .. n + 2 : f[i] \in K
    BY <2>1, <2>2, <2>3, <2>5, <1>3
  <2>8. f \in [1 .. n + 2 -> K]
    BY <2>6, <2>7
  <2>9. \A x \in K : \E i \in 1 .. n + 2 : f[i] = x
    BY <2>1, <2>2, <2>4
  <2>10. ExistsSurjection(1 .. n + 2, K)
    BY <2>8, <2>9 DEF ExistsSurjection, Surjection
  <2>11. n + 2 \in Nat
    BY <1>1
  <2> QED BY <2>10, <2>11, FS_SurjCardinalityBound
<1>6. Cardinality(K) \in Nat \ {0, 1}
  <2>1. 0 # MAX_KEY /\ {0, MAX_KEY} \in SUBSET K
    BY <1>2, <1>3
  <2>2. Cardinality({0, MAX_KEY}) = 2
    <3>1. IsFiniteSet({0}) /\ Cardinality({0}) = 1
      BY FS_Singleton
    <3>2. MAX_KEY \notin {0}
      BY <2>1
    <3>3. Cardinality({0} \cup {MAX_KEY}) = Cardinality({0}) + 1
      BY <3>1, <3>2, FS_AddElement
    <3>4. {0} \cup {MAX_KEY} = {0, MAX_KEY}
      OBVIOUS
    <3>5. Cardinality({0}) + 1 = 2
      BY <3>1
    <3>6. Cardinality({0, MAX_KEY}) = Cardinality({0}) + 1
      BY <3>3, <3>4, Zenon
    <3> QED BY <3>5, <3>6, Zenon
  <2> HIDE DEF K
  <2>3. 2 <= Cardinality(K) /\ Cardinality(K) \in Nat
    BY <2>1, <2>2, <1>4, FS_Subset, FS_CardinalityType
  <2> QED BY <2>3
<1> QED BY <1>3, <1>4, <1>5, <1>6

LEMMA SortedLeaves ==
    ASSUME NEW list \in Seq(Addresses)
    PROVE  \E d : /\ Leaves(sorted_addr_hashes(list), d, keys_of(list))
                  /\ pow2[d] < 2 * (Len(list) + 2)
<1> DEFINE K == keys_of(list)
           n == Cardinality(K)
           a == ascending(K)
           f == sorted_addr_hashes(list)
<1>1. /\ K \in SUBSET Nat /\ IsFiniteSet(K) /\ 0 \in K /\ MAX_KEY \in K
      /\ n \in Nat \ {0, 1} /\ n <= Len(list) + 2
      /\ \A x \in K : 0 <= x /\ x <= MAX_KEY /\ x \in Nat
      /\ MAX_KEY \in Nat /\ Len(list) \in Nat
  <2>1. /\ K \in SUBSET (0 .. MAX_KEY) /\ IsFiniteSet(K) /\ 0 \in K /\ MAX_KEY \in K
        /\ n \in Nat \ {0, 1} /\ n <= Len(list) + 2
    BY Keys
  <2>2. MAX_KEY \in Nat /\ Len(list) \in Nat
    BY KeysAssumption
  <2> HIDE DEF K, n
  <2> QED BY <2>1, <2>2
<1> HIDE DEF K
<1>2. /\ Len(a) = n
      /\ \A i \in 1 .. n : a[i] \in K
      /\ \A i, j \in 1 .. n : i < j => a[i] < a[j]
      /\ \A x \in K : \E i \in 1 .. n : a[i] = x
  BY <1>1, Ascending
<1>3. PICK d \in Nat : next_power_of_two(n) = pow2[d] /\ n <= pow2[d] /\ pow2[d] < 2 * n
  <2> HIDE DEF n
  <2> QED BY <1>1, NextPower
<1> DEFINE N == pow2[d]
<1>4. f = [i \in 0 .. N - 1 |-> IF i < n THEN a[i + 1] ELSE MAX_KEY]
  BY <1>2, <1>3 DEF sorted_addr_hashes, padded, K
<1> HIDE DEF n, a, f
<1>5. N \in Nat /\ n <= N /\ N < 2 * n /\ d \in Nat \ {0}
  <2>1. N \in Nat
    BY Pow2Def
  <2>2. d # 0
    <3>1. pow2[0] = 1
      BY Pow2Def
    <3>2. ~ (n <= 1)
      BY <1>1
    <3> QED BY <3>1, <3>2, <1>3 DEF N
  <2> QED BY <2>1, <2>2, <1>3
<1> HIDE DEF N
<1>6. \A i \in 0 .. N - 1 : f[i] = IF i < n THEN a[i + 1] ELSE MAX_KEY
  BY <1>4
<1>7. ASSUME NEW i \in 0 .. N - 1, i < n PROVE i + 1 \in 1 .. n /\ f[i] = a[i + 1]
  BY <1>1, <1>6, <1>7
<1>8. ASSUME NEW i \in 0 .. N - 1 PROVE f[i] \in K
  BY <1>1, <1>2, <1>6, <1>7
<1>9. ASSUME NEW x \in K PROVE \E i \in 0 .. N - 1 : f[i] = x
  <2>1. PICK j \in 1 .. n : a[j] = x
    BY <1>2
  <2>2. j - 1 \in 0 .. N - 1 /\ j - 1 < n /\ (j - 1) + 1 = j
    BY <1>1, <1>5
  <2> QED BY <2>1, <2>2, <1>7
<1>10. ASSUME NEW i \in 0 .. N - 1, NEW j \in 0 .. N - 1, i < j PROVE f[i] <= f[j]
  <2>1. f[i] \in Nat /\ f[i] <= MAX_KEY /\ f[j] \in Nat
    BY <1>1, <1>8
  <2>2. CASE j < n
    <3>1. i < n
      BY <1>1, <1>5, <1>10, <2>2
    <3>2. i + 1 \in 1 .. n /\ j + 1 \in 1 .. n /\ i + 1 < j + 1 /\ f[i] = a[i + 1] /\ f[j] = a[j + 1]
      BY <1>7, <1>10, <2>2, <3>1
    <3>3. a[i + 1] < a[j + 1]
      BY <3>2, <1>2
    <3> QED BY <2>1, <3>2, <3>3
  <2>3. CASE ~ (j < n)
    BY <2>1, <2>3, <1>6
  <2> QED BY <2>2, <2>3
<1>11. f[0] = 0 /\ f[N - 1] = MAX_KEY
  <2>1. 0 \in 0 .. N - 1 /\ N - 1 \in 0 .. N - 1
    BY <1>1, <1>5
  <2>2. PICK i \in 0 .. N - 1 : f[i] = 0
    BY <1>1, <1>9
  <2>3. PICK j \in 0 .. N - 1 : f[j] = MAX_KEY
    BY <1>1, <1>9
  <2>4. f[0] \in Nat /\ 0 <= f[0] /\ (i = 0 \/ f[0] <= f[i])
    <3>1. f[0] \in Nat /\ 0 <= f[0]
      BY <2>1, <1>8, <1>1
    <3>2. i = 0 \/ 0 < i
      OBVIOUS
    <3> QED BY <3>1, <3>2, <2>1, <1>10
  <2>5. f[N - 1] \in Nat /\ f[N - 1] <= MAX_KEY /\ (j = N - 1 \/ f[j] <= f[N - 1])
    <3>1. f[N - 1] \in Nat /\ f[N - 1] <= MAX_KEY
      BY <2>1, <1>8, <1>1
    <3>2. j = N - 1 \/ j < N - 1
      BY <1>5
    <3> QED BY <3>1, <3>2, <2>1, <1>10
  <2> QED BY <1>1, <2>2, <2>3, <2>4, <2>5
<1>12. f = [i \in 0 .. N - 1 |-> f[i]]
  BY <1>4
<1>13. Leaves(f, d, K)
  BY <1>5, <1>8, <1>9, <1>10, <1>11, <1>12 DEF Leaves, N
<1>14. N < 2 * (Len(list) + 2)
  BY <1>1, <1>5
<1> QED BY <1>13, <1>14 DEF N, K, f
-----------------------------------------------------------------------------
\* The levels of the tree of depth d over the leaves f, up to level m.
NodeOf(L, f, k, i) == IF k = 0 THEN hash_leaf(f[i]) ELSE hash_node(L[k - 1][2 * i], L[k - 1][2 * i + 1])

AreLevels(L, f, d, m) == L = [k \in 0 .. m |-> [i \in 0 .. pow2[d - k] - 1 |-> NodeOf(L, f, k, i)]]

LEMMA LevelsExist ==
    ASSUME NEW f, NEW d \in Nat
    PROVE  \E L : AreLevels(L, f, d, d)
<1> DEFINE T == {m \in Nat : \E L : AreLevels(L, f, d, m)}
           bottom == [i \in 0 .. pow2[d - 0] - 1 |-> hash_leaf(f[i])]
<1>1. 0 \in T
  <2> DEFINE L == [k \in 0 .. 0 |-> bottom]
  <2>1. \A i : NodeOf(L, f, 0, i) = hash_leaf(f[i])
    BY Zenon DEF NodeOf
  <2>2. bottom = [i \in 0 .. pow2[d - 0] - 1 |-> NodeOf(L, f, 0, i)]
    BY <2>1, Zenon
  <2>3. \A k \in 0 .. 0 : k = 0
    OBVIOUS
  <2>4. L = [k \in 0 .. 0 |-> [i \in 0 .. pow2[d - k] - 1 |-> NodeOf(L, f, k, i)]]
    <3> HIDE DEF bottom
    <3>1. \A k \in 0 .. 0 : bottom = [i \in 0 .. pow2[d - k] - 1 |-> NodeOf(L, f, k, i)]
      BY <2>2, <2>3, Zenon
    <3> QED BY <3>1, Zenon
  <2> QED BY <2>4, Zenon DEF AreLevels
<1>2. ASSUME NEW m \in T PROVE m + 1 \in T
  <2>1. PICK G : AreLevels(G, f, d, m)
    OBVIOUS
  <2>2. m \in Nat /\ m \in 0 .. m /\ m + 1 # 0 /\ (m + 1) - 1 = m
    OBVIOUS
  <2> DEFINE top == [i \in 0 .. pow2[d - (m + 1)] - 1 |-> hash_node(G[m][2 * i], G[m][2 * i + 1])]
             L == [k \in 0 .. m + 1 |-> IF k = m + 1 THEN top ELSE G[k]]
  <2>3. L[m + 1] = top /\ \A k \in 0 .. m : L[k] = G[k]
    <3> HIDE DEF top
    <3> QED BY <2>2
  <2>4. L = [k \in 0 .. m + 1 |-> L[k]]
    OBVIOUS
  <2> HIDE DEF L
  <2>5. \A k \in 0 .. m : G[k] = [i \in 0 .. pow2[d - k] - 1 |-> NodeOf(G, f, k, i)]
    <3> DEFINE Level(k) == [i \in 0 .. pow2[d - k] - 1 |-> NodeOf(G, f, k, i)]
    <3>1. G = [k \in 0 .. m |-> Level(k)]
      BY <2>1, Zenon DEF AreLevels
    <3> HIDE DEF Level
    <3>2. \A k \in 0 .. m : G[k] = Level(k)
      BY <3>1
    <3> QED BY <3>2, Zenon DEF Level
  <2>6. ASSUME NEW k \in 0 .. m + 1
        PROVE  L[k] = [i \in 0 .. pow2[d - k] - 1 |-> NodeOf(L, f, k, i)]
    <3>1. CASE k = m + 1
      <4>1. \A i : NodeOf(L, f, m + 1, i) = hash_node(G[m][2 * i], G[m][2 * i + 1])
        BY <2>2, <2>3, Zenon DEF NodeOf
      <4> QED BY <3>1, <4>1, <2>3, Zenon
    <3>2. CASE k \in 0 .. m
      <4>1. k # 0 => k - 1 \in 0 .. m
        BY <3>2, <2>2
      <4>2. \A i : NodeOf(L, f, k, i) = NodeOf(G, f, k, i)
        BY <4>1, <2>3, Zenon DEF NodeOf
      <4>3. L[k] = G[k]
        BY <3>2, <2>3, Zenon
      <4>4. G[k] = [i \in 0 .. pow2[d - k] - 1 |-> NodeOf(G, f, k, i)]
        BY <3>2, <2>5, Zenon
      <4>5. [i \in 0 .. pow2[d - k] - 1 |-> NodeOf(L, f, k, i)] = [i \in 0 .. pow2[d - k] - 1 |-> NodeOf(G, f, k, i)]
        <5> HIDE DEF top
        <5> QED BY <4>2, Zenon
      <4> QED BY <4>3, <4>4, <4>5, Zenon
    <3> QED BY <3>1, <3>2, <2>2
  <2>7. AreLevels(L, f, d, m + 1)
    BY <2>4, <2>6, Zenon DEF AreLevels
  <2> QED BY <2>2, <2>7
<1> HIDE DEF T
<1>3. \A n \in Nat : n \in T
  BY <1>1, <1>2, SetInduction DEF T
<1> QED BY <1>3 DEF T

\* A tree with these leaves.
IsTree(t, f, d) ==
    /\ t.sorted_addr_hashes = f
    /\ t.depth = d
    /\ \A i \in 0 .. pow2[d] - 1 : t.levels[0][i] = hash_leaf(f[i])
    /\ \A k \in 0 .. d - 1 : \A i \in 0 .. pow2[d - k - 1] - 1 :
          t.levels[k + 1][i] = hash_node(t.levels[k][2 * i], t.levels[k][2 * i + 1])

LEMMA BuildIsTree ==
    ASSUME NEW list, NEW K, NEW d, Leaves(sorted_addr_hashes(list), d, K)
    PROVE  IsTree(build(list), sorted_addr_hashes(list), d)
<1> DEFINE f == sorted_addr_hashes(list)
           N == pow2[d]
           e == tree_depth(Cardinality(DOMAIN f))
<1>1. d \in Nat /\ f = [i \in 0 .. N - 1 |-> f[i]]
  BY DEF Leaves
<1>2. e = d
  <2>1. N \in Nat \ {0}
    BY <1>1, Pow2Def
  <2>2. DOMAIN f = 0 .. N - 1
    <3> HIDE DEF f, N
    <3> QED BY <1>1
  <2>3. Cardinality(0 .. N - 1) = N
    <3> HIDE DEF N
    <3>1. Cardinality(0 .. N - 1) = IF 0 > N - 1 THEN 0 ELSE (N - 1) - 0 + 1
      BY <2>1, FS_Interval
    <3> QED BY <2>1, <3>1
  <2> QED BY <1>1, <2>2, <2>3, TreeDepth
<1> DEFINE L == CHOOSE L : AreLevels(L, f, e, e)
<1>3. build(list) = [sorted_addr_hashes |-> f, levels |-> L, depth |-> e]
  BY Zenon DEF build, AreLevels, NodeOf
<1> HIDE DEF f, e
<1>4. AreLevels(L, f, d, d)
  BY <1>1, <1>2, LevelsExist
<1> HIDE DEF L
<1>5. \A k \in 0 .. d : \A i \in 0 .. pow2[d - k] - 1 : L[k][i] = NodeOf(L, f, k, i)
  <2> DEFINE Level(k) == [i \in 0 .. pow2[d - k] - 1 |-> NodeOf(L, f, k, i)]
  <2>1. L = [k \in 0 .. d |-> Level(k)]
    BY <1>4, Zenon DEF AreLevels
  <2>2. \A k : \A i \in 0 .. pow2[d - k] - 1 : Level(k)[i] = NodeOf(L, f, k, i)
    BY Zenon
  <2> HIDE DEF Level
  <2>3. \A k \in 0 .. d : L[k] = Level(k)
    BY <2>1
  <2> QED BY <2>2, <2>3, Zenon
<1>6. \A i \in 0 .. pow2[d] - 1 : L[0][i] = hash_leaf(f[i])
  <2>1. 0 \in 0 .. d /\ d - 0 = d
    BY <1>1
  <2> QED BY <2>1, <1>5, Zenon DEF NodeOf
<1>7. ASSUME NEW k \in 0 .. d - 1, NEW i \in 0 .. pow2[d - k - 1] - 1
      PROVE  L[k + 1][i] = hash_node(L[k][2 * i], L[k][2 * i + 1])
  <2>1. k + 1 \in 0 .. d /\ k + 1 # 0 /\ (k + 1) - 1 = k /\ d - (k + 1) = d - k - 1
    BY <1>1
  <2>2. L[k + 1][i] = NodeOf(L, f, k + 1, i)
    BY <2>1, <1>5, Zenon
  <2> QED BY <2>1, <2>2, Zenon DEF NodeOf
<1>8. build(list).sorted_addr_hashes = f /\ build(list).levels = L /\ build(list).depth = d
  BY <1>3, <1>2
<1> QED BY <1>6, <1>7, <1>8 DEF IsTree, f
-----------------------------------------------------------------------------
LEMMA LeafIsNotNode ==
    ASSUME NEW x, NEW l, NEW r
    PROVE  hash_leaf(x) # hash_node(l, r)
<1>1. DOMAIN [leaf |-> x] = {"leaf"} /\ DOMAIN [left |-> l, right |-> r] = {"left", "right"}
  OBVIOUS
<1> QED BY <1>1 DEF hash_leaf, hash_node

LEMMA LeafInjective ==
    ASSUME NEW x, NEW y, hash_leaf(x) = hash_leaf(y)
    PROVE  x = y
<1>1. [leaf |-> x].leaf = x /\ [leaf |-> y].leaf = y
  OBVIOUS
<1> QED BY <1>1, Zenon DEF hash_leaf

LEMMA NodeInjective ==
    ASSUME NEW l, NEW r, NEW p, NEW q, hash_node(l, r) = hash_node(p, q)
    PROVE  l = p /\ r = q
<1>1. /\ [left |-> l, right |-> r].left = l /\ [left |-> p, right |-> q].left = p
      /\ [left |-> l, right |-> r].right = r /\ [left |-> p, right |-> q].right = q
  OBVIOUS
<1> QED BY <1>1, Zenon DEF hash_node

\* A node of a level and the two below it.
LEMMA Halves ==
    ASSUME NEW j \in Nat, NEW p \in Nat \ {0}
    PROVE  /\ j \div 2 \in Nat /\ j % 2 \in {0, 1} /\ j = 2 * (j \div 2) + (j % 2)
           /\ j < 2 * p => j \div 2 < p
OBVIOUS

\* The root determines the tree: two trees with one root have the same depth
\* and the same leaves.
SameLevel(t, u, c, d, m) ==
    m <= c /\ m <= d => \A i \in 0 .. pow2[m] - 1 : t.levels[c - m][i] = u.levels[d - m][i]

LEMMA LevelsAgree ==
    ASSUME NEW t, NEW u, NEW f, NEW g, NEW c \in Nat, NEW d \in Nat,
           IsTree(t, f, c), IsTree(u, g, d), t.levels[c][0] = u.levels[d][0]
    PROVE  \A m \in Nat : SameLevel(t, u, c, d, m)
<1> DEFINE T == {m \in Nat : SameLevel(t, u, c, d, m)}
<1>1. 0 \in T
  <2>1. pow2[0] = 1 /\ c - 0 = c /\ d - 0 = d
    BY Pow2Def
  <2>2. \A i \in 0 .. pow2[0] - 1 : i = 0
    BY <2>1
  <2> QED BY <2>1, <2>2 DEF SameLevel
<1>2. ASSUME NEW m \in T PROVE m + 1 \in T
  <2> SUFFICES ASSUME m + 1 <= c, m + 1 <= d, NEW j \in 0 .. pow2[m + 1] - 1
               PROVE  t.levels[c - (m + 1)][j] = u.levels[d - (m + 1)][j]
    BY DEF SameLevel
  <2>1. /\ c - (m + 1) \in 0 .. c - 1 /\ c - (m + 1) + 1 = c - m /\ c - (c - (m + 1)) - 1 = m
        /\ d - (m + 1) \in 0 .. d - 1 /\ d - (m + 1) + 1 = d - m /\ d - (d - (m + 1)) - 1 = m
        /\ m \in Nat /\ m <= c /\ m <= d
    OBVIOUS
  <2> DEFINE i == j \div 2
  <2>2. i \in 0 .. pow2[m] - 1 /\ (j = 2 * i \/ j = 2 * i + 1)
    <3> DEFINE p == pow2[m]
    <3>1. p \in Nat \ {0} /\ pow2[m + 1] = 2 * p
      BY <2>1, Pow2Def
    <3> HIDE DEF p
    <3>2. j \in Nat /\ j < 2 * p
      BY <3>1
    <3>3. j \div 2 \in Nat /\ j % 2 \in {0, 1} /\ j = 2 * (j \div 2) + (j % 2) /\ j \div 2 < p
      BY <3>1, <3>2, Halves
    <3>4. i \in 0 .. p - 1 /\ (j = 2 * i \/ j = 2 * i + 1)
      BY <3>1, <3>3
    <3> QED BY <3>4 DEF p
  <2> HIDE DEF i
  <2>3. t.levels[c - m][i] = u.levels[d - m][i]
    BY <2>1, <2>2 DEF SameLevel
  <2>4. t.levels[c - m][i] = hash_node(t.levels[c - (m + 1)][2 * i], t.levels[c - (m + 1)][2 * i + 1])
    <3> DEFINE k == c - (m + 1)
    <3>1. k \in 0 .. c - 1 /\ k + 1 = c - m /\ c - k - 1 = m
      BY <2>1
    <3> HIDE DEF k
    <3>2. t.levels[k + 1][i] = hash_node(t.levels[k][2 * i], t.levels[k][2 * i + 1])
      BY <3>1, <2>2, Zenon DEF IsTree
    <3>3. t.levels[c - m][i] = hash_node(t.levels[k][2 * i], t.levels[k][2 * i + 1])
      BY <3>1, <3>2, Zenon
    <3> QED BY <3>3 DEF k
  <2>5. u.levels[d - m][i] = hash_node(u.levels[d - (m + 1)][2 * i], u.levels[d - (m + 1)][2 * i + 1])
    <3> DEFINE k == d - (m + 1)
    <3>1. k \in 0 .. d - 1 /\ k + 1 = d - m /\ d - k - 1 = m
      BY <2>1
    <3> HIDE DEF k
    <3>2. u.levels[k + 1][i] = hash_node(u.levels[k][2 * i], u.levels[k][2 * i + 1])
      BY <3>1, <2>2, Zenon DEF IsTree
    <3>3. u.levels[d - m][i] = hash_node(u.levels[k][2 * i], u.levels[k][2 * i + 1])
      BY <3>1, <3>2, Zenon
    <3> QED BY <3>3 DEF k
  <2>6. /\ t.levels[c - (m + 1)][2 * i] = u.levels[d - (m + 1)][2 * i]
        /\ t.levels[c - (m + 1)][2 * i + 1] = u.levels[d - (m + 1)][2 * i + 1]
    <3> DEFINE l == t.levels[c - (m + 1)][2 * i]  r == t.levels[c - (m + 1)][2 * i + 1]
               p == u.levels[d - (m + 1)][2 * i]  q == u.levels[d - (m + 1)][2 * i + 1]
    <3>1. hash_node(l, r) = hash_node(p, q)
      BY <2>3, <2>4, <2>5, Zenon
    <3> HIDE DEF l, r, p, q
    <3>2. l = p /\ r = q
      BY <3>1, NodeInjective
    <3> QED BY <3>2 DEF l, r, p, q
  <2> QED BY <2>2, <2>6, Zenon
<1> HIDE DEF T
<1>3. \A n \in Nat : n \in T
  BY <1>1, <1>2, SetInduction DEF T
<1> QED BY <1>3 DEF T

LEMMA NoDeeper ==
    ASSUME NEW t, NEW u, NEW f, NEW g, NEW c \in Nat, NEW d \in Nat, c < d,
           IsTree(t, f, c), IsTree(u, g, d)
    PROVE  t.levels[c][0] # u.levels[d][0]
<1> SUFFICES ASSUME t.levels[c][0] = u.levels[d][0] PROVE FALSE
  OBVIOUS
<1>1. SameLevel(t, u, c, d, c)
  BY LevelsAgree
<1>2. pow2[c] \in Nat \ {0} /\ pow2[d - c] \in Nat \ {0} /\ c <= d /\ c <= c /\ c - c = 0 /\ d - c \in Nat
  BY Pow2Def
<1>3. 0 \in 0 .. pow2[c] - 1
  BY <1>2
<1>4. t.levels[0][0] = u.levels[d - c][0]
  BY <1>1, <1>2, <1>3 DEF SameLevel
<1>5. t.levels[0][0] = hash_leaf(f[0])
  BY <1>3, Zenon DEF IsTree
<1> DEFINE k == d - c - 1
<1>6. k \in 0 .. d - 1 /\ k + 1 = d - c /\ d - k - 1 = c
  OBVIOUS
<1> HIDE DEF k
<1>7. u.levels[k + 1][0] = hash_node(u.levels[k][2 * 0], u.levels[k][2 * 0 + 1])
  BY <1>3, <1>6, Zenon DEF IsTree
<1>8. hash_leaf(f[0]) = hash_node(u.levels[k][2 * 0], u.levels[k][2 * 0 + 1])
  BY <1>4, <1>5, <1>6, <1>7, Zenon
<1> QED BY <1>8, LeafIsNotNode, Zenon

LEMMA RootDetermines ==
    ASSUME NEW t, NEW u, NEW f, NEW g, NEW c, NEW d, NEW K, NEW J,
           Leaves(f, c, K), Leaves(g, d, J),
           IsTree(t, f, c), IsTree(u, g, d), root(t) = root(u)
    PROVE  f = g
<1>1. c \in Nat /\ d \in Nat /\ t.levels[c][0] = u.levels[d][0]
  BY DEF Leaves, IsTree, root
<1>2. c = d
  BY <1>1, NoDeeper
<1>3. SameLevel(t, u, c, c, c)
  BY <1>1, <1>2, LevelsAgree
<1>4. \A i \in 0 .. pow2[c] - 1 : t.levels[0][i] = u.levels[0][i]
  <2>1. c <= c /\ c - c = 0
    BY <1>1
  <2> QED BY <1>3, <2>1 DEF SameLevel
<1>5. \A i \in 0 .. pow2[c] - 1 : f[i] = g[i]
  <2>1. \A i \in 0 .. pow2[c] - 1 : t.levels[0][i] = hash_leaf(f[i]) /\ u.levels[0][i] = hash_leaf(g[i])
    BY <1>2, Zenon DEF IsTree
  <2>2. \A i \in 0 .. pow2[c] - 1 : hash_leaf(f[i]) = hash_leaf(g[i])
    BY <1>4, <2>1, Zenon
  <2> QED BY <2>2, LeafInjective, Zenon
<1>6. f = [i \in 0 .. pow2[c] - 1 |-> f[i]] /\ g = [i \in 0 .. pow2[c] - 1 |-> g[i]]
  BY <1>2, Zenon DEF Leaves
<1> QED BY <1>5, <1>6, Zenon
-----------------------------------------------------------------------------
\* The way up from a leaf hash along a proof, as the circuit computes it.
Above(node, index, proof, k) ==
    IF (index \div pow2[k - 1]) % 2 = 0 THEN hash_node(node, proof[k]) ELSE hash_node(proof[k], node)

IsClimb(c, h, index, proof, n) ==
    c = [k \in 0 .. n |-> IF k = 0 THEN h
                          ELSE IF (index \div pow2[k - 1]) % 2 = 0
                                 THEN hash_node(c[k - 1], proof[k])
                                 ELSE hash_node(proof[k], c[k - 1])]

Climb(c, h, index, proof, n) ==
    c[0] = h /\ \A k \in 0 .. n - 1 : c[k + 1] = Above(c[k], index, proof, k + 1)

LEMMA ClimbDef ==
    ASSUME NEW c, NEW h, NEW index, NEW proof, NEW n \in Nat
    PROVE  IsClimb(c, h, index, proof, n)
             <=> c = [k \in 0 .. n |-> IF k = 0 THEN h ELSE Above(c[k - 1], index, proof, k)]
<1>1. [k \in 0 .. n |-> IF k = 0 THEN h ELSE Above(c[k - 1], index, proof, k)]
        = [k \in 0 .. n |-> IF k = 0 THEN h
                            ELSE IF (index \div pow2[k - 1]) % 2 = 0
                                   THEN hash_node(c[k - 1], proof[k])
                                   ELSE hash_node(proof[k], c[k - 1])]
  BY Zenon DEF Above
<1> QED BY <1>1, Zenon DEF IsClimb

LEMMA ClimbExists ==
    ASSUME NEW h, NEW index, NEW proof, NEW m \in Nat
    PROVE  \E c : IsClimb(c, h, index, proof, m)
<1> DEFINE T == {n \in Nat : \E c : IsClimb(c, h, index, proof, n)}
<1>1. 0 \in T
  <2> DEFINE c == [k \in 0 .. 0 |-> h]
  <2>1. c = [k \in 0 .. 0 |-> IF k = 0 THEN h ELSE Above(c[k - 1], index, proof, k)]
    OBVIOUS
  <2> HIDE DEF c
  <2>2. IsClimb(c, h, index, proof, 0)
    BY <2>1, ClimbDef
  <2> QED BY <2>2
<1>2. ASSUME NEW n \in T PROVE n + 1 \in T
  <2>1. PICK b : IsClimb(b, h, index, proof, n)
    OBVIOUS
  <2>2. n \in Nat /\ n \in 0 .. n /\ n + 1 # 0 /\ (n + 1) - 1 = n /\ n + 1 \in 0 .. n + 1
    OBVIOUS
  <2> DEFINE top == Above(b[n], index, proof, n + 1)
             c == [k \in 0 .. n + 1 |-> IF k = n + 1 THEN top ELSE b[k]]
  <2>3. c[n + 1] = top /\ \A k \in 0 .. n : c[k] = b[k]
    <3> HIDE DEF top
    <3> QED BY <2>2
  <2>4. c = [k \in 0 .. n + 1 |-> c[k]]
    OBVIOUS
  <2> HIDE DEF c, top
  <2>5. \A k \in 0 .. n : b[k] = IF k = 0 THEN h ELSE Above(b[k - 1], index, proof, k)
    <3>1. b = [k \in 0 .. n |-> IF k = 0 THEN h ELSE Above(b[k - 1], index, proof, k)]
      BY <2>1, <2>2, ClimbDef
    <3> QED BY <3>1, Zenon
  <2>6. ASSUME NEW k \in 0 .. n + 1
        PROVE  c[k] = IF k = 0 THEN h ELSE Above(c[k - 1], index, proof, k)
    <3>1. CASE k = n + 1
      BY <3>1, <2>2, <2>3, Zenon DEF top
    <3>2. CASE k \in 0 .. n
      <4>1. k # 0 => k - 1 \in 0 .. n
        BY <3>2, <2>2
      <4>2. c[k] = b[k] /\ (k # 0 => c[k - 1] = b[k - 1])
        BY <3>2, <4>1, <2>3, Zenon
      <4>3. b[k] = IF k = 0 THEN h ELSE Above(b[k - 1], index, proof, k)
        BY <3>2, <2>5, Zenon
      <4> QED BY <4>2, <4>3, Zenon
    <3> QED BY <3>1, <3>2, <2>2
  <2>7. c = [k \in 0 .. n + 1 |-> IF k = 0 THEN h ELSE Above(c[k - 1], index, proof, k)]
    BY <2>4, <2>6, Zenon
  <2>8. IsClimb(c, h, index, proof, n + 1)
    BY <2>2, <2>7, ClimbDef
  <2> QED BY <2>2, <2>8
<1> HIDE DEF T
<1>3. \A n \in Nat : n \in T
  BY <1>1, <1>2, SetInduction DEF T
<1> QED BY <1>3 DEF T

\* The circuit's check, as a climb.
LEMMA VerifyIsClimb ==
    ASSUME NEW h, NEW index, NEW proof, NEW wanted, NEW depth, Len(proof) \in Nat
    PROVE  \E c : /\ Climb(c, h, index, proof, Len(proof))
                  /\ verify_merkle_proof(h, index, proof, wanted, depth)
                       <=> Len(proof) = depth /\ c[Len(proof)] = wanted
<1> DEFINE n == Len(proof)
           c == CHOOSE c : IsClimb(c, h, index, proof, n)
<1>1. verify_merkle_proof(h, index, proof, wanted, depth) <=> n = depth /\ c[n] = wanted
  BY Zenon DEF verify_merkle_proof, IsClimb
<1>2. IsClimb(c, h, index, proof, n)
  BY ClimbExists
<1> HIDE DEF c, n
<1>3. n \in Nat
  BY DEF n
<1>4. c = [k \in 0 .. n |-> IF k = 0 THEN h ELSE Above(c[k - 1], index, proof, k)]
  BY <1>2, <1>3, ClimbDef
<1>5. \A k \in 0 .. n : c[k] = IF k = 0 THEN h ELSE Above(c[k - 1], index, proof, k)
  BY <1>4, Zenon
<1>6. 0 \in 0 .. n /\ \A k \in 0 .. n - 1 : k + 1 \in 0 .. n /\ k + 1 # 0 /\ (k + 1) - 1 = k
  BY <1>3
<1>7. c[0] = h
  BY <1>5, <1>6, Zenon
<1>8. ASSUME NEW k \in 0 .. n - 1 PROVE c[k + 1] = Above(c[k], index, proof, k + 1)
  BY <1>5, <1>6, Zenon
<1>9. Climb(c, h, index, proof, n)
  BY <1>7, <1>8, Zenon DEF Climb
<1> QED BY <1>1, <1>9, Zenon DEF n
-----------------------------------------------------------------------------
\* The oracle's proof of a leaf verifies.
LEMMA InclusionVerifies ==
    ASSUME NEW t, NEW f, NEW d \in Nat, IsTree(t, f, d), NEW i \in 0 .. pow2[d] - 1
    PROVE  verify_merkle_proof(hash_leaf(f[i]), i, inclusion_proof(t, i), root(t), t.depth)
<1> DEFINE p == inclusion_proof(t, i)
           at(k) == i \div pow2[k]
           sib(k) == IF at(k) % 2 = 0 THEN at(k) + 1 ELSE at(k) - 1
<1>0. t.depth = d
  BY DEF IsTree
<1>1. p = [k \in 1 .. d |-> t.levels[k - 1][sib(k - 1)]]
  BY <1>0 DEF inclusion_proof
<1>2. Len(p) = d
  <2> HIDE DEF sib
  <2> QED BY <1>1
<1>3. \A k \in 0 .. d - 1 : p[k + 1] = t.levels[k][sib(k)]
  <2> HIDE DEF sib, p
  <2> TAKE k \in 0 .. d - 1
  <2>1. k + 1 \in 1 .. d /\ (k + 1) - 1 = k
    OBVIOUS
  <2> QED BY <1>1, <2>1
<1> HIDE DEF p
<1>4. PICK c : /\ Climb(c, hash_leaf(f[i]), i, p, d)
               /\ verify_merkle_proof(hash_leaf(f[i]), i, p, root(t), t.depth)
                    <=> Len(p) = t.depth /\ c[d] = root(t)
  BY <1>2, VerifyIsClimb
<1>5. i \in Nat /\ i < pow2[d] /\ \A k \in Nat : pow2[k] \in Nat \ {0}
  BY Pow2Def
<1> DEFINE Holds(k) == at(k) \in 0 .. pow2[d - k] - 1 /\ c[k] = t.levels[k][at(k)]
           T == {k \in Nat : k <= d => Holds(k)}
<1>6. 0 \in T
  <2>1. at(0) = i
    BY <1>5, Pow2Def
  <2>2. c[0] = hash_leaf(f[i])
    BY <1>4 DEF Climb
  <2>3. t.levels[0][i] = hash_leaf(f[i])
    BY Zenon DEF IsTree
  <2>4. d - 0 = d
    OBVIOUS
  <2>5. Holds(0)
    BY <2>1, <2>2, <2>3, <2>4
  <2> QED BY <2>5
<1>7. ASSUME NEW k \in T PROVE k + 1 \in T
  <2> SUFFICES ASSUME k + 1 <= d PROVE Holds(k + 1)
    OBVIOUS
  <2>1. k \in Nat /\ k <= d /\ k \in 0 .. d - 1 /\ d - k - 1 \in Nat /\ d - k = (d - k - 1) + 1 /\ d - (k + 1) = d - k - 1
    OBVIOUS
  <2>2. Holds(k)
    BY <2>1
  <2> DEFINE q == at(k)  h == at(k + 1)  w == pow2[d - k - 1]
  <2>3. h = q \div 2 /\ q \in Nat /\ q < 2 * w /\ w \in Nat \ {0}
    <3>1. pow2[k + 1] = 2 * pow2[k] /\ pow2[d - k] = 2 * w /\ pow2[k] \in Nat \ {0} /\ w \in Nat \ {0}
      BY <2>1, Pow2Def
    <3>2. i \div (2 * pow2[k]) = (i \div pow2[k]) \div 2
      BY <3>1, <1>5, DivHalf
    <3> HIDE DEF w
    <3>3. q \in Nat /\ q < 2 * w
      BY <2>2, <3>1
    <3> QED BY <3>1, <3>2, <3>3
  <2>4. c[k + 1] = IF q % 2 = 0 THEN hash_node(c[k], p[k + 1]) ELSE hash_node(p[k + 1], c[k])
    <3>1. (k + 1) - 1 = k
      BY <2>1
    <3>2. c[k + 1] = Above(c[k], i, p, k + 1)
      BY <1>4, <2>1 DEF Climb
    <3> QED BY <3>1, <3>2, Zenon DEF Above
  <2>5. p[k + 1] = t.levels[k][IF q % 2 = 0 THEN q + 1 ELSE q - 1] /\ c[k] = t.levels[k][q]
    BY <1>3, <2>1, <2>2
  <2> HIDE DEF q, h, w, at
  <2>6. h \in 0 .. w - 1 /\ q % 2 \in {0, 1} /\ q = 2 * h + (q % 2)
    BY <2>3, Halves
  <2>7. c[k + 1] = hash_node(t.levels[k][2 * h], t.levels[k][2 * h + 1])
    <3>1. CASE q % 2 = 0
      <4>1. q = 2 * h /\ q + 1 = 2 * h + 1
        BY <2>6, <3>1
      <4> QED BY <2>4, <2>5, <3>1, <4>1, Zenon
    <3>2. CASE q % 2 # 0
      <4>1. q = 2 * h + 1 /\ q - 1 = 2 * h
        BY <2>6, <3>2
      <4> QED BY <2>4, <2>5, <3>2, <4>1, Zenon
    <3> QED BY <3>1, <3>2
  <2>8. t.levels[k + 1][h] = hash_node(t.levels[k][2 * h], t.levels[k][2 * h + 1])
    BY <2>1, <2>6, Zenon DEF IsTree, w
  <2> QED BY <2>1, <2>6, <2>7, <2>8 DEF h, w
<1> HIDE DEF T
<1>8. \A n \in Nat : n \in T
  BY <1>6, <1>7, SetInduction DEF T
<1>9. Holds(d)
  BY <1>8 DEF T
<1>10. at(d) = 0
  <2>1. d - d = 0 /\ pow2[0] = 1
    BY Pow2Def
  <2> HIDE DEF at
  <2> QED BY <1>9, <2>1
<1> HIDE DEF at
<1> QED BY <1>0, <1>2, <1>4, <1>9, <1>10 DEF root, p
-----------------------------------------------------------------------------
LEMMA ModDouble ==
    ASSUME NEW n \in Nat, NEW p \in Nat \ {0}
    PROVE  n % (2 * p) = 2 * ((n \div 2) % p) + (n % 2)
<1> DEFINE h == n \div 2  b == n % 2  s == h \div p  r == h % p  H == 2 * p  q == n \div H  m == n % H
<1>1. h \in Nat /\ b \in {0, 1} /\ n = 2 * h + b
  OBVIOUS
<1>2. h = p * s + r /\ s \in Nat /\ r \in 0 .. p - 1
  BY <1>1, DivMod, ModRange
<1>3. H \in Nat \ {0} /\ H = 2 * p
  OBVIOUS
<1>4. n = H * q + m /\ q \in Nat /\ m \in 0 .. H - 1
  BY <1>3, DivMod, ModRange
<1> HIDE DEF h, b, s, r, H, q, m
<1>5. n = H * s + (2 * r + b)
  <2>1. H * s = 2 * (p * s)
    BY <1>2, <1>3
  <2> QED BY <2>1, <1>1, <1>2, <1>3
<1>6. 2 * r + b \in 0 .. H - 1
  BY <1>1, <1>2, <1>3
<1>7. q = s
  <2> DEFINE x == H * s  y == H * q
  <2>1. x \in Int /\ y \in Int
    BY <1>2, <1>3, <1>4
  <2>2. x - y < H /\ y - x < H
    <3>1. n = x + (2 * r + b) /\ n = y + m
      BY <1>4, <1>5
    <3> HIDE DEF x, y
    <3> QED BY <3>1, <2>1, <1>3, <1>4, <1>6, <1>1, <1>2
  <2> QED BY <2>2, <1>2, <1>3, <1>4, MultipleGap
<1>8. m = 2 * r + b
  <2> DEFINE x == H * s
  <2>1. x \in Int /\ n = x + (2 * r + b) /\ n = x + m
    BY <1>2, <1>3, <1>4, <1>5, <1>7
  <2> HIDE DEF x
  <2> QED BY <2>1, <1>1, <1>2, <1>4
<1> QED BY <1>8 DEF m, H, r, h, b

\* A remainder modulo a multiple of N keeps the remainder modulo N.
LEMMA ModMultiple ==
    ASSUME NEW a \in Nat, NEW c \in Nat \ {0}, NEW N \in Nat \ {0}
    PROVE  (a % (c * N)) % N = a % N
<1> DEFINE W == c * N
           q == a \div W  r == a % W  u == r \div N  v == r % N  s == a \div N  m == a % N
<1>1. W \in Nat \ {0}
  OBVIOUS
<1>2. a = W * q + r /\ q \in Nat /\ r \in 0 .. W - 1
  BY <1>1, DivMod, ModRange
<1>3. r = N * u + v /\ u \in Nat /\ v \in 0 .. N - 1
  <2>1. r \in Nat
    BY <1>1, <1>2
  <2> HIDE DEF r
  <2> QED BY <2>1, DivMod, ModRange
<1>4. a = N * s + m /\ s \in Nat /\ m \in 0 .. N - 1
  BY DivMod, ModRange
<1> HIDE DEF q, r, u, v, s, m
<1>5. W * q = N * (c * q) /\ N * (c * q) + N * u = N * (c * q + u) /\ c * q \in Nat
  BY <1>2, <1>3
<1> DEFINE k == c * q + u
<1>6. k \in Nat
  BY <1>3, <1>5
<1>7. a = N * k + v
  <2> DEFINE x == W * q  y == N * u  z == N * k
  <2>1. x \in Int /\ y \in Int /\ x + y = z
    BY <1>1, <1>2, <1>3, <1>5
  <2>2. a = x + r /\ r = y + v
    BY <1>2, <1>3
  <2> HIDE DEF x, y
  <2>3. a = z + v
    <3> HIDE DEF z
    <3> QED BY <2>1, <2>2, <1>3
  <2> QED BY <2>3
<1> HIDE DEF k
<1>8. k = s
  <2> DEFINE x == N * k  y == N * s
  <2>1. x \in Int /\ y \in Int
    BY <1>4, <1>6
  <2>2. x - y < N /\ y - x < N
    <3>1. a = x + v /\ a = y + m
      BY <1>4, <1>7
    <3> HIDE DEF x, y
    <3> QED BY <3>1, <2>1, <1>3, <1>4
  <2> QED BY <2>2, <1>4, <1>6, MultipleGap
<1>9. m = v
  <2> DEFINE x == N * k
  <2>1. x \in Int /\ a = x + v /\ a = x + m
    BY <1>4, <1>6, <1>7, <1>8
  <2> HIDE DEF x
  <2> QED BY <2>1, <1>3, <1>4
<1> QED BY <1>9 DEF m, v, r

LEMMA Pow2Divides ==
    ASSUME NEW d \in Nat, NEW w \in Nat, pow2[d] < pow2[w]
    PROVE  \E c \in Nat \ {0} : pow2[w] = c * pow2[d]
<1>0. d < w
  <2>1. ~ (w < d) /\ w # d
    <3>1. pow2[d] \in Nat /\ pow2[w] \in Nat
      BY Pow2Def
    <3>2. w < d => pow2[w] < pow2[d]
      BY Pow2Grows
    <3> QED BY <3>1, <3>2
  <2> QED BY <2>1
<1> DEFINE T == {k \in Nat : \E c \in Nat \ {0} : pow2[d + k] = c * pow2[d]}
<1>1. 0 \in T
  <2>1. d + 0 = d /\ pow2[d] = 1 * pow2[d] /\ 1 \in Nat \ {0}
    BY Pow2Def
  <2> QED BY <2>1
<1>2. ASSUME NEW k \in T PROVE k + 1 \in T
  <2>1. PICK c \in Nat \ {0} : pow2[d + k] = c * pow2[d]
    OBVIOUS
  <2>2. d + k \in Nat /\ d + (k + 1) = (d + k) + 1 /\ k + 1 \in Nat
    OBVIOUS
  <2>3. pow2[(d + k) + 1] = 2 * pow2[d + k] /\ pow2[d] \in Nat
    BY <2>2, Pow2Def
  <2>4. 2 * (c * pow2[d]) = (2 * c) * pow2[d] /\ 2 * c \in Nat \ {0}
    BY <2>3
  <2>5. pow2[d + (k + 1)] = (2 * c) * pow2[d]
    BY <2>1, <2>2, <2>3, <2>4
  <2> QED BY <2>2, <2>4, <2>5
<1> HIDE DEF T
<1>3. \A k \in Nat : k \in T
  BY <1>1, <1>2, SetInduction DEF T
<1>4. w - d \in Nat /\ d + (w - d) = w
  BY <1>0
<1> QED BY <1>3, <1>4 DEF T
-----------------------------------------------------------------------------
\* What a climb that ends in the root passes through, from the top down.
Passes(t, d, c, n, index, m) ==
    m <= d /\ m <= n => c[n - m] = t.levels[d - m][(index \div pow2[n - m]) % pow2[m]]

LEMMA ClimbPasses ==
    ASSUME NEW t, NEW f, NEW d \in Nat, IsTree(t, f, d),
           NEW h, NEW index \in Nat, NEW proof, NEW n \in Nat, NEW c,
           Climb(c, h, index, proof, n), c[n] = t.levels[d][0]
    PROVE  \A m \in Nat : Passes(t, d, c, n, index, m)
<1> DEFINE T == {m \in Nat : Passes(t, d, c, n, index, m)}
<1>0. \A k \in Nat : pow2[k] \in Nat \ {0} /\ index \div pow2[k] \in Nat
  BY Pow2Def, DivMod
<1>1. 0 \in T
  <2>1. pow2[0] = 1 /\ n - 0 = n /\ d - 0 = d
    BY Pow2Def
  <2>2. (index \div pow2[n]) % 1 = 0
    BY <1>0
  <2> QED BY <2>1, <2>2 DEF Passes
<1>2. ASSUME NEW m \in T PROVE m + 1 \in T
  <2> SUFFICES ASSUME m + 1 <= d, m + 1 <= n
               PROVE  c[n - (m + 1)] = t.levels[d - (m + 1)][(index \div pow2[n - (m + 1)]) % pow2[m + 1]]
    BY DEF Passes
  <2> DEFINE j == n - (m + 1)  k == d - (m + 1)
             q == index \div pow2[j]  w == pow2[m]  x == (q \div 2) % w  y == q % pow2[m + 1]
  <2>1. /\ m \in Nat /\ m <= d /\ m <= n
        /\ j \in Nat /\ j \in 0 .. n - 1 /\ n - m = j + 1 /\ (j + 1) - 1 = j
        /\ k \in 0 .. d - 1 /\ d - m = k + 1 /\ d - k - 1 = m
    OBVIOUS
  <2> HIDE DEF j, k
  <2>2. index \div pow2[n - m] = q \div 2
    <3>1. pow2[j + 1] = 2 * pow2[j] /\ pow2[j] \in Nat \ {0}
      BY <2>1, Pow2Def
    <3>2. index \div (2 * pow2[j]) = (index \div pow2[j]) \div 2
      BY <3>1, DivHalf
    <3> QED BY <2>1, <3>1, <3>2
  <2>3. c[j + 1] = t.levels[k + 1][x]
    BY <2>1, <2>2 DEF Passes
  <2>4. q \in Nat /\ w \in Nat \ {0} /\ pow2[m + 1] = 2 * w
    BY <1>0, <2>1, Pow2Def
  <2> HIDE DEF q, w
  <2>5. q \div 2 \in Nat /\ q % 2 \in {0, 1}
    BY <2>4, Halves
  <2>6. y = 2 * x + (q % 2) /\ x \in 0 .. w - 1
    BY <2>4, <2>5, ModDouble, ModRange
  <2> HIDE DEF x, y
  <2>7. t.levels[k + 1][x] = hash_node(t.levels[k][2 * x], t.levels[k][2 * x + 1])
    BY <2>1, <2>6, Zenon DEF IsTree, w
  <2>8. c[j + 1] = IF q % 2 = 0 THEN hash_node(c[j], proof[j + 1]) ELSE hash_node(proof[j + 1], c[j])
    <3>1. c[j + 1] = Above(c[j], index, proof, j + 1)
      BY <2>1 DEF Climb
    <3> QED BY <2>1, <3>1, Zenon DEF Above, q
  <2>9. c[j] = t.levels[k][y]
    <3>1. CASE q % 2 = 0
      <4>1. hash_node(c[j], proof[j + 1]) = hash_node(t.levels[k][2 * x], t.levels[k][2 * x + 1])
        BY <2>3, <2>7, <2>8, <3>1, Zenon
      <4>2. c[j] = t.levels[k][2 * x]
        <5> DEFINE l == t.levels[k][2 * x]  r == t.levels[k][2 * x + 1]  p == proof[j + 1]
        <5> HIDE DEF l, r, p
        <5> QED BY <4>1, NodeInjective DEF l, r, p
      <4>3. y = 2 * x
        BY <2>6, <3>1
      <4> QED BY <4>2, <4>3
    <3>2. CASE q % 2 # 0
      <4>1. hash_node(proof[j + 1], c[j]) = hash_node(t.levels[k][2 * x], t.levels[k][2 * x + 1])
        BY <2>3, <2>7, <2>8, <3>2, Zenon
      <4>2. c[j] = t.levels[k][2 * x + 1]
        <5> DEFINE l == t.levels[k][2 * x]  r == t.levels[k][2 * x + 1]  p == proof[j + 1]
        <5> HIDE DEF l, r, p
        <5> QED BY <4>1, NodeInjective DEF l, r, p
      <4>3. y = 2 * x + 1
        BY <2>5, <2>6, <3>2
      <4> QED BY <4>2, <4>3
    <3> QED BY <3>1, <3>2
  <2> QED BY <2>9 DEF j, k, y, q
<1> HIDE DEF T
<1>3. \A k \in Nat : k \in T
  BY <1>1, <1>2, SetInduction DEF T
<1> QED BY <1>3 DEF T

\* Whatever verifies under the root, with any proof and at any index, is a
\* leaf of the tree, and the index is its place up to a multiple of the width.
LEMMA VerifiedLeaf ==
    ASSUME NEW t, NEW f, NEW d \in Nat, IsTree(t, f, d),
           NEW leaf, NEW index \in Nat, NEW proof, NEW depth, Len(proof) \in Nat,
           verify_merkle_proof(hash_leaf(leaf), index, proof, root(t), depth)
    PROVE  leaf = f[index % pow2[d]] /\ index % pow2[d] \in 0 .. pow2[d] - 1
<1> DEFINE n == Len(proof)  h == hash_leaf(leaf)
<1>1. PICK c : Climb(c, h, index, proof, n) /\ c[n] = root(t)
  BY VerifyIsClimb
<1>2. c[n] = t.levels[d][0]
  BY <1>1 DEF root, IsTree
<1> HIDE DEF n
<1>3. n \in Nat
  BY DEF n
<1>4. \A m \in Nat : Passes(t, d, c, n, index, m)
  <2> HIDE DEF h
  <2> QED BY <1>1, <1>2, <1>3, ClimbPasses
<1>5. c[0] = hash_leaf(leaf)
  BY <1>1 DEF Climb
<1>6. \A k \in Nat : pow2[k] \in Nat \ {0} /\ index \div pow2[k] \in Nat
  BY Pow2Def, DivMod
<1>7. ~ (n < d)
  <2> SUFFICES ASSUME n < d PROVE FALSE
    OBVIOUS
  <2> DEFINE k == d - n - 1  x == (index \div pow2[n - n]) % pow2[n]
  <2>1. n <= d /\ n <= n /\ n - n = 0 /\ d - n = k + 1 /\ k \in 0 .. d - 1 /\ d - k - 1 = n
    BY <1>3
  <2>2. x \in 0 .. pow2[n] - 1
    <3>1. index \div pow2[n - n] \in Nat /\ pow2[n] \in Nat \ {0}
      BY <1>3, <1>6, <2>1
    <3> QED BY <3>1, ModRange
  <2> HIDE DEF k, x
  <2>3. c[0] = t.levels[k + 1][x]
    BY <1>3, <1>4, <2>1 DEF Passes, x
  <2>4. t.levels[k + 1][x] = hash_node(t.levels[k][2 * x], t.levels[k][2 * x + 1])
    <3>1. k \in 0 .. d - 1 /\ x \in 0 .. pow2[d - k - 1] - 1
      BY <2>1, <2>2
    <3> QED BY <3>1, Zenon DEF IsTree
  <2>5. hash_leaf(leaf) = hash_node(t.levels[k][2 * x], t.levels[k][2 * x + 1])
    BY <1>5, <2>3, <2>4, Zenon
  <2> QED BY <2>5, LeafIsNotNode, Zenon
<1>8. ~ (d < n)
  <2> SUFFICES ASSUME d < n PROVE FALSE
    OBVIOUS
  <2> DEFINE k == n - d - 1  x == (index \div pow2[n - d]) % pow2[d]
  <2>1. d <= d /\ d <= n /\ d - d = 0 /\ n - d \in Nat /\ n - d = k + 1 /\ k \in 0 .. n - 1
    BY <1>3
  <2>2. x \in 0 .. pow2[d] - 1
    BY <1>6, <2>1, ModRange
  <2> HIDE DEF k, x
  <2>3. c[k + 1] = t.levels[0][x]
    BY <1>4, <2>1 DEF Passes, x
  <2>4. t.levels[0][x] = hash_leaf(f[x])
    BY <2>2, Zenon DEF IsTree
  <2>5. c[k + 1] = Above(c[k], index, proof, k + 1)
    BY <1>1, <2>1 DEF Climb
  <2>6. hash_leaf(f[x]) = hash_node(c[k], proof[k + 1]) \/ hash_leaf(f[x]) = hash_node(proof[k + 1], c[k])
    BY <2>3, <2>4, <2>5, Zenon DEF Above
  <2> QED BY <2>6, LeafIsNotNode, Zenon
<1>9. n = d /\ d <= d /\ d - d = 0 /\ pow2[0] = 1 /\ index \div 1 = index
  BY <1>3, <1>7, <1>8, Pow2Def
<1> DEFINE x == index % pow2[d]
<1>10. x \in 0 .. pow2[d] - 1
  BY <1>6, ModRange
<1>11. c[0] = t.levels[0][x]
  BY <1>4, <1>9 DEF Passes
<1> HIDE DEF x
<1>12. hash_leaf(leaf) = hash_leaf(f[x])
  BY <1>5, <1>10, <1>11, Zenon DEF IsTree
<1>13. leaf = f[x]
  BY <1>12, LeafInjective, Zenon
<1> QED BY <1>10, <1>13 DEF x
-----------------------------------------------------------------------------
Lists == FirstLists \cup Updates

\* The tree of a list: its leaves, and the indices that an index type has
\* for each of them.
Fits(t, f, d, K) ==
    /\ Leaves(f, d, K) /\ IsTree(t, f, d)
    /\ pow2[d] < INDEX_WIDTH /\ \E c \in Nat \ {0} : INDEX_WIDTH = c * pow2[d]

LEMMA BuiltTree ==
    ASSUME NEW list \in Lists
    PROVE  /\ list \in Seq(Addresses)
           /\ \E d : Fits(build(list), sorted_addr_hashes(list), d, keys_of(list))
<1>1. list \in Seq(Addresses) /\ list \in FirstLists \cup Updates
  BY ListsAssumption DEF Lists
<1>2. PICK d : /\ Leaves(sorted_addr_hashes(list), d, keys_of(list))
               /\ pow2[d] < 2 * (Len(list) + 2)
  BY <1>1, SortedLeaves
<1>3. d \in Nat /\ pow2[d] \in Nat /\ Len(list) \in Nat
  BY <1>1, <1>2, Pow2Def DEF Leaves
<1>4. PICK w \in 0 .. 64 : INDEX_WIDTH = pow2[w]
  BY WidthAssumption
<1>5. w \in Nat /\ pow2[w] \in Nat
  BY Pow2Def
<1>6. 2 * (Len(list) + 2) <= INDEX_WIDTH
  BY <1>1, WidthAssumption
<1>7. pow2[d] < pow2[w]
  BY <1>2, <1>3, <1>4, <1>5, <1>6
<1>8. \E c \in Nat \ {0} : pow2[w] = c * pow2[d]
  BY <1>3, <1>5, <1>7, Pow2Divides
<1>9. IsTree(build(list), sorted_addr_hashes(list), d)
  BY <1>2, BuildIsTree
<1>10. Fits(build(list), sorted_addr_hashes(list), d, keys_of(list))
  BY <1>2, <1>4, <1>7, <1>8, <1>9, Zenon DEF Fits
<1> QED BY <1>1, <1>10, Zenon

\* The keys of a list are the hashes of the addresses on it, besides the sentinels.
LEMMA KeysAreListed ==
    ASSUME NEW list \in Seq(Addresses), NEW a \in Addresses
    PROVE  hash_addr(a) \in keys_of(list) <=> a \in Listed(list)
<1>1. \A i \in 1 .. Len(list) : list[i] \in Addresses
  OBVIOUS
<1>2. hash_addr(a) # 0 /\ hash_addr(a) # MAX_KEY
  BY KeysAssumption
<1>3. \A b \in Addresses : hash_addr(b) = hash_addr(a) => b = a
  BY KeysAssumption
<1>4. ASSUME hash_addr(a) \in keys_of(list) PROVE a \in Listed(list)
  <2>1. PICK i \in 1 .. Len(list) : hash_addr(a) = hash_addr(list[i])
    BY <1>2, <1>4, Zenon DEF keys_of
  <2>2. list[i] = a
    BY <1>1, <1>3, <2>1, Zenon
  <2> QED BY <2>2, Zenon DEF Listed
<1>5. ASSUME a \in Listed(list) PROVE hash_addr(a) \in keys_of(list)
  <2>1. PICK i \in 1 .. Len(list) : a = list[i]
    BY <1>5, Zenon DEF Listed
  <2> QED BY <2>1, Zenon DEF keys_of
<1> QED BY <1>4, <1>5

LEMMA SanctionedIsListed ==
    ASSUME NEW list \in Lists, NEW a \in Addresses
    PROVE  is_sanctioned(build(list), a) <=> a \in Listed(list)
<1> DEFINE f == sorted_addr_hashes(list)
           K == keys_of(list)
<1>1. PICK d : Fits(build(list), f, d, K)
  BY BuiltTree
<1>2. list \in Seq(Addresses)
  BY BuiltTree
<1>3. build(list).sorted_addr_hashes = f
  BY <1>1 DEF Fits, IsTree
<1>4. /\ f = [i \in 0 .. pow2[d] - 1 |-> f[i]]
      /\ \A i \in 0 .. pow2[d] - 1 : f[i] \in K
      /\ \A x \in K : \E i \in 0 .. pow2[d] - 1 : f[i] = x
  BY <1>1, Zenon DEF Fits, Leaves
<1> HIDE DEF f, K
<1>5. DOMAIN f = 0 .. pow2[d] - 1
  BY <1>4
<1>6. is_sanctioned(build(list), a) <=> hash_addr(a) \in K
  BY <1>3, <1>4, <1>5, Zenon DEF is_sanctioned
<1> QED BY <1>2, <1>6, KeysAreListed DEF K

\* Which list a root stands for.
TreeOver(f) ==
    [sorted_addr_hashes |-> f,
     levels |-> CHOOSE L : AreLevels(L, f, tree_depth(Cardinality(DOMAIN f)), tree_depth(Cardinality(DOMAIN f))),
     depth  |-> tree_depth(Cardinality(DOMAIN f))]

LEMMA SameRoot ==
    ASSUME NEW A \in Lists, NEW B \in Lists
    PROVE  root(build(A)) = root(build(B)) <=> Listed(A) = Listed(B)
<1>1. A \in Seq(Addresses) /\ B \in Seq(Addresses)
  BY BuiltTree
<1>2. ASSUME Listed(A) = Listed(B) PROVE root(build(A)) = root(build(B))
  <2>1. ASSUME NEW X PROVE keys_of(X) = {hash_addr(x) : x \in Listed(X)} \cup {0, MAX_KEY}
    BY DEF keys_of, Listed
  <2>2. keys_of(A) = keys_of(B)
    BY <1>2, <2>1, Zenon
  <2>3. sorted_addr_hashes(A) = sorted_addr_hashes(B)
    BY <2>2, Zenon DEF sorted_addr_hashes
  <2>4. ASSUME NEW X PROVE build(X) = TreeOver(sorted_addr_hashes(X))
    BY Zenon DEF build, TreeOver, AreLevels, NodeOf
  <2> QED BY <2>3, <2>4, Zenon
<1>3. ASSUME root(build(A)) = root(build(B)) PROVE Listed(A) = Listed(B)
  <2> DEFINE f == sorted_addr_hashes(A)  g == sorted_addr_hashes(B)
  <2>1. PICK c : Fits(build(A), f, c, keys_of(A))
    BY BuiltTree
  <2>2. PICK d : Fits(build(B), g, d, keys_of(B))
    BY BuiltTree
  <2>3. f = g
    <3>1. Leaves(f, c, keys_of(A)) /\ Leaves(g, d, keys_of(B)) /\ IsTree(build(A), f, c) /\ IsTree(build(B), g, d)
      BY <2>1, <2>2, Zenon DEF Fits
    <3> HIDE DEF f, g
    <3> QED BY <3>1, <1>3, RootDetermines
  <2>4. \A a \in Addresses : is_sanctioned(build(A), a) <=> is_sanctioned(build(B), a)
    <3>1. build(A).sorted_addr_hashes = build(B).sorted_addr_hashes
      BY <2>1, <2>2, <2>3, Zenon DEF Fits, IsTree
    <3> QED BY <3>1, Zenon DEF is_sanctioned
  <2>5. \A a \in Addresses : a \in Listed(A) <=> a \in Listed(B)
    BY <2>4, SanctionedIsListed, Zenon
  <2>6. Listed(A) \subseteq Addresses /\ Listed(B) \subseteq Addresses
    BY <1>1 DEF Listed
  <2> QED BY <2>5, <2>6
<1> QED BY <1>2, <1>3
-----------------------------------------------------------------------------
\* Where a key falls among the leaves.
LEMMA Position ==
    ASSUME NEW f, NEW d, NEW K \in SUBSET Nat, Leaves(f, d, K), NEW key \in Nat, 0 < key, key < MAX_KEY
    PROVE  LET p == partition_point(f, key) IN
           /\ p \in 1 .. pow2[d] - 1
           /\ f[p - 1] < key /\ key <= f[p]
           /\ key \in K => f[p] = key
<1> DEFINE N == pow2[d]
           S == {i \in Nat : i \in 0 .. N - 1 /\ key <= f[i]}
<1>1. /\ f = [i \in 0 .. N - 1 |-> f[i]]
      /\ \A i \in 0 .. N - 1 : f[i] \in K
      /\ \A x \in K : \E i \in 0 .. N - 1 : f[i] = x
      /\ \A i, j \in 0 .. N - 1 : i < j => f[i] <= f[j]
      /\ f[0] = 0 /\ f[N - 1] = MAX_KEY /\ d \in Nat
  BY Zenon DEF Leaves
<1>2. N \in Nat \ {0}
  BY <1>1, Pow2Def
<1>3. MAX_KEY \in Nat
  BY KeysAssumption
<1> HIDE DEF N
<1>4. N - 1 \in S
  BY <1>1, <1>2, <1>3
<1>5. PICK p \in S : \A i \in S : p <= i
  BY <1>4, LeastElement
<1>6. p \in 0 .. N - 1 /\ key <= f[p] /\ p \in Nat
  BY <1>5
<1>7. \A i \in 0 .. N - 1 : f[i] < key <=> i < p
  <2> TAKE i \in 0 .. N - 1
  <2>1. f[i] \in Nat /\ f[p] \in Nat /\ i \in Nat
    BY <1>1, <1>2, <1>6
  <2>2. ASSUME f[i] < key PROVE i < p
    <3>1. ~ (p < i)
      <4> SUFFICES ASSUME p < i PROVE FALSE
        OBVIOUS
      <4>1. f[p] <= f[i]
        BY <1>1, <1>6
      <4> QED BY <4>1, <2>1, <2>2, <1>6
    <3>2. p # i
      BY <2>1, <2>2, <1>6
    <3> QED BY <3>1, <3>2, <2>1, <1>6
  <2>3. ASSUME i < p PROVE f[i] < key
    <3>1. ~ (p <= i)
      BY <2>3, <2>1, <1>6
    <3>2. ~ (key <= f[i])
      BY <3>1, <2>1, <1>5
    <3> QED BY <3>2, <2>1
  <2> QED BY <2>2, <2>3
<1> HIDE DEF S
<1>8. p # 0
  <2>1. 0 \in 0 .. N - 1
    BY <1>2
  <2>2. f[0] < key
    BY <1>1
  <2> QED BY <2>1, <2>2, <1>7, <1>6
<1>9. partition_point(f, key) = p
  <2>1. DOMAIN f = 0 .. N - 1
    BY <1>1
  <2>2. {i \in DOMAIN f : f[i] < key} = 0 .. p - 1
    <3>1. \A i : i \in 0 .. p - 1 <=> i \in 0 .. N - 1 /\ i < p
      BY <1>2, <1>6
    <3>2. \A i : i \in 0 .. p - 1 <=> i \in DOMAIN f /\ f[i] < key
      BY <1>7, <2>1, <3>1, Zenon
    <3> QED BY <3>2, Zenon
  <2>3. Cardinality(0 .. p - 1) = p
    <3>1. 0 \in Int /\ p - 1 \in Int
      BY <1>6
    <3>2. Cardinality(0 .. p - 1) = IF 0 > p - 1 THEN 0 ELSE (p - 1) - 0 + 1
      BY <3>1, FS_Interval
    <3> QED BY <3>2, <1>6, <1>8
  <2> QED BY <2>2, <2>3, Zenon DEF partition_point
<1>10. p \in 1 .. N - 1 /\ p - 1 \in 0 .. N - 1 /\ p - 1 < p
  BY <1>2, <1>6, <1>8
<1>11. f[p - 1] < key
  BY <1>7, <1>10
<1>12. ASSUME key \in K PROVE f[p] = key
  <2>1. PICK i \in 0 .. N - 1 : f[i] = key
    BY <1>1, <1>12
  <2>2. ~ (i < p) /\ i \in Nat
    BY <1>7, <2>1, <1>2
  <2>3. i = p \/ f[p] <= f[i]
    BY <2>2, <1>6, <1>1
  <2>4. f[p] \in Nat
    BY <1>1, <1>6
  <2> QED BY <2>1, <2>3, <2>4, <1>6
<1> QED BY <1>6, <1>9, <1>10, <1>11, <1>12 DEF N
-----------------------------------------------------------------------------
\* The server: what is served, and what the requests hold, was published.
\* A request at the lock holds a time no earlier than its list.
Held(r) ==
    /\ refreshes[r].at = "built" => \E v \in 1 .. Len(published) : refreshes[r].list = published[v]
    /\ refreshes[r].at = "lock" => /\ refreshes[r].now \in 1 .. Len(published)
                                   /\ \E v \in 1 .. refreshes[r].now : refreshes[r].list = published[v]

OracleInv ==
    /\ published \in Seq(Lists)
    /\ updated_at \in 1 .. Len(published)
    /\ \E v \in 1 .. updated_at : tree = build(published[v]) /\ address_count = Len(published[v])
    /\ DOMAIN refreshes = Refreshers
    /\ \A r \in Refreshers : Held(r)

LEMMA OracleInvInit == OracleInit => OracleInv
<1> SUFFICES ASSUME OracleInit PROVE OracleInv
  OBVIOUS
<1>1. PICK list \in FirstLists : /\ published = <<list>> /\ tree = build(list)
                                 /\ address_count = Len(list) /\ updated_at = 1
                                 /\ refreshes = [r \in Refreshers |-> Idle]
  BY DEF OracleInit
<1>2. list \in Lists
  BY DEF Lists
<1>3. published \in Seq(Lists) /\ Len(published) = 1 /\ published[1] = list
  BY <1>1, <1>2
<1>4. updated_at \in 1 .. Len(published) /\ 1 \in 1 .. updated_at
  BY <1>1, <1>3
<1>5. tree = build(published[1]) /\ address_count = Len(published[1])
  BY <1>1, <1>3, Zenon
<1>6. DOMAIN refreshes = Refreshers /\ \A r \in Refreshers : refreshes[r] = Idle
  BY <1>1
<1>7. \A r \in Refreshers : refreshes[r].at = "idle"
  BY <1>6 DEF Idle
<1>8. \A r \in Refreshers : Held(r)
  BY <1>7 DEF Held
<1> QED BY <1>3, <1>4, <1>5, <1>6, <1>8, Zenon DEF OracleInv

\* A request of which only the state changes.
LEMMA OneRequest ==
    ASSUME OracleInv, NEW r \in Refreshers, NEW x,
           refreshes' = [refreshes EXCEPT ![r] = x], published' = published, Held(r)'
    PROVE  DOMAIN refreshes' = Refreshers /\ \A s \in Refreshers : Held(s)'
<1>1. DOMAIN refreshes = Refreshers /\ \A s \in Refreshers : Held(s)
  BY DEF OracleInv
<1>2. DOMAIN refreshes' = Refreshers /\ \A s \in Refreshers : s # r => refreshes'[s] = refreshes[s]
  BY <1>1
<1>3. ASSUME NEW s \in Refreshers, s # r PROVE Held(s)'
  <2>1. Held(s) /\ refreshes'[s] = refreshes[s]
    BY <1>1, <1>2, <1>3
  <2> QED BY <2>1 DEF Held
<1> QED BY <1>2, <1>3

LEMMA OracleInvNext == OracleInv /\ [OracleNext]_oracleVars => OracleInv'
<1> SUFFICES ASSUME OracleInv, [OracleNext]_oracleVars PROVE OracleInv'
  OBVIOUS
<1>0. /\ published \in Seq(Lists) /\ updated_at \in 1 .. Len(published)
      /\ DOMAIN refreshes = Refreshers /\ \A r \in Refreshers : Held(r)
      /\ Len(published) \in Nat
  BY DEF OracleInv
<1>1. PICK v \in 1 .. updated_at : tree = build(published[v]) /\ address_count = Len(published[v])
  BY DEF OracleInv
<1>2. ASSUME NEW list \in Updates, Publish(list) PROVE OracleInv'
  <2>1. published' = Append(published, list) /\ UNCHANGED <<tree, address_count, updated_at, refreshes>> /\ list \in Lists
    BY <1>2 DEF Publish, Lists
  <2>2. /\ published' \in Seq(Lists) /\ Len(published') = Len(published) + 1
        /\ \A i \in 1 .. Len(published) : published'[i] = published[i]
    BY <2>1, <1>0
  <2>3. updated_at' \in 1 .. Len(published') /\ v \in 1 .. updated_at' /\ v \in 1 .. Len(published)
    BY <2>1, <2>2, <1>0
  <2>4. tree' = build(published'[v]) /\ address_count' = Len(published'[v])
    BY <2>1, <2>2, <2>3, <1>1
  <2>5. ASSUME NEW r \in Refreshers PROVE Held(r)'
    <3>1. refreshes'[r] = refreshes[r] /\ Held(r)
      BY <2>1, <1>0
    <3>2. ASSUME refreshes[r].at = "built"
          PROVE  \E i \in 1 .. Len(published') : refreshes[r].list = published'[i]
      <4>1. PICK i \in 1 .. Len(published) : refreshes[r].list = published[i]
        BY <3>1, <3>2 DEF Held
      <4>2. i \in 1 .. Len(published') /\ published'[i] = published[i]
        BY <2>2, <1>0
      <4> QED BY <4>1, <4>2, Zenon
    <3>3. ASSUME refreshes[r].at = "lock"
          PROVE  /\ refreshes[r].now \in 1 .. Len(published')
                 /\ \E i \in 1 .. refreshes[r].now : refreshes[r].list = published'[i]
      <4> DEFINE now == refreshes[r].now
      <4>1. now \in 1 .. Len(published)
        BY <3>1, <3>3 DEF Held
      <4>2. PICK i \in 1 .. now : refreshes[r].list = published[i]
        BY <3>1, <3>3 DEF Held
      <4> HIDE DEF now
      <4>3. i \in 1 .. Len(published) /\ now \in 1 .. Len(published')
        BY <4>1, <2>2, <1>0
      <4>4. published'[i] = published[i]
        BY <4>3, <2>2
      <4> QED BY <4>2, <4>3, <4>4, Zenon DEF now
    <3> QED BY <3>1, <3>2, <3>3 DEF Held
  <2>6. DOMAIN refreshes' = Refreshers
    BY <2>1, <1>0
  <2> QED BY <2>2, <2>3, <2>4, <2>5, <2>6, Zenon DEF OracleInv
\* The steps of a request that leave what is served alone.
<1>3. ASSUME NEW r \in Refreshers, NEW x, refreshes' = [refreshes EXCEPT ![r] = x],
             UNCHANGED <<tree, address_count, updated_at, published>>, Held(r)'
      PROVE  OracleInv'
  <2>1. DOMAIN refreshes' = Refreshers /\ \A s \in Refreshers : Held(s)'
    BY <1>3, OneRequest
  <2> QED BY <2>1, <1>3, <1>0, <1>1 DEF OracleInv
<1>4. ASSUME NEW r \in Refreshers, NEW secret, BeginRefresh(r, secret) PROVE OracleInv'
  <2>1. /\ refreshes' = [refreshes EXCEPT ![r] = [at |-> "load"]]
        /\ UNCHANGED <<tree, address_count, updated_at, published>>
    BY <1>4 DEF BeginRefresh
  <2>2. refreshes'[r] = [at |-> "load"]
    BY <2>1, <1>0
  <2>3. refreshes'[r].at = "load"
    BY <2>2
  <2>4. Held(r)'
    BY <2>3 DEF Held
  <2> QED BY <2>1, <2>4, <1>3
<1>5. ASSUME NEW r \in Refreshers, LoadAndBuild(r) PROVE OracleInv'
  <2> DEFINE x == [at |-> "built", list |-> InForce]
  <2>1. /\ refreshes' = [refreshes EXCEPT ![r] = x]
        /\ UNCHANGED <<tree, address_count, updated_at, published>>
    BY <1>5 DEF LoadAndBuild
  <2>2. refreshes'[r] = x /\ x.at = "built" /\ x.list = InForce
    BY <2>1, <1>0
  <2>3. InForce = published[Len(published)] /\ Len(published) \in 1 .. Len(published)
    BY <1>0 DEF InForce, Last
  <2> HIDE DEF x
  <2>4. Held(r)'
    BY <2>1, <2>2, <2>3 DEF Held
  <2> QED BY <2>1, <2>4, <1>3
<1>6. ASSUME NEW r \in Refreshers, LoadFails(r) PROVE OracleInv'
  <2>1. /\ refreshes' = [refreshes EXCEPT ![r] = Idle]
        /\ UNCHANGED <<tree, address_count, updated_at, published>>
    BY <1>6 DEF LoadFails
  <2>2. refreshes'[r] = Idle
    BY <2>1, <1>0
  <2>3. refreshes'[r].at = "idle"
    BY <2>2 DEF Idle
  <2>4. Held(r)'
    BY <2>3 DEF Held
  <2> QED BY <2>1, <2>4, <1>3
<1>7. ASSUME NEW r \in Refreshers, ReadClock(r) PROVE OracleInv'
  <2> DEFINE x == [at |-> "lock", list |-> refreshes[r].list, now |-> unix_now]
  <2>1. /\ refreshes' = [refreshes EXCEPT ![r] = x] /\ refreshes[r].at = "built"
        /\ UNCHANGED <<tree, address_count, updated_at, published>>
    BY <1>7 DEF ReadClock
  <2>2. refreshes'[r] = x /\ x.at = "lock" /\ x.list = refreshes[r].list /\ x.now = Len(published)
    BY <2>1, <1>0 DEF unix_now
  <2>3. \E i \in 1 .. Len(published) : refreshes[r].list = published[i]
    BY <2>1, <1>0 DEF Held
  <2>4. Len(published) \in 1 .. Len(published)
    BY <1>0
  <2> HIDE DEF x
  <2>5. Held(r)'
    BY <2>1, <2>2, <2>3, <2>4 DEF Held
  <2> QED BY <2>1, <2>5, <1>3
<1>8. ASSUME NEW r \in Refreshers, Install(r) PROVE OracleInv'
  <2>1. /\ refreshes[r].at = "lock" /\ tree' = build(refreshes[r].list)
        /\ address_count' = Len(refreshes[r].list) /\ updated_at' = refreshes[r].now
        /\ refreshes' = [refreshes EXCEPT ![r] = Idle] /\ published' = published
    BY <1>8 DEF Install
  <2>2. refreshes[r].now \in 1 .. Len(published)
    BY <2>1, <1>0 DEF Held
  <2>3. PICK i \in 1 .. refreshes[r].now : refreshes[r].list = published[i]
    BY <2>1, <1>0 DEF Held
  <2>4. refreshes'[r] = Idle
    BY <2>1, <1>0
  <2>5. refreshes'[r].at = "idle"
    BY <2>4 DEF Idle
  <2>6. Held(r)'
    BY <2>5 DEF Held
  <2>7. DOMAIN refreshes' = Refreshers /\ \A s \in Refreshers : Held(s)'
    BY <2>1, <2>6, OneRequest
  <2>8. i \in 1 .. updated_at' /\ tree' = build(published'[i]) /\ address_count' = Len(published'[i])
    BY <2>1, <2>3
  <2>9. published' \in Seq(Lists) /\ updated_at' \in 1 .. Len(published')
    BY <2>1, <2>2, <1>0
  <2> QED BY <2>7, <2>8, <2>9, Zenon DEF OracleInv
<1>9. ASSUME UNCHANGED oracleVars PROVE OracleInv'
  <2>1. UNCHANGED <<tree, address_count, updated_at, refreshes, published>>
    BY <1>9 DEF oracleVars
  <2>2. \A r \in Refreshers : Held(r)'
    BY <2>1, <1>0 DEF Held
  <2> QED BY <2>1, <2>2, <1>0, <1>1 DEF OracleInv
<1> QED BY <1>2, <1>4, <1>5, <1>6, <1>7, <1>8, <1>9 DEF OracleNext

LEMMA OracleInvariant == OracleSpec => []OracleInv
<1>1. OracleInit => OracleInv
  BY OracleInvInit
<1>2. OracleInv /\ [OracleNext]_oracleVars => OracleInv'
  BY OracleInvNext
<1> QED BY <1>1, <1>2, PTL DEF OracleSpec
-----------------------------------------------------------------------------
\* What is served, and the tree it is.
LEMMA Served ==
    ASSUME OracleInv
    PROVE  \E list \in Lists : \E f, d, K :
              /\ tree = build(list) /\ Fits(tree, f, d, K)
              /\ K \in SUBSET Nat /\ Sanctioned = Listed(list)
              /\ \A a \in Addresses : hash_addr(a) \in K <=> a \in Sanctioned
<1>1. PICK v \in 1 .. updated_at : tree = build(published[v]) /\ address_count = Len(published[v])
  BY DEF OracleInv
<1> DEFINE list == published[v]  K == keys_of(list)  f == sorted_addr_hashes(list)
<1>2. list \in Lists
  <2>1. published \in Seq(Lists) /\ updated_at \in 1 .. Len(published)
    BY DEF OracleInv
  <2>2. v \in 1 .. Len(published)
    BY <2>1
  <2> QED BY <2>1, <2>2
<1>3. tree = build(list)
  BY <1>1
<1> HIDE DEF list
<1>4. list \in Seq(Addresses) /\ \E d : Fits(build(list), f, d, K)
  BY <1>2, BuiltTree
<1>5. PICK d : Fits(tree, f, d, K)
  BY <1>3, <1>4
<1>6. K \in SUBSET Nat
  <2>1. K \in SUBSET (0 .. MAX_KEY)
    BY <1>4, Keys
  <2>2. \A x \in 0 .. MAX_KEY : x \in Nat
    BY KeysAssumption
  <2> HIDE DEF K
  <2> QED BY <2>1, <2>2
<1>7. \A a \in Addresses : is_sanctioned(tree, a) <=> a \in Listed(list)
  BY <1>2, <1>3, SanctionedIsListed
<1>8. Listed(list) \subseteq Addresses
  BY <1>4 DEF Listed
<1>9. Sanctioned = Listed(list)
  BY <1>7, <1>8, Zenon DEF Sanctioned
<1>10. \A a \in Addresses : hash_addr(a) \in K <=> a \in Sanctioned
  BY <1>4, <1>9, KeysAreListed
<1> HIDE DEF f, K
<1> QED BY <1>2, <1>3, <1>5, <1>6, <1>9, <1>10, Zenon

LEMMA RootNames == OracleInv => RootNamesList
<1> SUFFICES ASSUME OracleInv PROVE RootNamesList
  OBVIOUS
<1>1. PICK list \in Lists : tree = build(list) /\ Sanctioned = Listed(list)
  BY Served, Zenon
<1>2. \E v \in 1 .. updated_at : root(build(published[v])) = root(tree) /\ Len(published[v]) = address_count
  <2>1. PICK v \in 1 .. updated_at : tree = build(published[v]) /\ address_count = Len(published[v])
    BY DEF OracleInv
  <2> QED BY <2>1, Zenon
<1>3. ASSUME NEW v \in 1 .. Len(published)
      PROVE  root(build(published[v])) = root(tree) <=> Listed(published[v]) = Sanctioned
  <2>1. published[v] \in Lists
    BY DEF OracleInv
  <2> QED BY <1>1, <2>1, SameRoot
<1> QED BY <1>2, <1>3, Zenon DEF RootNamesList

\* The keys of addresses lie between the sentinels.
LEMMA KeyRange ==
    ASSUME NEW a \in Addresses
    PROVE  hash_addr(a) \in Nat /\ 0 < hash_addr(a) /\ hash_addr(a) < MAX_KEY
<1>1. hash_addr(a) \in 1 .. MAX_KEY - 1 /\ MAX_KEY \in Nat
  BY KeysAssumption
<1> QED BY <1>1

Witness(t, keys, p) ==
    [sanctions_root |-> root(t),
     left_leaf  |-> keys[p - 1], right_leaf  |-> keys[p],
     left_proof |-> inclusion_proof(t, p - 1), right_proof |-> inclusion_proof(t, p),
     left_index |-> p - 1, right_index |-> p,
     tree_depth |-> t.depth]

LEMMA WitnessIs ==
    ASSUME NEW t, NEW a, NEW p, p = partition_point(t.sorted_addr_hashes, hash_addr(a)),
           p # 0, p \in DOMAIN t.sorted_addr_hashes
    PROVE  non_membership_witness(t, a) = IF t.sorted_addr_hashes[p] = hash_addr(a) THEN NoWitness
                                          ELSE Witness(t, t.sorted_addr_hashes, p)
BY Zenon DEF non_membership_witness, Witness

LEMMA WidthIsNat == INDEX_WIDTH \in Nat \ {0}
<1>1. PICK m \in 0 .. 64 : INDEX_WIDTH = pow2[m]
  BY WidthAssumption
<1>2. m \in Nat /\ pow2[m] \in Nat \ {0}
  BY Pow2Def
<1> QED BY <1>1, <1>2

LEMMA Complete == OracleInv => WitnessesVerify
<1> SUFFICES ASSUME OracleInv, NEW a \in Addresses
             PROVE  LET w == non_membership_witness(tree, a) IN
                    IF a \in Sanctioned THEN w = NoWitness
                    ELSE w # NoWitness /\ w.sanctions_root = root(tree) /\ sanctions_circuit(a, w)
  BY Zenon DEF WitnessesVerify
<1>1. PICK f, d, K : /\ Fits(tree, f, d, K) /\ K \in SUBSET Nat
                     /\ hash_addr(a) \in K <=> a \in Sanctioned
  BY Served, Zenon
<1> DEFINE key == hash_addr(a)
           p == partition_point(f, key)
           w == Witness(tree, f, p)
<1>2. key \in Nat /\ 0 < key /\ key < MAX_KEY
  BY KeyRange
<1>3. Leaves(f, d, K) /\ IsTree(tree, f, d) /\ pow2[d] < INDEX_WIDTH
  BY <1>1, Zenon DEF Fits
<1>4. /\ tree.sorted_addr_hashes = f /\ tree.depth = d
      /\ d \in Nat /\ DOMAIN f = 0 .. pow2[d] - 1
      /\ \A i \in 0 .. pow2[d] - 1 : f[i] \in K
  <2>1. f = [i \in 0 .. pow2[d] - 1 |-> f[i]] /\ d \in Nat /\ \A i \in 0 .. pow2[d] - 1 : f[i] \in K
    BY <1>3 DEF Leaves
  <2>2. DOMAIN f = 0 .. pow2[d] - 1
    BY <2>1
  <2> QED BY <2>1, <2>2, <1>3 DEF IsTree
<1>5. pow2[d] \in Nat /\ INDEX_WIDTH \in Nat
  BY <1>4, Pow2Def, WidthIsNat
<1> HIDE DEF key
<1>6. /\ p \in 1 .. pow2[d] - 1
      /\ f[p - 1] < key /\ key <= f[p]
      /\ key \in K => f[p] = key
  BY <1>1, <1>2, <1>3, Position
<1> HIDE DEF p
<1>7. p # 0 /\ p \in DOMAIN f /\ p \in 0 .. pow2[d] - 1 /\ p - 1 \in 0 .. pow2[d] - 1
  BY <1>4, <1>5, <1>6
<1>8. non_membership_witness(tree, a) = IF f[p] = key THEN NoWitness ELSE w
  <2> HIDE DEF w
  <2> QED BY <1>4, <1>7, WitnessIs DEF p, key, w
<1>9. ASSUME a \in Sanctioned PROVE non_membership_witness(tree, a) = NoWitness
  <2>1. f[p] = key
    BY <1>1, <1>6, <1>9 DEF key
  <2> QED BY <1>8, <2>1
<1>10. ASSUME a \notin Sanctioned
       PROVE  /\ non_membership_witness(tree, a) = w /\ w # NoWitness
              /\ w.sanctions_root = root(tree) /\ sanctions_circuit(a, w)
  <2>1. f[p] # key /\ f[p] \in K /\ f[p] \in Nat
    BY <1>1, <1>4, <1>7, <1>10 DEF key
  <2>2. non_membership_witness(tree, a) = w
    BY <1>8, <2>1
  <2>3. /\ w.sanctions_root = root(tree)
        /\ w.left_leaf = f[p - 1] /\ w.right_leaf = f[p]
        /\ w.left_proof = inclusion_proof(tree, p - 1) /\ w.right_proof = inclusion_proof(tree, p)
        /\ w.left_index = p - 1 /\ w.right_index = p /\ w.tree_depth = tree.depth
    BY Zenon DEF Witness
  <2>4. "error" \notin DOMAIN w /\ "error" \in DOMAIN NoWitness
    BY DEF Witness, NoWitness
  <2>5. (p - 1 + 1) % INDEX_WIDTH = p
    <3>1. p - 1 + 1 = p /\ p \in 0 .. INDEX_WIDTH - 1 /\ INDEX_WIDTH \in Nat \ {0}
      BY <1>3, <1>5, <1>6
    <3> QED BY <3>1, ModSmall
  <2>6. between(f[p - 1], key, f[p])
    BY <1>2, <1>6, <2>1 DEF between
  <2>7. /\ verify_merkle_proof(hash_leaf(f[p - 1]), p - 1, inclusion_proof(tree, p - 1), root(tree), tree.depth)
        /\ verify_merkle_proof(hash_leaf(f[p]), p, inclusion_proof(tree, p), root(tree), tree.depth)
    BY <1>3, <1>4, <1>7, InclusionVerifies
  <2> HIDE DEF w
  <2>8. sanctions_circuit(a, w)
    BY <2>3, <2>5, <2>6, <2>7, Zenon DEF sanctions_circuit, key
  <2> QED BY <2>2, <2>3, <2>4, <2>8
<1> HIDE DEF w
<1> QED BY <1>9, <1>10, Zenon
-----------------------------------------------------------------------------
\* No witness at all clears an address on the list: both of its leaves are
\* leaves of the tree, and nothing lies between a leaf and the next, also
\* where the index of the next one has wrapped.
LEMMA NoForgery ==
    ASSUME NEW t, NEW f, NEW d, NEW K \in SUBSET Nat, Fits(t, f, d, K),
           NEW a \in Addresses, hash_addr(a) \in K,
           NEW w, w.sanctions_root = root(t), w.left_index \in Nat,
           Len(w.left_proof) \in Nat, Len(w.right_proof) \in Nat
    PROVE  ~ sanctions_circuit(a, w)
<1> SUFFICES ASSUME sanctions_circuit(a, w) PROVE FALSE
  OBVIOUS
<1> DEFINE key == hash_addr(a)  N == pow2[d]  i == w.left_index  j == w.right_index
           x == i % N  y == j % N
<1>1. /\ (i + 1) % INDEX_WIDTH = j
      /\ w.left_leaf < key /\ key < w.right_leaf
      /\ verify_merkle_proof(hash_leaf(w.left_leaf), i, w.left_proof, root(t), w.tree_depth)
      /\ verify_merkle_proof(hash_leaf(w.right_leaf), j, w.right_proof, root(t), w.tree_depth)
  BY Zenon DEF sanctions_circuit, between
<1>2. /\ IsTree(t, f, d) /\ d \in Nat /\ f[N - 1] = MAX_KEY
      /\ \A n \in 0 .. N - 1 : f[n] \in K
      /\ \A n \in K : \E m \in 0 .. N - 1 : f[m] = n
      /\ \A m, n \in 0 .. N - 1 : m < n => f[m] <= f[n]
  BY DEF Fits, Leaves
<1>3. N \in Nat \ {0}
  BY <1>2, Pow2Def
<1>4. PICK c \in Nat \ {0} : INDEX_WIDTH = c * N
  BY DEF Fits
<1>5. i \in Nat /\ i + 1 \in Nat /\ j \in Nat
  <2>1. i + 1 \in Nat
    OBVIOUS
  <2>2. (i + 1) % INDEX_WIDTH \in 0 .. INDEX_WIDTH - 1
    BY <2>1, WidthIsNat, ModRange
  <2>3. INDEX_WIDTH \in Nat
    BY WidthIsNat
  <2> QED BY <1>1, <2>1, <2>2, <2>3
<1>6. w.left_leaf = f[x] /\ x \in 0 .. N - 1
  BY <1>1, <1>2, <1>5, VerifiedLeaf
<1>7. w.right_leaf = f[y] /\ y \in 0 .. N - 1
  BY <1>1, <1>2, <1>5, VerifiedLeaf
<1>8. y = (i + 1) % N
  <2> HIDE DEF N, i, j
  <2>1. ((i + 1) % (c * N)) % N = (i + 1) % N
    BY <1>3, <1>5, ModMultiple
  <2> QED BY <1>1, <1>4, <2>1, Zenon DEF j
<1>9. y = (x + 1) % N
  <2> HIDE DEF N, i, j
  <2>1. ((i % N) + 1) % N = (i + 1) % N
    BY <1>3, <1>5, ModAdd
  <2> QED BY <1>8, <2>1, Zenon
<1>10. key \in Nat /\ key < MAX_KEY /\ MAX_KEY \in Nat
  BY KeyRange, KeysAssumption
<1>11. PICK q \in 0 .. N - 1 : f[q] = key
  BY <1>2
<1> HIDE DEF key, N, x, y, i, j
<1>12. f[x] < key /\ key < f[y]
  BY <1>1, <1>6, <1>7
<1>13. /\ f[x] \in Nat /\ f[y] \in Nat /\ q \in Nat /\ x \in Nat /\ y \in Nat
       /\ x # N - 1
  <2>1. f[x] \in Nat /\ f[y] \in Nat
    BY <1>2, <1>6, <1>7
  <2>2. x # N - 1
    BY <1>2, <1>10, <1>12, <2>1
  <2> QED BY <2>1, <2>2, <1>3, <1>6, <1>7, <1>11
<1>14. y = x + 1
  <2>1. x + 1 \in 0 .. N - 1
    BY <1>3, <1>6, <1>13
  <2> QED BY <2>1, <1>3, <1>9, ModSmall
<1>15. ~ (q <= x)
  <2> SUFFICES ASSUME q <= x PROVE FALSE
    OBVIOUS
  <2>1. q = x \/ f[q] <= f[x]
    BY <1>2, <1>6, <1>11, <1>13
  <2> QED BY <2>1, <1>10, <1>11, <1>12, <1>13
<1>16. ~ (y <= q)
  <2> SUFFICES ASSUME y <= q PROVE FALSE
    OBVIOUS
  <2>1. q = y \/ f[y] <= f[q]
    BY <1>2, <1>7, <1>11, <1>13
  <2> QED BY <2>1, <1>10, <1>11, <1>12, <1>13
<1> QED BY <1>13, <1>14, <1>15, <1>16

\* The paths that are tried are sequences.
LEMMA PathLengths ==
    ASSUME tree.depth \in Nat \ {0}, NEW p \in Paths
    PROVE  Len(p) \in Nat
<1> DEFINE d == tree.depth
           full == {inclusion_proof(tree, i) : i \in DOMAIN tree.sorted_addr_hashes}
<1>1. ASSUME NEW o \in full
      PROVE  \E S : o \in Seq(S) /\ Len(o) = d /\ o # << >>
  <2>1. PICK i \in DOMAIN tree.sorted_addr_hashes : o = inclusion_proof(tree, i)
    BY <1>1
  <2> DEFINE sibling(k) == tree.levels[k - 1][IF (i \div pow2[k - 1]) % 2 = 0
                                                THEN (i \div pow2[k - 1]) + 1 ELSE (i \div pow2[k - 1]) - 1]
  <2>2. o = [k \in 1 .. d |-> sibling(k)]
    BY <2>1 DEF inclusion_proof
  <2> DEFINE S == {sibling(k) : k \in 1 .. d}
  <2>3. \A k \in 1 .. d : sibling(k) \in S
    OBVIOUS
  <2> HIDE DEF sibling, S, full, d
  <2>4. d \in Nat \ {0}
    BY DEF d
  <2>5. o \in [1 .. d -> S]
    BY <2>2, <2>3
  <2>6. o \in Seq(S) /\ Len(o) = d
    BY <2>4, <2>5
  <2> QED BY <2>4, <2>6
<1>2. CASE p \in full
  BY <1>1, <1>2
<1>3. CASE p \in {Tail(o) : o \in full}
  <2> HIDE DEF full, d
  <2>1. PICK o \in full : p = Tail(o)
    BY <1>3
  <2>2. PICK S : o \in Seq(S) /\ Len(o) = d /\ o # << >>
    BY <1>1
  <2>3. Tail(o) \in Seq(S)
    BY <2>2
  <2> QED BY <2>1, <2>3
<1>4. CASE p \in {Front(o) : o \in full}
  <2> HIDE DEF full, d
  <2>1. PICK o \in full : p = Front(o)
    BY <1>4
  <2>2. PICK S : o \in Seq(S) /\ Len(o) = d /\ o # << >>
    BY <1>1
  <2>3. SubSeq(o, 1, Len(o) - 1) \in Seq(S)
    BY <2>2
  <2> QED BY <2>1, <2>3 DEF Front
<1> QED BY <1>2, <1>3, <1>4 DEF Paths

LEMMA Sound == OracleInv => CircuitSound
<1> SUFFICES ASSUME OracleInv, NEW a \in Sanctioned, NEW l \in Openings, NEW r \in Openings,
                    sanctions_circuit(a, [sanctions_root |-> root(tree),
                                          left_leaf |-> l.leaf, right_leaf |-> r.leaf,
                                          left_proof |-> l.proof, right_proof |-> r.proof,
                                          left_index |-> l.index, right_index |-> r.index,
                                          tree_depth |-> Len(l.proof)])
             PROVE  FALSE
  BY Zenon DEF CircuitSound, Cleared
<1>1. PICK f, d, K : /\ Fits(tree, f, d, K) /\ K \in SUBSET Nat
                     /\ \A b \in Addresses : hash_addr(b) \in K <=> b \in Sanctioned
  BY Served, Zenon
<1>2. a \in Addresses /\ hash_addr(a) \in K
  <2>1. a \in Addresses
    BY DEF Sanctioned
  <2> QED BY <2>1, <1>1
<1>3. tree.depth \in Nat \ {0}
  BY <1>1 DEF Fits, Leaves, IsTree
<1>4. ASSUME NEW o \in Openings
      PROVE  o.proof \in Paths /\ o.index \in 0 .. INDEX_WIDTH - 1
  <2>1. PICK t \in (0 .. MAX_KEY) \X (0 .. INDEX_WIDTH - 1) \X Paths :
               o = [leaf |-> t[1], index |-> t[2], proof |-> t[3]]
    BY Zenon DEF Openings
  <2> QED BY <2>1
<1>5. l.proof \in Paths /\ r.proof \in Paths /\ l.index \in 0 .. INDEX_WIDTH - 1
  BY <1>4
<1>6. Len(l.proof) \in Nat /\ Len(r.proof) \in Nat
  BY <1>3, <1>5, PathLengths
<1>7. l.index \in Nat
  BY <1>5, WidthIsNat
<1> DEFINE w == [sanctions_root |-> root(tree),
                 left_leaf |-> l.leaf, right_leaf |-> r.leaf,
                 left_proof |-> l.proof, right_proof |-> r.proof,
                 left_index |-> l.index, right_index |-> r.index,
                 tree_depth |-> Len(l.proof)]
<1>8. /\ w.sanctions_root = root(tree) /\ w.left_index \in Nat
      /\ Len(w.left_proof) \in Nat /\ Len(w.right_proof) \in Nat
  BY <1>6, <1>7
<1>9. sanctions_circuit(a, w)
  OBVIOUS
<1> HIDE DEF w
<1> QED BY <1>1, <1>2, <1>8, <1>9, NoForgery
-----------------------------------------------------------------------------
(***************************************************************************)
(* What the oracle serves belongs together and comes from a list that was  *)
(* published by the time it reports, and the root stands for exactly the   *)
(* addresses on the list (SanctionsMerkleTree::build, refresh).            *)
(***************************************************************************)
THEOREM OracleRootNamesList == OracleSpec => []RootNamesList
BY OracleInvariant, RootNames, PTL

(***************************************************************************)
(* The oracle has a witness that the circuit accepts for every address off *)
(* the list, and none for an address on it (non_membership_witness).       *)
(***************************************************************************)
THEOREM OracleWitnessesVerify == OracleSpec => []WitnessesVerify
BY OracleInvariant, Complete, PTL

(***************************************************************************)
(* The circuit accepts no witness for an address on the list, whatever it  *)
(* is made of (main in guest-privacy/src/bin/sanctions.rs).                *)
(***************************************************************************)
THEOREM OracleCircuitSound == OracleSpec => []CircuitSound
BY OracleInvariant, Sound, PTL
=============================================================================
