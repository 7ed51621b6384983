------------------------ MODULE ObscuraBridge_proofs ------------------------
(***************************************************************************)
(* The rollup: what insertions do to the record of module CommitmentTree,  *)
(* the invariants of the shielded pool that rest on it, and those of the   *)
(* bridge over the pool, for every depth and ring size, every hash         *)
(* function, every width of a balance, and every set of deposits, blocks,  *)
(* slots and messages.                                                     *)
(***************************************************************************)
EXTENDS ObscuraBridge, NatLemmas
-----------------------------------------------------------------------------
\* The recursive functions of module MerkleTree have the values their
\* definitions say, by induction along their domains.
IsPow2(f, n) == f = [i \in 0 .. n |-> IF i = 0 THEN 1 ELSE 2 * f[i - 1]]

LEMMA Pow2Exists ==
    ASSUME NEW n \in Nat
    PROVE  \E f : IsPow2(f, n)
<1> DEFINE T == {k \in Nat : \E f : IsPow2(f, k)}
<1>1. 0 \in T
  <2>1. IsPow2([i \in 0 .. 0 |-> 1], 0)
    BY DEF IsPow2
  <2> QED BY <2>1
<1>2. ASSUME NEW k \in T PROVE k + 1 \in T
  <2>1. PICK g : IsPow2(g, k)
    OBVIOUS
  <2> DEFINE f == [i \in 0 .. k + 1 |-> IF i = k + 1 THEN 2 * g[k] ELSE g[i]]
  <2>2. k \in Nat /\ k \in 0 .. k
    OBVIOUS
  <2>3. /\ \A i \in 0 .. k : f[i] = g[i]
        /\ f[k + 1] = 2 * g[k]
    BY <2>2
  <2>4. \A i \in 0 .. k : g[i] = IF i = 0 THEN 1 ELSE 2 * g[i - 1]
    BY <2>1 DEF IsPow2
  <2>5. ASSUME NEW i \in 0 .. k + 1 PROVE f[i] = IF i = 0 THEN 1 ELSE 2 * f[i - 1]
    <3>1. CASE i = k + 1
      <4>1. i # 0 /\ i - 1 = k
        BY <3>1, <2>2
      <4> QED BY <4>1, <3>1, <2>2, <2>3
    <3>2. CASE i \in 0 .. k
      <4>1. i # 0 => i - 1 \in 0 .. k
        BY <3>2, <2>2
      <4> QED BY <4>1, <3>2, <2>3, <2>4
    <3> QED BY <3>1, <3>2, <2>2
  <2>6. IsPow2(f, k + 1)
    <3>1. f = [i \in 0 .. k + 1 |-> f[i]]
      OBVIOUS
    <3> HIDE DEF f
    <3> QED BY <3>1, <2>5 DEF IsPow2
  <2> QED BY <2>2, <2>6
<1> HIDE DEF T
<1>3. n \in T
  BY <1>1, <1>2, SetInduction DEF T
<1> QED BY <1>3 DEF T

LEMMA Pow2Facts ==
    /\ pow2[0] = 1
    /\ \A l \in Levels : pow2[l + 1] = 2 * pow2[l]
    /\ \A l \in 0 .. TREE_DEPTH : pow2[l] \in Nat \ {0}
    /\ Capacity \in Nat \ {0}
<1>0. TREE_DEPTH \in Nat \ {0}
  BY DepthAssumption
<1>1. PICK f : IsPow2(f, TREE_DEPTH)
  BY <1>0, Pow2Exists
<1>2. pow2 = CHOOSE g : IsPow2(g, TREE_DEPTH)
  BY DEF pow2, IsPow2
<1>3. IsPow2(pow2, TREE_DEPTH)
  BY <1>1, <1>2
<1> DEFINE p == pow2
<1>4. \A i \in 0 .. TREE_DEPTH : p[i] = IF i = 0 THEN 1 ELSE 2 * p[i - 1]
  BY <1>3 DEF IsPow2
<1> HIDE DEF p
<1>5. p[0] = 1 /\ \A l \in Levels : p[l + 1] = 2 * p[l]
  <2>1. \A l \in Levels : l + 1 \in 0 .. TREE_DEPTH /\ l + 1 # 0 /\ (l + 1) - 1 = l
    BY <1>0 DEF Levels
  <2>2. 0 \in 0 .. TREE_DEPTH
    BY <1>0
  <2> QED BY <2>1, <2>2, <1>4
<1> DEFINE T == {l \in Nat : l <= TREE_DEPTH => p[l] \in Nat \ {0}}
<1>6. 0 \in T
  BY <1>5
<1>7. ASSUME NEW l \in T PROVE l + 1 \in T
  <2> SUFFICES ASSUME l + 1 <= TREE_DEPTH PROVE p[l + 1] \in Nat \ {0}
    OBVIOUS
  <2>1. l \in Levels /\ p[l] \in Nat \ {0}
    BY <1>0 DEF Levels
  <2> QED BY <2>1, <1>5
<1> HIDE DEF T
<1>8. \A l \in 0 .. TREE_DEPTH : p[l] \in Nat \ {0}
  <2>1. \A l \in Nat : l \in T
    BY <1>6, <1>7, SetInduction DEF T
  <2>2. \A l \in 0 .. TREE_DEPTH : l \in Nat /\ l <= TREE_DEPTH
    BY <1>0
  <2> QED BY <2>1, <2>2 DEF T
<1> QED BY <1>0, <1>5, <1>8 DEF p, Capacity

IsZeros(f, n) == f = [i \in 0 .. n |-> IF i = 0 THEN Zero32
                                       ELSE LET below == f[i - 1] IN hash_pair(below, below)]

LEMMA ZerosExist ==
    ASSUME NEW n \in Nat
    PROVE  \E f : IsZeros(f, n)
<1> DEFINE T == {k \in Nat : \E f : IsZeros(f, k)}
<1>1. 0 \in T
  <2>1. IsZeros([i \in 0 .. 0 |-> Zero32], 0)
    BY DEF IsZeros
  <2> QED BY <2>1
<1>2. ASSUME NEW k \in T PROVE k + 1 \in T
  <2>1. PICK g : IsZeros(g, k)
    OBVIOUS
  <2> DEFINE f == [i \in 0 .. k + 1 |-> IF i = k + 1 THEN hash_pair(g[k], g[k]) ELSE g[i]]
  <2>2. k \in Nat
    OBVIOUS
  <2>3. f[k + 1] = hash_pair(g[k], g[k]) /\ \A i \in 0 .. k : f[i] = g[i]
    BY <2>2
  <2>4. \A i \in 0 .. k : g[i] = IF i = 0 THEN Zero32 ELSE hash_pair(g[i - 1], g[i - 1])
    BY <2>1 DEF IsZeros
  <2>5. ASSUME NEW i \in 0 .. k + 1 PROVE f[i] = IF i = 0 THEN Zero32 ELSE hash_pair(f[i - 1], f[i - 1])
    <3>1. CASE i = k + 1
      <4>1. i # 0 /\ i - 1 = k /\ k \in 0 .. k
        BY <3>1, <2>2
      <4> QED BY <4>1, <3>1, <2>3
    <3>2. CASE i \in 0 .. k
      <4>1. i # 0 => i - 1 \in 0 .. k
        BY <3>2, <2>2
      <4> QED BY <4>1, <3>2, <2>3, <2>4
    <3> QED BY <3>1, <3>2, <2>2
  <2>6. IsZeros(f, k + 1)
    <3>1. f = [i \in 0 .. k + 1 |-> f[i]]
      OBVIOUS
    <3> HIDE DEF f
    <3> QED BY <3>1, <2>5 DEF IsZeros
  <2> QED BY <2>2, <2>6
<1> HIDE DEF T
<1>3. n \in T
  BY <1>1, <1>2, SetInduction DEF T
<1> QED BY <1>3 DEF T

LEMMA ZeroFacts ==
    /\ zero_value[0] = Zero32
    /\ \A l \in Levels : zero_value[l + 1] = hash_pair(zero_value[l], zero_value[l])
<1>0. TREE_DEPTH \in Nat \ {0}
  BY DepthAssumption
<1>1. zero_value = CHOOSE g : IsZeros(g, TREE_DEPTH)
  BY DEF zero_value, IsZeros
<1>2. IsZeros(zero_value, TREE_DEPTH)
  BY <1>0, <1>1, ZerosExist
<1> DEFINE z == zero_value
<1>3. \A i \in 0 .. TREE_DEPTH : z[i] = IF i = 0 THEN Zero32 ELSE hash_pair(z[i - 1], z[i - 1])
  BY <1>2 DEF IsZeros
<1> HIDE DEF z
<1>4. \A l \in Levels : l + 1 \in 0 .. TREE_DEPTH /\ l + 1 # 0 /\ (l + 1) - 1 = l
  BY <1>0 DEF Levels
<1>5. 0 \in 0 .. TREE_DEPTH
  BY <1>0
<1> QED BY <1>3, <1>4, <1>5 DEF z
-----------------------------------------------------------------------------
\* The nodes of the complete tree, level by level from the leaves: the
\* first of level l, all of them, and the one above leaf n.
first(l) == pow2[TREE_DEPTH - l]
Level(l) == first(l) .. 2 * first(l) - 1
above(n, l) == (Capacity + n) \div pow2[l]

LEMMA LevelFacts ==
    /\ first(0) = Capacity /\ first(TREE_DEPTH) = 1
    /\ \A l \in 0 .. TREE_DEPTH : first(l) \in Nat \ {0} /\ first(l) <= Capacity
    /\ \A l \in Levels : /\ l \in 0 .. TREE_DEPTH /\ l + 1 \in 0 .. TREE_DEPTH
                         /\ first(l) = 2 * first(l + 1)
<1>0. TREE_DEPTH \in Nat \ {0}
  BY DepthAssumption
<1>1. first(0) = Capacity /\ first(TREE_DEPTH) = 1
  <2>1. TREE_DEPTH - 0 = TREE_DEPTH /\ TREE_DEPTH - TREE_DEPTH = 0
    BY <1>0
  <2> QED BY <2>1, Pow2Facts DEF first, Capacity
<1>2. \A l \in 0 .. TREE_DEPTH : first(l) \in Nat \ {0}
  <2>1. \A l \in 0 .. TREE_DEPTH : TREE_DEPTH - l \in 0 .. TREE_DEPTH
    BY <1>0
  <2> QED BY <2>1, Pow2Facts DEF first
<1>3. ASSUME NEW l \in Levels
      PROVE  l \in 0 .. TREE_DEPTH /\ l + 1 \in 0 .. TREE_DEPTH /\ first(l) = 2 * first(l + 1)
  <2>1. /\ l \in 0 .. TREE_DEPTH /\ l + 1 \in 0 .. TREE_DEPTH
        /\ TREE_DEPTH - (l + 1) \in Levels /\ (TREE_DEPTH - (l + 1)) + 1 = TREE_DEPTH - l
    BY <1>0 DEF Levels
  <2> QED BY <2>1, Pow2Facts DEF first
<1> DEFINE T == {l \in Nat : l <= TREE_DEPTH => first(l) <= Capacity}
<1>4. 0 \in T
  BY <1>1, Pow2Facts
<1>5. ASSUME NEW l \in T PROVE l + 1 \in T
  <2> SUFFICES ASSUME l + 1 <= TREE_DEPTH PROVE first(l + 1) <= Capacity
    OBVIOUS
  <2>1. l \in Levels /\ first(l) <= Capacity
    BY <1>0 DEF Levels
  <2>2. first(l) = 2 * first(l + 1) /\ first(l + 1) \in Nat /\ Capacity \in Nat
    BY <2>1, <1>2, <1>3, Pow2Facts
  <2> QED BY <2>1, <2>2
<1> HIDE DEF T
<1>6. \A l \in 0 .. TREE_DEPTH : first(l) <= Capacity
  <2>1. \A l \in Nat : l \in T
    BY <1>4, <1>5, SetInduction DEF T
  <2>2. \A l \in 0 .. TREE_DEPTH : l \in Nat /\ l <= TREE_DEPTH
    BY <1>0
  <2> QED BY <2>1, <2>2 DEF T
<1> QED BY <1>1, <1>2, <1>3, <1>6

\* The path from leaf n up: each node is half the one below it, and is a
\* left child exactly when is_left says so.
LEMMA PathFacts ==
    ASSUME NEW n \in 0 .. Capacity - 1
    PROVE  /\ above(n, 0) = Capacity + n
           /\ above(n, TREE_DEPTH) = 1
           /\ \A l \in 0 .. TREE_DEPTH : above(n, l) \in Level(l) /\ above(n, l) \in Nat
           /\ \A l \in Levels : /\ above(n, l + 1) = above(n, l) \div 2
                                /\ is_left(n, l) <=> above(n, l) % 2 = 0
<1>0. TREE_DEPTH \in Nat \ {0} /\ Capacity \in Nat \ {0} /\ n \in Nat
  BY DepthAssumption, Pow2Facts
<1>1. above(n, 0) = Capacity + n /\ n \div pow2[0] = n
  <2>1. pow2[0] = 1 /\ Capacity + n \in Nat
    BY <1>0, Pow2Facts
  <2>2. \A m \in Nat : m \div 1 = m
    OBVIOUS
  <2> QED BY <2>1, <2>2, <1>0 DEF above
<1>2. ASSUME NEW l \in Levels, NEW m \in Nat
      PROVE  m \div pow2[l + 1] = (m \div pow2[l]) \div 2
  <2>1. pow2[l + 1] = 2 * pow2[l] /\ pow2[l] \in Nat \ {0}
    BY Pow2Facts, LevelFacts
  <2> QED BY <2>1, DivHalf
<1>3. \A l \in Levels : above(n, l + 1) = above(n, l) \div 2
  <2>1. Capacity + n \in Nat
    BY <1>0
  <2> QED BY <2>1, <1>2 DEF above
<1> DEFINE shr(l) == n \div pow2[l]
           T == {l \in Nat : l <= TREE_DEPTH => /\ shr(l) \in 0 .. first(l) - 1
                                                /\ above(n, l) = first(l) + shr(l)}
<1>4. 0 \in T
  BY <1>0, <1>1, LevelFacts
<1>5. ASSUME NEW l \in T PROVE l + 1 \in T
  <2> SUFFICES ASSUME l + 1 <= TREE_DEPTH
               PROVE  shr(l + 1) \in 0 .. first(l + 1) - 1 /\ above(n, l + 1) = first(l + 1) + shr(l + 1)
    OBVIOUS
  <2>1. l \in Levels /\ shr(l) \in 0 .. first(l) - 1 /\ above(n, l) = first(l) + shr(l)
    BY <1>0 DEF Levels
  <2>2. shr(l + 1) = shr(l) \div 2 /\ above(n, l + 1) = above(n, l) \div 2
    BY <2>1, <1>0, <1>2, <1>3
  <2>3. first(l) = 2 * first(l + 1) /\ first(l + 1) \in Nat \ {0}
    BY <2>1, LevelFacts
  <2> HIDE DEF shr
  <2>4. \A f \in Nat \ {0} : \A x \in 0 .. 2 * f - 1 : x \div 2 \in 0 .. f - 1 /\ (2 * f + x) \div 2 = f + (x \div 2)
    OBVIOUS
  <2> QED BY <2>1, <2>2, <2>3, <2>4
<1>6. ASSUME NEW l \in 0 .. TREE_DEPTH
      PROVE  shr(l) \in 0 .. first(l) - 1 /\ above(n, l) = first(l) + shr(l) /\ first(l) \in Nat \ {0}
  <2> HIDE DEF T
  <2>1. \A k \in Nat : k \in T
    BY <1>4, <1>5, SetInduction DEF T
  <2>2. l \in Nat /\ l <= TREE_DEPTH
    BY <1>0
  <2> QED BY <2>1, <2>2, LevelFacts DEF T
<1>7. ASSUME NEW l \in 0 .. TREE_DEPTH PROVE above(n, l) \in Level(l) /\ above(n, l) \in Nat
  <2>1. \A f \in Nat \ {0} : \A x \in 0 .. f - 1 : f + x \in f .. 2 * f - 1 /\ f + x \in Nat
    OBVIOUS
  <2> HIDE DEF shr
  <2> QED BY <2>1, <1>6 DEF Level
<1>8. ASSUME NEW l \in Levels PROVE is_left(n, l) <=> above(n, l) % 2 = 0
  <2>1. above(n, l) = 2 * first(l + 1) + shr(l) /\ shr(l) \in Nat /\ first(l + 1) \in Nat
    BY <1>6, LevelFacts
  <2>2. is_left(n, l) <=> shr(l) % 2 = 0
    BY DEF is_left
  <2> HIDE DEF shr
  <2>3. \A f, x \in Nat : (2 * f + x) % 2 = x % 2
    OBVIOUS
  <2> QED BY <2>1, <2>2, <2>3
<1>9. above(n, TREE_DEPTH) = 1
  <2>1. TREE_DEPTH \in 0 .. TREE_DEPTH /\ first(TREE_DEPTH) = 1
    BY <1>0, LevelFacts
  <2> QED BY <2>1, <1>7 DEF Level
<1> QED BY <1>1, <1>3, <1>7, <1>8, <1>9
-----------------------------------------------------------------------------
\* The path from any position, also one before the first leaf.
LEMMA AboveHalf ==
    ASSUME NEW n \in Int, Capacity + n \in Nat
    PROVE  /\ above(n, 0) = Capacity + n
           /\ \A l \in 0 .. TREE_DEPTH : above(n, l) \in Nat
           /\ \A l \in Levels : above(n, l + 1) = above(n, l) \div 2
<1> DEFINE m == Capacity + n
<1>0. m \in Nat
  OBVIOUS
<1> HIDE DEF m
<1>1. m \div pow2[0] = m
  <2>1. \A k \in Nat : k \div 1 = k
    OBVIOUS
  <2> QED BY <2>1, <1>0, Pow2Facts
<1>2. \A l \in 0 .. TREE_DEPTH : m \div pow2[l] \in Nat
  BY <1>0, Pow2Facts, DivMod
<1>3. ASSUME NEW l \in Levels PROVE m \div pow2[l + 1] = (m \div pow2[l]) \div 2
  <2>1. pow2[l + 1] = 2 * pow2[l] /\ pow2[l] \in Nat \ {0}
    BY Pow2Facts, LevelFacts
  <2> QED BY <2>1, <1>0, DivHalf
<1> QED BY <1>1, <1>2, <1>3 DEF m, above

\* The next path goes through the same node or through the one to its right.
LEMMA AboveNext ==
    ASSUME NEW n \in Nat, NEW l \in 0 .. TREE_DEPTH
    PROVE  above(n + 1, l) = above(n, l) \/ above(n + 1, l) = above(n, l) + 1
<1>0. TREE_DEPTH \in Nat /\ Capacity \in Nat
  BY DepthAssumption, Pow2Facts
<1> DEFINE T == {k \in Nat : k <= TREE_DEPTH =>
                   above(n + 1, k) = above(n, k) \/ above(n + 1, k) = above(n, k) + 1}
<1>1. /\ n + 1 \in Int /\ Capacity + (n + 1) \in Nat
      /\ n \in Int /\ Capacity + n \in Nat
  BY <1>0
<1>2. 0 \in T
  BY <1>0, <1>1, AboveHalf
<1>3. ASSUME NEW k \in T PROVE k + 1 \in T
  <2> SUFFICES ASSUME k + 1 <= TREE_DEPTH
               PROVE  above(n + 1, k + 1) = above(n, k + 1) \/ above(n + 1, k + 1) = above(n, k + 1) + 1
    OBVIOUS
  <2>1. /\ k \in Levels /\ k \in 0 .. TREE_DEPTH
        /\ above(n + 1, k) = above(n, k) \/ above(n + 1, k) = above(n, k) + 1
    BY <1>0 DEF Levels
  <2>2. /\ above(n + 1, k + 1) = above(n + 1, k) \div 2
        /\ above(n, k + 1) = above(n, k) \div 2
        /\ above(n, k) \in Nat
    BY <2>1, <1>1, AboveHalf
  <2>3. \A a \in Nat : (a + 1) \div 2 = a \div 2 \/ (a + 1) \div 2 = (a \div 2) + 1
    OBVIOUS
  <2> QED BY <2>1, <2>2, <2>3
<1> HIDE DEF T
<1>4. \A k \in Nat : k \in T
  BY <1>2, <1>3, SetInduction DEF T
<1>5. l \in Nat /\ l <= TREE_DEPTH
  BY <1>0
<1> QED BY <1>4, <1>5 DEF T

-----------------------------------------------------------------------------
\* The heap of the off-chain rebuild, from position lo on.
IsHeap(f, leaves, lo) ==
    f = [pos \in lo .. 2 * Capacity - 1 |->
            IF pos >= Capacity
              THEN IF pos - Capacity < Len(leaves) THEN leaves[pos - Capacity + 1]
                                                   ELSE zero_value[0]
              ELSE hash_pair(f[2 * pos], f[2 * pos + 1])]

LEMMA HeapExists ==
    ASSUME NEW leaves
    PROVE  \E f : IsHeap(f, leaves, 1)
<1>0. Capacity \in Nat \ {0}
  BY Pow2Facts
<1> DEFINE leaf(pos) == IF pos - Capacity < Len(leaves) THEN leaves[pos - Capacity + 1]
                                                        ELSE zero_value[0]
           T == {k \in Nat : k < Capacity => \E f : IsHeap(f, leaves, Capacity - k)}
<1>1. 0 \in T
  <2> DEFINE f == [pos \in Capacity .. 2 * Capacity - 1 |-> leaf(pos)]
  <2>1. \A pos \in Capacity .. 2 * Capacity - 1 :
            f[pos] = IF pos >= Capacity THEN leaf(pos) ELSE hash_pair(f[2 * pos], f[2 * pos + 1])
    <3> HIDE DEF leaf
    <3> QED BY <1>0
  <2>2. f = [pos \in Capacity .. 2 * Capacity - 1 |-> f[pos]]
    OBVIOUS
  <2> HIDE DEF f
  <2>3. IsHeap(f, leaves, Capacity)
    BY <2>1, <2>2 DEF IsHeap
  <2>4. Capacity - 0 = Capacity
    BY <1>0
  <2> QED BY <2>3, <2>4
<1>2. ASSUME NEW k \in T PROVE k + 1 \in T
  <2> SUFFICES ASSUME k + 1 < Capacity PROVE \E f : IsHeap(f, leaves, Capacity - (k + 1))
    OBVIOUS
  <2> DEFINE lo == Capacity - (k + 1)
  <2>1. /\ k \in Nat /\ lo \in 1 .. Capacity - 1 /\ Capacity - k = lo + 1
    BY <1>0
  <2>2. PICK g : IsHeap(g, leaves, lo + 1)
    BY <2>1, <1>0
  <2> HIDE DEF lo, T
  <2> DEFINE f == [pos \in lo .. 2 * Capacity - 1 |->
                     IF pos = lo THEN hash_pair(g[2 * lo], g[2 * lo + 1]) ELSE g[pos]]
  <2>3. ASSUME NEW pos \in lo + 1 .. 2 * Capacity - 1
        PROVE  g[pos] = IF pos >= Capacity THEN leaf(pos) ELSE hash_pair(g[2 * pos], g[2 * pos + 1])
    BY <2>2 DEF IsHeap
  <2> HIDE DEF leaf
  <2>4. /\ f[lo] = hash_pair(g[2 * lo], g[2 * lo + 1])
        /\ \A pos \in lo + 1 .. 2 * Capacity - 1 : f[pos] = g[pos]
    BY <2>1, <1>0
  <2>5. f = [pos \in lo .. 2 * Capacity - 1 |-> f[pos]]
    OBVIOUS
  <2> HIDE DEF f
  <2>6. ASSUME NEW pos \in lo .. 2 * Capacity - 1
        PROVE  f[pos] = IF pos >= Capacity THEN leaf(pos) ELSE hash_pair(f[2 * pos], f[2 * pos + 1])
    <3>1. pos < Capacity => 2 * pos \in lo + 1 .. 2 * Capacity - 1 /\ 2 * pos + 1 \in lo + 1 .. 2 * Capacity - 1
      BY <2>1, <1>0
    <3>2. CASE pos = lo
      <4>1. ~ (pos >= Capacity) /\ pos < Capacity
        BY <3>2, <2>1, <1>0
      <4> QED BY <4>1, <3>1, <3>2, <2>4
    <3>3. CASE pos # lo
      <4>1. pos \in lo + 1 .. 2 * Capacity - 1 /\ (pos >= Capacity \/ pos < Capacity)
        BY <3>3, <2>1, <1>0
      <4>2. f[pos] = g[pos]
        BY <4>1, <2>4
      <4>3. g[pos] = IF pos >= Capacity THEN leaf(pos) ELSE hash_pair(g[2 * pos], g[2 * pos + 1])
        BY <4>1, <2>3
      <4>4. CASE pos >= Capacity
        BY <4>4, <4>2, <4>3
      <4>5. CASE ~ (pos >= Capacity)
        <5>1. f[2 * pos] = g[2 * pos] /\ f[2 * pos + 1] = g[2 * pos + 1]
          BY <4>1, <4>5, <3>1, <2>4
        <5> QED BY <4>5, <5>1, <4>2, <4>3
      <4> QED BY <4>4, <4>5
    <3> QED BY <3>2, <3>3
  <2>7. IsHeap(f, leaves, lo)
    <3>1. f = [pos \in lo .. 2 * Capacity - 1 |->
                 IF pos >= Capacity THEN leaf(pos) ELSE hash_pair(f[2 * pos], f[2 * pos + 1])]
      BY <2>5, <2>6
    <3> QED BY <3>1 DEF IsHeap, leaf
  <2> QED BY <2>7 DEF lo
<1> HIDE DEF T
<1>3. Capacity - 1 \in T
  <2>1. \A k \in Nat : k \in T
    BY <1>1, <1>2, SetInduction DEF T
  <2> QED BY <2>1, <1>0
<1>4. Capacity - 1 < Capacity /\ Capacity - (Capacity - 1) = 1
  BY <1>0
<1> QED BY <1>3, <1>4 DEF T

\* What the rebuild computes: leaves, zeros after them, and hashes above.
LEMMA HeapFacts ==
    ASSUME NEW leaves
    PROVE  /\ \A n \in 0 .. Capacity - 1 :
                heap_nodes(leaves)[Capacity + n] = IF n < Len(leaves) THEN leaves[n + 1] ELSE zero_value[0]
           /\ \A pos \in 1 .. Capacity - 1 :
                heap_nodes(leaves)[pos] = hash_pair(heap_nodes(leaves)[2 * pos], heap_nodes(leaves)[2 * pos + 1])
<1>0. Capacity \in Nat \ {0}
  BY Pow2Facts
<1> DEFINE H == heap_nodes(leaves)
<1>1. H = CHOOSE f : IsHeap(f, leaves, 1)
  BY DEF heap_nodes, IsHeap
<1>2. IsHeap(H, leaves, 1)
  BY <1>1, HeapExists
<1> HIDE DEF H
<1> DEFINE leaf(pos) == IF pos - Capacity < Len(leaves) THEN leaves[pos - Capacity + 1]
                                                        ELSE zero_value[0]
<1>3. \A pos \in 1 .. 2 * Capacity - 1 :
        H[pos] = IF pos >= Capacity THEN leaf(pos) ELSE hash_pair(H[2 * pos], H[2 * pos + 1])
  BY <1>2 DEF IsHeap
<1>4. ASSUME NEW n \in 0 .. Capacity - 1
      PROVE  H[Capacity + n] = IF n < Len(leaves) THEN leaves[n + 1] ELSE zero_value[0]
  <2>1. Capacity + n \in 1 .. 2 * Capacity - 1 /\ Capacity + n >= Capacity /\ (Capacity + n) - Capacity = n
    BY <1>0
  <2>2. H[Capacity + n] = leaf(Capacity + n)
    <3> HIDE DEF leaf
    <3> QED BY <2>1, <1>3
  <2> QED BY <2>1, <2>2
<1>5. ASSUME NEW pos \in 1 .. Capacity - 1 PROVE H[pos] = hash_pair(H[2 * pos], H[2 * pos + 1])
  <2> HIDE DEF leaf
  <2>1. pos \in 1 .. 2 * Capacity - 1 /\ ~ (pos >= Capacity)
    BY <1>0
  <2> QED BY <2>1, <1>3
<1> QED BY <1>4, <1>5 DEF H

\* The two nodes below a node of level l + 1 are nodes of level l.
LEMMA Children ==
    ASSUME NEW l \in Levels, NEW pos \in Level(l + 1)
    PROVE  /\ pos \in Nat /\ pos \in 1 .. Capacity - 1
           /\ 2 * pos \in Level(l) /\ 2 * pos + 1 \in Level(l)
<1>1. /\ first(l) = 2 * first(l + 1) /\ first(l + 1) \in Nat \ {0}
      /\ first(l) <= Capacity /\ Capacity \in Nat
  BY LevelFacts, Pow2Facts
<1> HIDE DEF first
<1>2. pos \in first(l + 1) .. 2 * first(l + 1) - 1
  BY DEF Level
<1> QED BY <1>1, <1>2 DEF Level

\* To the right of the last leaf there are only zero hashes.
LEMMA HeapRight ==
    ASSUME NEW leaves, NEW n \in -1 .. Capacity - 1, Len(leaves) = n + 1,
           NEW l \in 0 .. TREE_DEPTH, NEW pos \in Level(l), pos > above(n, l)
    PROVE  heap_nodes(leaves)[pos] = zero_value[l]
<1>0. TREE_DEPTH \in Nat /\ Capacity \in Nat \ {0} /\ n \in Int /\ Capacity + n \in Nat
  BY DepthAssumption, Pow2Facts
<1> DEFINE H == heap_nodes(leaves)
           T == {k \in Nat : k <= TREE_DEPTH =>
                   \A p \in Level(k) : p > above(n, k) => H[p] = zero_value[k]}
<1>1. 0 \in T
  <2> SUFFICES ASSUME NEW p \in Level(0), p > above(n, 0) PROVE H[p] = zero_value[0]
    OBVIOUS
  <2>1. above(n, 0) = Capacity + n /\ first(0) = Capacity
    BY <1>0, AboveHalf, LevelFacts
  <2>2. p \in Capacity .. 2 * Capacity - 1
    BY <2>1 DEF Level
  <2>3. /\ p - Capacity \in 0 .. Capacity - 1 /\ Capacity + (p - Capacity) = p
        /\ ~ (p - Capacity < Len(leaves))
    BY <2>1, <2>2, <1>0
  <2> HIDE DEF H
  <2>4. H[Capacity + (p - Capacity)] = zero_value[0]
    BY <2>3, HeapFacts DEF H
  <2> QED BY <2>3, <2>4
<1>2. ASSUME NEW k \in T PROVE k + 1 \in T
  <2> SUFFICES ASSUME k + 1 <= TREE_DEPTH, NEW p \in Level(k + 1), p > above(n, k + 1)
               PROVE  H[p] = zero_value[k + 1]
    OBVIOUS
  <2>1. k \in Levels /\ k \in 0 .. TREE_DEPTH /\ \A q \in Level(k) : q > above(n, k) => H[q] = zero_value[k]
    BY <1>0 DEF Levels
  <2>2. /\ p \in Nat /\ p \in 1 .. Capacity - 1 /\ 2 * p \in Level(k) /\ 2 * p + 1 \in Level(k)
    BY <2>1, Children
  <2>3. above(n, k) \in Nat /\ above(n, k + 1) = above(n, k) \div 2
    BY <2>1, <1>0, AboveHalf
  <2>4. \A a, q \in Nat : q > a \div 2 => 2 * q > a /\ 2 * q + 1 > a
    OBVIOUS
  <2>5. 2 * p > above(n, k) /\ 2 * p + 1 > above(n, k)
    BY <2>2, <2>3, <2>4
  <2>6. H[2 * p] = zero_value[k] /\ H[2 * p + 1] = zero_value[k]
    BY <2>1, <2>2, <2>5
  <2>7. H[p] = hash_pair(H[2 * p], H[2 * p + 1])
    BY <2>2, HeapFacts
  <2> QED BY <2>1, <2>6, <2>7, ZeroFacts
<1> HIDE DEF T
<1>3. \A k \in Nat : k \in T
  BY <1>1, <1>2, SetInduction DEF T
<1>4. l \in Nat /\ l <= TREE_DEPTH
  BY <1>0
<1> QED BY <1>3, <1>4 DEF T

\* The rebuild of an empty list has the root of the empty tree.
LEMMA EmptyRebuild == rebuilt_root(<< >>) = empty_root
<1>0. TREE_DEPTH \in Nat /\ Capacity \in Nat \ {0} /\ Capacity = pow2[TREE_DEPTH]
  BY DepthAssumption, Pow2Facts DEF Capacity
<1>1. above(-1, TREE_DEPTH) = 0
  <2>1. \A c \in Nat \ {0} : (c + (-1)) \div c = 0
    <3>1. ASSUME NEW c \in Nat \ {0}, NEW q \in Int, c - 1 = c * q + ((c - 1) % c)
          PROVE  q = 0
      <4>1. c - 1 \in 0 .. c - 1 /\ (c - 1) % c = c - 1
        BY ModSmall
      <4>2. c * q \in Int /\ c * 0 = 0 /\ c - 1 \in Int
        OBVIOUS
      <4>3. c - 1 = c * q + (c - 1)
        BY <3>1, <4>1
      <4>4. \A x, y \in Int : x = y + x => y = 0
        OBVIOUS
      <4>5. c * q = 0
        BY <4>2, <4>3, <4>4
      <4> QED BY <4>2, <4>5, MultipleGap
    <3>2. ASSUME NEW c \in Nat \ {0} PROVE c - 1 = c * ((c - 1) \div c) + ((c - 1) % c) /\ ((c - 1) \div c) \in Nat
      <4>1. c - 1 \in Nat
        OBVIOUS
      <4> QED BY <4>1, DivMod
    <3>3. \A c \in Nat \ {0} : c + (-1) = c - 1
      OBVIOUS
    <3> QED BY <3>1, <3>2, <3>3
  <2> QED BY <2>1, <1>0 DEF above
<1>2. 1 \in Level(TREE_DEPTH) /\ 1 > 0 /\ Len(<< >>) = -1 + 1
  BY LevelFacts DEF Level
<1>3. -1 \in -1 .. Capacity - 1 /\ TREE_DEPTH \in 0 .. TREE_DEPTH
  BY <1>0
<1> QED BY <1>1, <1>2, <1>3, HeapRight DEF rebuilt_root, empty_root

\* A leaf appended to the list changes only the nodes above it.
LEMMA HeapSame ==
    ASSUME NEW Leaf, NEW leaves \in Seq(Leaf), NEW c \in Leaf, Len(leaves) < Capacity,
           NEW l \in 0 .. TREE_DEPTH, NEW pos \in Level(l), pos # above(Len(leaves), l)
    PROVE  heap_nodes(Append(leaves, c))[pos] = heap_nodes(leaves)[pos]
<1> DEFINE n == Len(leaves)
           more == Append(leaves, c)
           H == heap_nodes(leaves)
           G == heap_nodes(more)
           T == {k \in Nat : k <= TREE_DEPTH =>
                   \A p \in Level(k) : p # above(n, k) => G[p] = H[p]}
<1>0. TREE_DEPTH \in Nat /\ Capacity \in Nat \ {0} /\ n \in Nat /\ n \in Int /\ Capacity + n \in Nat
  BY DepthAssumption, Pow2Facts
<1>a. Len(more) = n + 1 /\ \A k \in 1 .. n : more[k] = leaves[k]
  OBVIOUS
<1> HIDE DEF n, more
<1>1. 0 \in T
  <2> SUFFICES ASSUME NEW p \in Level(0), p # above(n, 0) PROVE G[p] = H[p]
    OBVIOUS
  <2>1. above(n, 0) = Capacity + n /\ first(0) = Capacity
    BY <1>0, AboveHalf, LevelFacts
  <2>2. p \in Capacity .. 2 * Capacity - 1
    BY <2>1 DEF Level
  <2> DEFINE i == p - Capacity
  <2>3. /\ i \in 0 .. Capacity - 1 /\ Capacity + i = p
        /\ i # n
    BY <2>1, <2>2, <1>0
  <2> HIDE DEF H, G, i
  <2>4. /\ H[Capacity + i] = IF i < n THEN leaves[i + 1] ELSE zero_value[0]
        /\ G[Capacity + i] = IF i < n + 1 THEN more[i + 1] ELSE zero_value[0]
    BY <2>3, <1>a, HeapFacts DEF H, G, n
  <2>5. CASE i < n
    <3>1. i + 1 \in 1 .. n /\ i < n + 1
      BY <2>3, <2>5, <1>0
    <3> QED BY <3>1, <2>3, <2>4, <2>5, <1>a
  <2>6. CASE ~ (i < n)
    <3>1. ~ (i < n + 1)
      BY <2>3, <2>6, <1>0
    <3> QED BY <3>1, <2>3, <2>4, <2>6
  <2> QED BY <2>5, <2>6
<1>2. ASSUME NEW k \in T PROVE k + 1 \in T
  <2> SUFFICES ASSUME k + 1 <= TREE_DEPTH, NEW p \in Level(k + 1), p # above(n, k + 1)
               PROVE  G[p] = H[p]
    OBVIOUS
  <2>1. k \in Levels /\ k \in 0 .. TREE_DEPTH /\ \A q \in Level(k) : q # above(n, k) => G[q] = H[q]
    BY <1>0 DEF Levels
  <2>2. /\ p \in Nat /\ p \in 1 .. Capacity - 1 /\ 2 * p \in Level(k) /\ 2 * p + 1 \in Level(k)
    BY <2>1, Children
  <2>3. above(n, k) \in Nat /\ above(n, k + 1) = above(n, k) \div 2
    BY <2>1, <1>0, AboveHalf
  <2>4. \A a, q \in Nat : q # a \div 2 => 2 * q # a /\ 2 * q + 1 # a
    OBVIOUS
  <2>5. 2 * p # above(n, k) /\ 2 * p + 1 # above(n, k)
    BY <2>2, <2>3, <2>4
  <2>6. G[2 * p] = H[2 * p] /\ G[2 * p + 1] = H[2 * p + 1]
    BY <2>1, <2>2, <2>5
  <2>7. H[p] = hash_pair(H[2 * p], H[2 * p + 1]) /\ G[p] = hash_pair(G[2 * p], G[2 * p + 1])
    BY <2>2, HeapFacts
  <2> QED BY <2>6, <2>7
<1> HIDE DEF T
<1>3. \A k \in Nat : k \in T
  BY <1>1, <1>2, SetInduction DEF T
<1>4. l \in Nat /\ l <= TREE_DEPTH
  BY <1>0
<1> QED BY <1>3, <1>4 DEF T, n, more

-----------------------------------------------------------------------------
\* The nodes compute_insert goes through, up to level n.
IsInsertPath(f, leaf, index, filled, n) ==
    f = [level \in 0 .. n |->
            IF level = 0
              THEN leaf
              ELSE IF is_left(index, level - 1)
                     THEN hash_pair(f[level - 1], zero_value[level - 1])
                     ELSE hash_pair(filled[level - 1], f[level - 1])]

LEMMA InsertPathExists ==
    ASSUME NEW leaf, NEW index, NEW filled, NEW n \in Nat
    PROVE  \E f : IsInsertPath(f, leaf, index, filled, n)
<1> DEFINE next(x, i) == IF is_left(index, i - 1) THEN hash_pair(x, zero_value[i - 1]) ELSE hash_pair(filled[i - 1], x)
           T == {k \in Nat : \E f : IsInsertPath(f, leaf, index, filled, k)}
<1>1. 0 \in T
  <2>1. IsInsertPath([i \in 0 .. 0 |-> leaf], leaf, index, filled, 0)
    BY DEF IsInsertPath
  <2> QED BY <2>1
<1>2. ASSUME NEW k \in T PROVE k + 1 \in T
  <2>1. PICK g : IsInsertPath(g, leaf, index, filled, k)
    OBVIOUS
  <2> DEFINE f == [i \in 0 .. k + 1 |-> IF i = k + 1 THEN next(g[k], k + 1) ELSE g[i]]
  <2>2. k \in Nat
    OBVIOUS
  <2>4. \A i \in 0 .. k : g[i] = IF i = 0 THEN leaf ELSE next(g[i - 1], i)
    BY <2>1 DEF IsInsertPath
  <2> HIDE DEF next
  <2>3. f[k + 1] = next(g[k], k + 1) /\ \A i \in 0 .. k : f[i] = g[i]
    BY <2>2
  <2>7. f = [i \in 0 .. k + 1 |-> f[i]]
    OBVIOUS
  <2> HIDE DEF f
  <2>5. ASSUME NEW i \in 0 .. k + 1 PROVE f[i] = IF i = 0 THEN leaf ELSE next(f[i - 1], i)
    <3>1. CASE i = k + 1
      <4>1. i # 0 /\ i - 1 = k /\ k \in 0 .. k
        BY <3>1, <2>2
      <4> QED BY <4>1, <3>1, <2>3
    <3>2. CASE i \in 0 .. k
      <4>1. i # 0 => i - 1 \in 0 .. k
        BY <3>2, <2>2
      <4> QED BY <4>1, <3>2, <2>3, <2>4
    <3> QED BY <3>1, <3>2, <2>2
  <2>6. IsInsertPath(f, leaf, index, filled, k + 1)
    <3>1. f = [i \in 0 .. k + 1 |-> IF i = 0 THEN leaf ELSE next(f[i - 1], i)]
      BY <2>7, <2>5
    <3> QED BY <3>1 DEF IsInsertPath, next
  <2> QED BY <2>2, <2>6
<1> HIDE DEF T
<1>3. n \in T
  BY <1>1, <1>2, SetInduction DEF T
<1> QED BY <1>3 DEF T

\* What compute_insert computes, level by level.
LEMMA InsertPath ==
    ASSUME NEW leaf, NEW index, NEW filled
    PROVE  \E f :
             /\ f[0] = leaf
             /\ \A l \in Levels :
                  f[l + 1] = IF is_left(index, l) THEN hash_pair(f[l], zero_value[l])
                                                  ELSE hash_pair(filled[l], f[l])
             /\ compute_insert(leaf, index, filled) =
                  [root   |-> f[TREE_DEPTH],
                   filled |-> [l \in Levels |-> IF is_left(index, l) THEN f[l] ELSE filled[l]]]
<1>0. TREE_DEPTH \in Nat
  BY DepthAssumption
<1> DEFINE f == CHOOSE g : IsInsertPath(g, leaf, index, filled, TREE_DEPTH)
<1>1. IsInsertPath(f, leaf, index, filled, TREE_DEPTH)
  BY <1>0, InsertPathExists
<1>2. compute_insert(leaf, index, filled) =
        [root   |-> f[TREE_DEPTH],
         filled |-> [l \in Levels |-> IF is_left(index, l) THEN f[l] ELSE filled[l]]]
  BY DEF compute_insert, IsInsertPath
<1> HIDE DEF f
<1> DEFINE next(x, i) == IF is_left(index, i - 1) THEN hash_pair(x, zero_value[i - 1])
                                                  ELSE hash_pair(filled[i - 1], x)
<1>3. \A i \in 0 .. TREE_DEPTH : f[i] = IF i = 0 THEN leaf ELSE next(f[i - 1], i)
  BY <1>1 DEF IsInsertPath
<1>4. \A l \in Levels : l + 1 \in 0 .. TREE_DEPTH /\ l + 1 # 0 /\ (l + 1) - 1 = l
  BY <1>0 DEF Levels
<1>5. f[0] = leaf
  BY <1>0, <1>3
<1>6. ASSUME NEW l \in Levels
      PROVE  f[l + 1] = IF is_left(index, l) THEN hash_pair(f[l], zero_value[l])
                                             ELSE hash_pair(filled[l], f[l])
  <2>1. f[l + 1] = next(f[l], l + 1)
    <3> HIDE DEF next
    <3>1. f[l + 1] = next(f[(l + 1) - 1], l + 1)
      BY <1>3, <1>4
    <3> QED BY <3>1, <1>4
  <2> QED BY <2>1, <1>4
<1> QED BY <1>2, <1>5, <1>6

\* The stored left siblings the next insertion will read.
FilledOk(filled, leaves) ==
    Len(leaves) < Capacity =>
        \A l \in Levels : ~ is_left(Len(leaves), l) =>
            filled[l] = heap_nodes(leaves)[above(Len(leaves), l) - 1]

\* The incremental insertion arrives at the root of the rebuild, and leaves
\* behind the siblings the next one will read.
LEMMA InsertExact ==
    ASSUME NEW Leaf, NEW leaves \in Seq(Leaf), NEW c \in Leaf, Len(leaves) < Capacity,
           NEW filled, FilledOk(filled, leaves)
    PROVE  /\ compute_insert(c, Len(leaves), filled).root = rebuilt_root(Append(leaves, c))
           /\ FilledOk(compute_insert(c, Len(leaves), filled).filled, Append(leaves, c))
<1> DEFINE n == Len(leaves)
           more == Append(leaves, c)
           H == heap_nodes(leaves)
           G == heap_nodes(more)
           a(l) == above(n, l)
<1>0. TREE_DEPTH \in Nat /\ Capacity \in Nat \ {0} /\ n \in 0 .. Capacity - 1 /\ n \in -1 .. Capacity - 1 /\ n \in Nat
  BY DepthAssumption, Pow2Facts
<1>a. Len(more) = n + 1 /\ more[n + 1] = c
  OBVIOUS
<1>1. PICK f :
             /\ f[0] = c
             /\ \A l \in Levels :
                  f[l + 1] = IF is_left(n, l) THEN hash_pair(f[l], zero_value[l])
                                              ELSE hash_pair(filled[l], f[l])
             /\ compute_insert(c, n, filled) =
                  [root   |-> f[TREE_DEPTH],
                   filled |-> [l \in Levels |-> IF is_left(n, l) THEN f[l] ELSE filled[l]]]
  BY InsertPath
<1>2. \A l \in Levels : ~ is_left(n, l) => filled[l] = H[a(l) - 1]
  BY DEF FilledOk
<1>3. ASSUME NEW l \in 0 .. TREE_DEPTH, NEW pos \in Level(l)
      PROVE  /\ pos # a(l) => G[pos] = H[pos]
             /\ pos > a(l) => G[pos] = zero_value[l]
  <2>1. pos # a(l) => G[pos] = H[pos]
    BY HeapSame
  <2>2. pos > a(l) => G[pos] = zero_value[l]
    <3> HIDE DEF n, more
    <3> QED BY <1>0, <1>a, HeapRight
  <2> QED BY <2>1, <2>2
<1>4. /\ a(0) = Capacity + n
      /\ a(TREE_DEPTH) = 1
      /\ \A l \in 0 .. TREE_DEPTH : a(l) \in Level(l) /\ a(l) \in Nat
      /\ \A l \in Levels : /\ a(l + 1) = a(l) \div 2
                           /\ is_left(n, l) <=> a(l) % 2 = 0
  <2> HIDE DEF n
  <2> QED BY <1>0, PathFacts
<1>5. G[Capacity + n] = c
  <2> HIDE DEF more, n
  <2>1. n < Len(more)
    BY <1>a, <1>0
  <2> QED BY <2>1, <1>0, <1>a, HeapFacts
<1>6. \A pos \in 1 .. Capacity - 1 : G[pos] = hash_pair(G[2 * pos], G[2 * pos + 1])
  <2> HIDE DEF more
  <2> QED BY HeapFacts
<1>b. \A l \in Levels : l \in 0 .. TREE_DEPTH /\ l + 1 \in 0 .. TREE_DEPTH
  BY LevelFacts
<1> HIDE DEF n, more, H, G, a
<1>7. ASSUME NEW l \in Levels
      PROVE  /\ a(l) % 2 = 0 => /\ G[a(l + 1)] = hash_pair(G[a(l)], zero_value[l])
             /\ a(l) % 2 # 0 => /\ a(l) - 1 \in Level(l)
                                /\ G[a(l) - 1] = H[a(l) - 1]
                                /\ G[a(l + 1)] = hash_pair(G[a(l) - 1], G[a(l)])
  <2> DEFINE p == a(l + 1)
  <2>1. p \in Level(l + 1) /\ a(l) \in Nat /\ p = a(l) \div 2 /\ l \in 0 .. TREE_DEPTH
    BY <1>4, <1>b
  <2>2. p \in Nat /\ p \in 1 .. Capacity - 1 /\ 2 * p \in Level(l) /\ 2 * p + 1 \in Level(l)
    BY <2>1, Children
  <2>3. G[p] = hash_pair(G[2 * p], G[2 * p + 1])
    BY <2>2, <1>6
  <2> HIDE DEF p
  <2>4. CASE a(l) % 2 = 0
    <3>1. a(l) = 2 * p /\ 2 * p + 1 > a(l)
      BY <2>1, <2>2, <2>4
    <3>2. G[2 * p + 1] = zero_value[l]
      BY <3>1, <2>1, <2>2, <1>3
    <3> QED BY <3>1, <3>2, <2>3, <2>4 DEF p
  <2>5. CASE a(l) % 2 # 0
    <3>1. a(l) = 2 * p + 1 /\ a(l) - 1 = 2 * p /\ 2 * p # a(l)
      BY <2>1, <2>2, <2>5
    <3>2. G[2 * p] = H[2 * p]
      BY <3>1, <2>1, <2>2, <1>3
    <3> QED BY <3>1, <3>2, <2>2, <2>3, <2>5 DEF p
  <2> QED BY <2>4, <2>5
<1> DEFINE T == {k \in Nat : k <= TREE_DEPTH => f[k] = G[a(k)]}
<1>8. 0 \in T
  BY <1>1, <1>4, <1>5
<1>9. ASSUME NEW k \in T PROVE k + 1 \in T
  <2> SUFFICES ASSUME k + 1 <= TREE_DEPTH PROVE f[k + 1] = G[a(k + 1)]
    OBVIOUS
  <2>1. k \in Levels /\ f[k] = G[a(k)]
    BY <1>0 DEF Levels
  <2>2. CASE is_left(n, k)
    BY <2>1, <2>2, <1>1, <1>4, <1>7
  <2>3. CASE ~ is_left(n, k)
    BY <2>1, <2>3, <1>1, <1>2, <1>4, <1>7
  <2> QED BY <2>2, <2>3
<1> HIDE DEF T
<1>10. \A k \in 0 .. TREE_DEPTH : f[k] = G[a(k)]
  <2>1. \A k \in Nat : k \in T
    BY <1>8, <1>9, SetInduction DEF T
  <2>2. \A k \in 0 .. TREE_DEPTH : k \in Nat /\ k <= TREE_DEPTH
    BY <1>0
  <2> QED BY <2>1, <2>2 DEF T
<1>11. compute_insert(c, n, filled).root = rebuilt_root(more)
  <2>1. f[TREE_DEPTH] = G[1]
    BY <1>0, <1>4, <1>10
  <2> QED BY <2>1, <1>1 DEF rebuilt_root, G
<1> DEFINE kept == compute_insert(c, n, filled).filled
<1>12. \A l \in Levels : kept[l] = IF is_left(n, l) THEN f[l] ELSE filled[l]
  BY <1>1
<1> HIDE DEF kept
<1>13. ASSUME n + 1 < Capacity, NEW l \in Levels, ~ is_left(n + 1, l)
       PROVE  kept[l] = G[above(n + 1, l) - 1]
  <2>1. above(n + 1, l) = a(l) \/ above(n + 1, l) = a(l) + 1
    BY <1>0, <1>b, AboveNext DEF a
  <2>2. above(n + 1, l) % 2 # 0
    <3>1. n + 1 \in 0 .. Capacity - 1
      BY <1>0, <1>13
    <3> QED BY <3>1, <1>13, PathFacts
  <2>3. a(l) \in Nat /\ (is_left(n, l) <=> a(l) % 2 = 0)
    BY <1>4, <1>b
  <2>4. CASE above(n + 1, l) = a(l)
    <3>1. kept[l] = H[a(l) - 1]
      BY <2>2, <2>3, <2>4, <1>2, <1>12
    <3> QED BY <3>1, <2>2, <2>4, <1>7
  <2>5. CASE above(n + 1, l) = a(l) + 1
    <3>1. a(l) % 2 = 0 /\ (a(l) + 1) - 1 = a(l)
      BY <2>2, <2>3, <2>5
    <3>2. kept[l] = f[l] /\ f[l] = G[a(l)]
      BY <3>1, <2>3, <1>12, <1>10, <1>b
    <3> QED BY <3>1, <3>2, <2>5
  <2> QED BY <2>1, <2>4, <2>5
<1>14. FilledOk(kept, more)
  BY <1>13, <1>a DEF FilledOk, G
<1> QED BY <1>11, <1>14 DEF n, more, kept

-----------------------------------------------------------------------------
\* The nodes MerkleProof::verify goes through, up to level n.
IsClimb(f, leaf, index, siblings, n) ==
    f = [level \in 0 .. n |->
            IF level = 0
              THEN leaf
              ELSE IF is_left(index, level - 1)
                     THEN hash_pair(f[level - 1], siblings[level])
                     ELSE hash_pair(siblings[level], f[level - 1])]

LEMMA ClimbExists ==
    ASSUME NEW leaf, NEW index, NEW siblings, NEW n \in Nat
    PROVE  \E f : IsClimb(f, leaf, index, siblings, n)
<1> DEFINE next(x, i) == IF is_left(index, i - 1) THEN hash_pair(x, siblings[i]) ELSE hash_pair(siblings[i], x)
           T == {k \in Nat : \E f : IsClimb(f, leaf, index, siblings, k)}
<1>1. 0 \in T
  <2>1. IsClimb([i \in 0 .. 0 |-> leaf], leaf, index, siblings, 0)
    BY DEF IsClimb
  <2> QED BY <2>1
<1>2. ASSUME NEW k \in T PROVE k + 1 \in T
  <2>1. PICK g : IsClimb(g, leaf, index, siblings, k)
    OBVIOUS
  <2> DEFINE f == [i \in 0 .. k + 1 |-> IF i = k + 1 THEN next(g[k], k + 1) ELSE g[i]]
  <2>2. k \in Nat
    OBVIOUS
  <2>4. \A i \in 0 .. k : g[i] = IF i = 0 THEN leaf ELSE next(g[i - 1], i)
    BY <2>1 DEF IsClimb
  <2> HIDE DEF next
  <2>3. f[k + 1] = next(g[k], k + 1) /\ \A i \in 0 .. k : f[i] = g[i]
    BY <2>2
  <2>7. f = [i \in 0 .. k + 1 |-> f[i]]
    OBVIOUS
  <2> HIDE DEF f
  <2>5. ASSUME NEW i \in 0 .. k + 1 PROVE f[i] = IF i = 0 THEN leaf ELSE next(f[i - 1], i)
    <3>1. CASE i = k + 1
      <4>1. i # 0 /\ i - 1 = k /\ k \in 0 .. k
        BY <3>1, <2>2
      <4> QED BY <4>1, <3>1, <2>3
    <3>2. CASE i \in 0 .. k
      <4>1. i # 0 => i - 1 \in 0 .. k
        BY <3>2, <2>2
      <4> QED BY <4>1, <3>2, <2>3, <2>4
    <3> QED BY <3>1, <3>2, <2>2
  <2>6. IsClimb(f, leaf, index, siblings, k + 1)
    <3>1. f = [i \in 0 .. k + 1 |-> IF i = 0 THEN leaf ELSE next(f[i - 1], i)]
      BY <2>7, <2>5
    <3> QED BY <3>1 DEF IsClimb, next
  <2> QED BY <2>2, <2>6
<1> HIDE DEF T
<1>3. n \in T
  BY <1>1, <1>2, SetInduction DEF T
<1> QED BY <1>3 DEF T

\* f climbs from leaf along siblings.
Climbs(f, leaf, index, siblings) ==
    /\ f[0] = leaf
    /\ \A l \in Levels :
         f[l + 1] = IF is_left(index, l) THEN hash_pair(f[l], siblings[l + 1])
                                         ELSE hash_pair(siblings[l + 1], f[l])
    /\ climb(leaf, index, siblings) = f[TREE_DEPTH]

\* What climb computes, level by level.
LEMMA ClimbPath ==
    ASSUME NEW leaf, NEW index, NEW siblings, Len(siblings) = TREE_DEPTH
    PROVE  \E f : Climbs(f, leaf, index, siblings)
<1>0. TREE_DEPTH \in Nat
  BY DepthAssumption
<1> DEFINE f == CHOOSE g : IsClimb(g, leaf, index, siblings, Len(siblings))
<1>1. IsClimb(f, leaf, index, siblings, Len(siblings))
  BY <1>0, ClimbExists
<1>2. climb(leaf, index, siblings) = f[TREE_DEPTH]
  BY DEF climb, IsClimb
<1> HIDE DEF f
<1> DEFINE next(x, i) == IF is_left(index, i - 1) THEN hash_pair(x, siblings[i])
                                                  ELSE hash_pair(siblings[i], x)
<1>3. \A i \in 0 .. TREE_DEPTH : f[i] = IF i = 0 THEN leaf ELSE next(f[i - 1], i)
  BY <1>1 DEF IsClimb
<1>4. \A l \in Levels : l + 1 \in 0 .. TREE_DEPTH /\ l + 1 # 0 /\ (l + 1) - 1 = l
  BY <1>0 DEF Levels
<1>5. f[0] = leaf
  BY <1>0, <1>3
<1>6. ASSUME NEW l \in Levels
      PROVE  f[l + 1] = IF is_left(index, l) THEN hash_pair(f[l], siblings[l + 1])
                                             ELSE hash_pair(siblings[l + 1], f[l])
  <2>1. f[l + 1] = next(f[l], l + 1)
    <3> HIDE DEF next
    <3>1. f[l + 1] = next(f[(l + 1) - 1], l + 1)
      BY <1>3, <1>4
    <3> QED BY <3>1, <1>4
  <2> QED BY <2>1, <1>4
<1> QED BY <1>2, <1>5, <1>6 DEF Climbs

\* No two pairs have the same hash: the ideal SHA-256 stands for.
CollisionFree == \A a, b, c, d : hash_pair(a, b) = hash_pair(c, d) => a = c /\ b = d

\* With such a hash a path leads to a root from one leaf at most.
LEMMA ClimbInjective ==
    ASSUME CollisionFree, NEW x, NEW y, NEW index, NEW siblings, Len(siblings) = TREE_DEPTH,
           climb(x, index, siblings) = climb(y, index, siblings)
    PROVE  x = y
<1>0. TREE_DEPTH \in Nat
  BY DepthAssumption
<1>1a. PICK f : Climbs(f, x, index, siblings)
  BY ClimbPath
<1>1. /\ f[0] = x
      /\ \A l \in Levels :
           f[l + 1] = IF is_left(index, l) THEN hash_pair(f[l], siblings[l + 1])
                                       ELSE hash_pair(siblings[l + 1], f[l])
      /\ climb(x, index, siblings) = f[TREE_DEPTH]
  BY <1>1a DEF Climbs
<1>2a. PICK g : Climbs(g, y, index, siblings)
  BY ClimbPath
<1>2. /\ g[0] = y
      /\ \A l \in Levels :
           g[l + 1] = IF is_left(index, l) THEN hash_pair(g[l], siblings[l + 1])
                                       ELSE hash_pair(siblings[l + 1], g[l])
      /\ climb(y, index, siblings) = g[TREE_DEPTH]
  BY <1>2a DEF Climbs
<1>c. \A a, b, c, d : hash_pair(a, b) = hash_pair(c, d) => a = c /\ b = d
  BY DEF CollisionFree
<1> DEFINE T == {k \in Nat : k <= TREE_DEPTH => f[TREE_DEPTH - k] = g[TREE_DEPTH - k]}
<1>3. 0 \in T
  <2>1. TREE_DEPTH - 0 = TREE_DEPTH
    BY <1>0
  <2> QED BY <2>1, <1>1, <1>2
<1>4. ASSUME NEW k \in T PROVE k + 1 \in T
  <2> SUFFICES ASSUME k + 1 <= TREE_DEPTH PROVE f[TREE_DEPTH - (k + 1)] = g[TREE_DEPTH - (k + 1)]
    OBVIOUS
  <2> DEFINE l == TREE_DEPTH - (k + 1)
  <2>1. l \in Levels /\ l + 1 = TREE_DEPTH - k /\ f[TREE_DEPTH - k] = g[TREE_DEPTH - k]
    BY <1>0 DEF Levels
  <2> HIDE DEF l
  <2>2. f[l + 1] = g[l + 1]
    BY <2>1
  <2>3. CASE is_left(index, l)
    <3>1. hash_pair(f[l], siblings[l + 1]) = hash_pair(g[l], siblings[l + 1])
      BY <2>1, <2>2, <2>3, <1>1, <1>2
    <3>2. f[l] = g[l]
      <4> HIDE DEF T
      <4> QED BY <3>1, <1>c
    <3> QED BY <3>2 DEF l
  <2>4. CASE ~ is_left(index, l)
    <3>1. hash_pair(siblings[l + 1], f[l]) = hash_pair(siblings[l + 1], g[l])
      BY <2>1, <2>2, <2>4, <1>1, <1>2
    <3>2. f[l] = g[l]
      <4> HIDE DEF T
      <4> QED BY <3>1, <1>c
    <3> QED BY <3>2 DEF l
  <2> QED BY <2>3, <2>4
<1> HIDE DEF T
<1>5. TREE_DEPTH \in T
  BY <1>0, <1>3, <1>4, SetInduction DEF T
<1>6. f[0] = g[0]
  <2>1. TREE_DEPTH - TREE_DEPTH = 0 /\ TREE_DEPTH <= TREE_DEPTH
    BY <1>0
  <2> QED BY <2>1, <1>5 DEF T
<1> QED BY <1>1, <1>2, <1>6

\* The sibling path build_proof_paths makes for a leaf: of the right length,
\* and its nodes are the neighbours of the nodes above the leaf.
LEMMA PathSiblings ==
    ASSUME NEW leaves, Len(leaves) \in Nat, NEW i \in 1 .. Len(leaves)
    PROVE  /\ Len(build_proof_paths(leaves)[i]) = TREE_DEPTH
           /\ \A l \in Levels :
                build_proof_paths(leaves)[i][l + 1] =
                    IF above(i - 1, l) % 2 = 0 THEN heap_nodes(leaves)[above(i - 1, l) + 1]
                                               ELSE heap_nodes(leaves)[above(i - 1, l) - 1]
<1>0. TREE_DEPTH \in Nat /\ Capacity \in Nat
  BY DepthAssumption, Pow2Facts
<1> DEFINE H == heap_nodes(leaves)
           beside(pos) == IF pos % 2 = 0 THEN H[pos + 1] ELSE H[pos - 1]
           path == build_proof_paths(leaves)[i]
<1>1. path = [level \in 1 .. TREE_DEPTH |-> beside((Capacity + i - 1) \div pow2[level - 1])]
  <2> HIDE DEF H
  <2> QED BY DEF build_proof_paths, H
<1> HIDE DEF path, H
<1>2. Len(path) = TREE_DEPTH
  <2> DEFINE S == {path[level] : level \in 1 .. TREE_DEPTH}
  <2>1. path \in [1 .. TREE_DEPTH -> S]
    <3> HIDE DEF beside
    <3> QED BY <1>1
  <2> HIDE DEF S
  <2>2. path \in Seq(S)
    BY <2>1, <1>0
  <2> QED BY <2>1, <2>2, <1>0
<1>3. ASSUME NEW l \in Levels PROVE path[l + 1] = beside(above(i - 1, l))
  <2>1. l + 1 \in 1 .. TREE_DEPTH /\ (l + 1) - 1 = l /\ Capacity + i - 1 = Capacity + (i - 1)
    BY <1>0 DEF Levels
  <2> HIDE DEF beside
  <2>2. path[l + 1] = beside((Capacity + i - 1) \div pow2[(l + 1) - 1])
    BY <2>1, <1>1
  <2> QED BY <2>1, <2>2 DEF above
<1> QED BY <1>2, <1>3 DEF path, H

\* That path leads from its leaf to the root of the rebuild.
LEMMA PathClimbs ==
    ASSUME NEW leaves, Len(leaves) \in 0 .. Capacity, NEW i \in 1 .. Len(leaves)
    PROVE  climb(leaves[i], i - 1, build_proof_paths(leaves)[i]) = rebuilt_root(leaves)
<1> DEFINE H == heap_nodes(leaves)
           path == build_proof_paths(leaves)[i]
           n == i - 1
           a(l) == above(n, l)
<1>0. /\ TREE_DEPTH \in Nat /\ Capacity \in Nat \ {0} /\ Len(leaves) \in Nat
      /\ n \in 0 .. Capacity - 1 /\ n < Len(leaves) /\ n + 1 = i
  BY DepthAssumption, Pow2Facts
<1>1. /\ Len(path) = TREE_DEPTH
      /\ \A l \in Levels : path[l + 1] = IF a(l) % 2 = 0 THEN H[a(l) + 1] ELSE H[a(l) - 1]
  BY <1>0, PathSiblings
<1>2. /\ H[Capacity + n] = leaves[i]
      /\ \A pos \in 1 .. Capacity - 1 : H[pos] = hash_pair(H[2 * pos], H[2 * pos + 1])
  <2> HIDE DEF n
  <2> QED BY <1>0, HeapFacts
<1> HIDE DEF n, H, path
<1>3. /\ a(0) = Capacity + n
      /\ a(TREE_DEPTH) = 1
      /\ \A l \in 0 .. TREE_DEPTH : a(l) \in Level(l) /\ a(l) \in Nat
      /\ \A l \in Levels : /\ a(l + 1) = a(l) \div 2
                           /\ is_left(n, l) <=> a(l) % 2 = 0
  BY <1>0, PathFacts
<1>b. \A l \in Levels : l \in 0 .. TREE_DEPTH /\ l + 1 \in 0 .. TREE_DEPTH
  BY LevelFacts
<1> HIDE DEF a
<1>4a. PICK f : Climbs(f, leaves[i], n, path)
  BY <1>1, ClimbPath
<1>4. /\ f[0] = leaves[i]
      /\ \A l \in Levels :
           f[l + 1] = IF is_left(n, l) THEN hash_pair(f[l], path[l + 1])
                                       ELSE hash_pair(path[l + 1], f[l])
      /\ climb(leaves[i], n, path) = f[TREE_DEPTH]
  BY <1>4a DEF Climbs
<1> DEFINE T == {k \in Nat : k <= TREE_DEPTH => f[k] = H[a(k)]}
<1>5. 0 \in T
  BY <1>2, <1>3, <1>4
<1>6. ASSUME NEW k \in T PROVE k + 1 \in T
  <2> SUFFICES ASSUME k + 1 <= TREE_DEPTH PROVE f[k + 1] = H[a(k + 1)]
    OBVIOUS
  <2>1. k \in Levels /\ f[k] = H[a(k)]
    BY <1>0 DEF Levels
  <2> DEFINE p == a(k + 1)
  <2>2. p \in Level(k + 1) /\ a(k) \in Nat /\ p = a(k) \div 2 /\ (is_left(n, k) <=> a(k) % 2 = 0)
    BY <2>1, <1>3, <1>b
  <2>3. p \in Nat /\ H[p] = hash_pair(H[2 * p], H[2 * p + 1])
    <3>1. p \in Nat /\ p \in 1 .. Capacity - 1
      BY <2>1, <2>2, Children
    <3> QED BY <3>1, <1>2
  <2> HIDE DEF p, T
  <2>4. CASE a(k) % 2 = 0
    <3>1. a(k) = 2 * p
      BY <2>2, <2>3, <2>4
    <3>2. f[k + 1] = hash_pair(H[a(k)], H[a(k) + 1])
      BY <2>1, <2>2, <2>4, <1>1, <1>4
    <3> QED BY <3>1, <3>2, <2>3 DEF p
  <2>5. CASE a(k) % 2 # 0
    <3>1. a(k) = 2 * p + 1 /\ a(k) - 1 = 2 * p
      BY <2>2, <2>3, <2>5
    <3>2. f[k + 1] = hash_pair(H[a(k) - 1], H[a(k)])
      BY <2>1, <2>2, <2>5, <1>1, <1>4
    <3> QED BY <3>1, <3>2, <2>3 DEF p
  <2> QED BY <2>4, <2>5
<1> HIDE DEF T
<1>7. f[TREE_DEPTH] = H[1]
  <2>1. TREE_DEPTH \in T
    BY <1>0, <1>5, <1>6, SetInduction DEF T
  <2>2. TREE_DEPTH <= TREE_DEPTH
    BY <1>0
  <2> QED BY <2>1, <2>2, <1>3 DEF T
<1> QED BY <1>4, <1>7 DEF n, path, H, rebuilt_root

-----------------------------------------------------------------------------

\* f goes through the trees of the insertions of the first n outputs.
IsInsertion(f, t, outputs, n) ==
    f = [i \in 0 .. n |-> IF i = 0 THEN t ELSE insert_commitment(f[i - 1], outputs[i])]

\* The recursive definition of insertions has a solution: by the least n
\* for which the first n outputs would have none.
LEMMA InsertionExists ==
    ASSUME NEW t, NEW outputs, NEW n \in Nat
    PROVE  \E f : IsInsertion(f, t, outputs, n)
<1> DEFINE Bad == {k \in Nat : ~ \E f : IsInsertion(f, t, outputs, k)}
<1> SUFFICES ASSUME Bad # {} PROVE FALSE
  BY Zenon
<1>1. PICK m \in Bad : \A k \in Bad : m <= k
  <2>1. Bad \in SUBSET Nat
    OBVIOUS
  <2> HIDE DEF Bad
  <2> QED BY <2>1, LeastElement, Zenon
<1>2. m \in Nat /\ ~ \E f : IsInsertion(f, t, outputs, m)
  OBVIOUS
<1>3. CASE m = 0
  <2>1. IsInsertion([i \in 0 .. 0 |-> t], t, outputs, 0)
    BY DEF IsInsertion
  <2> QED BY <2>1, <1>2, <1>3
<1>4. CASE m # 0
  <2>1. m - 1 \in Nat /\ m - 1 \notin Bad
    BY <1>1, <1>2, <1>4
  <2>2. PICK g : IsInsertion(g, t, outputs, m - 1)
    BY <2>1
  <2> DEFINE h == [i \in 0 .. m |-> IF i < m THEN g[i] ELSE insert_commitment(g[m - 1], outputs[m])]
  <2>3. ASSUME NEW i \in 0 .. m
        PROVE  h[i] = IF i = 0 THEN t ELSE insert_commitment(h[i - 1], outputs[i])
    BY <2>1, <2>2, <1>2, <1>4 DEF IsInsertion
  <2>4. h = [i \in 0 .. m |-> h[i]]
    OBVIOUS
  <2>5. IsInsertion(h, t, outputs, m)
    <3> HIDE DEF h
    <3> QED BY <2>3, <2>4 DEF IsInsertion
  <2> QED BY <2>5, <1>2
<1> QED BY <1>3, <1>4

\* What insertions computes: each tree from the one before it.
LEMMA InsertionsDef ==
    ASSUME NEW t, NEW outputs, Len(outputs) \in Nat
    PROVE  /\ insertions(t, outputs)[0] = t
           /\ \A i \in 1 .. Len(outputs) :
                insertions(t, outputs)[i] = insert_commitment(insertions(t, outputs)[i - 1], outputs[i])
<1> DEFINE f == insertions(t, outputs)
<1>1. IsInsertion(f, t, outputs, Len(outputs))
  <2>1. f = CHOOSE g : IsInsertion(g, t, outputs, Len(outputs))
    BY Zenon DEF insertions, IsInsertion
  <2>2. \E g : IsInsertion(g, t, outputs, Len(outputs))
    BY InsertionExists
  <2> HIDE DEF f
  <2> QED BY <2>1, <2>2, Zenon
<1> HIDE DEF f
<1>2. f[0] = t /\ \A i \in 1 .. Len(outputs) : f[i] = insert_commitment(f[i - 1], outputs[i])
  BY <1>1 DEF IsInsertion
<1> QED BY <1>2 DEF f

-----------------------------------------------------------------------------
\* One insertion keeps the shape of the tree.
LEMMA InsertShape ==
    ASSUME NEW Leaf, NEW t, NEW c \in Leaf, TreeShape(t, Leaf), fits(t, 1)
    PROVE  /\ TreeShape(insert_commitment(t, c), Leaf)
           /\ insert_commitment(t, c).next_index = t.next_index + 1
<1> DEFINE H == ROOTS_HISTORY_SIZE
           u == insert_commitment(t, c)
           n == t.next_index
           slot == n % H
<1>1. n \in Nat /\ n + 1 <= Capacity /\ Capacity \in Nat /\ t.roots_count = n /\ H \in Nat \ {0}
  BY Pow2Facts, HistoryAssumption DEF TreeShape, fits
<1>2. slot \in 0 .. H - 1 /\ (n < H => slot = n)
  <2> HIDE DEF n, H
  <2>1. slot \in 0 .. H - 1
    BY <1>1, ModRange
  <2>2. ASSUME n < H PROVE n \in 0 .. H - 1
    BY <1>1, <2>2
  <2>3. ASSUME n < H PROVE slot = n
    BY <1>1, <2>2, <2>3, ModSmall
  <2> QED BY <2>1, <2>3
<1>3. /\ u.next_index = n + 1 /\ u.roots_count = n + 1
      /\ u.commitments = Append(t.commitments, c)
      /\ DOMAIN u.roots = DOMAIN t.roots \cup {slot}
      /\ u.filled = compute_insert(c, n, t.filled).filled
  BY <1>1 DEF insert_commitment
<1>4. DOMAIN u.filled = Levels
  BY <1>3 DEF compute_insert
<1>5. u.commitments \in Seq(Leaf) /\ Len(u.commitments) = n + 1
  BY <1>3, <1>1 DEF TreeShape
<1>6. DOMAIN u.roots = {s \in 0 .. H - 1 : s < n + 1}
  <2>1. DOMAIN t.roots = {s \in 0 .. H - 1 : s < n}
    BY <1>1 DEF TreeShape
  <2> HIDE DEF slot, u, n, H
  <2>2. \A s \in 0 .. H - 1 : s < n + 1 <=> (s < n \/ s = slot)
    BY <1>1, <1>2
  <2> QED BY <1>3, <2>1, <2>2, <1>2
<1> QED BY <1>1, <1>3, <1>4, <1>5, <1>6 DEF TreeShape

\* One insertion keeps the ring: the new root takes the slot of the root
\* that leaves the window, and no recent root loses its slot.
LEMMA InsertRing ==
    ASSUME NEW Leaf, NEW t, NEW c \in Leaf, NEW log, NEW log2,
           TreeShape(t, Leaf), fits(t, 1), RingHoldsRecent(t, log),
           \A j \in 1 .. t.roots_count : log2[j] = log[j],
           log2[t.roots_count + 1] = insert_commitment(t, c).root
    PROVE  RingHoldsRecent(insert_commitment(t, c), log2)
<1> DEFINE H == ROOTS_HISTORY_SIZE
           u == insert_commitment(t, c)
           n == t.roots_count
           slot == n % H
<1>1. n \in Nat /\ H \in Nat \ {0} /\ slot \in 0 .. H - 1
  <2>1. n \in Nat /\ H \in Nat \ {0}
    BY HistoryAssumption DEF TreeShape
  <2> HIDE DEF n, H
  <2> QED BY <2>1, ModRange
<1>2. /\ u.roots_count = n + 1
      /\ u.roots = [s \in DOMAIN t.roots \cup {slot} |-> IF s = slot THEN u.root ELSE t.roots[s]]
  BY DEF insert_commitment
<1>3. recent(t) = {j \in 1 .. n : j > n - H} /\ recent(u) = {j \in 1 .. n + 1 : j > n + 1 - H}
  <2>1. recent(t) = {j \in 1 .. n : j > n - H}
    BY DEF recent
  <2>2. recent(u) = {j \in 1 .. n + 1 : j > n + 1 - H}
    <3>1. u.roots_count = n + 1
      BY <1>2
    <3> HIDE DEF u, n
    <3>2. recent(u) = {j \in 1 .. u.roots_count : j > u.roots_count - H}
      BY Zenon DEF recent
    <3> QED BY <3>1, <3>2, <1>1
  <2> QED BY <2>1, <2>2
<1>4. DOMAIN t.roots = {s \in 0 .. H - 1 : s < n}
  BY DEF TreeShape
<1>5. /\ \A j \in recent(t) : t.roots[(j - 1) % H] = log[j]
      /\ \A s \in DOMAIN t.roots : \E j \in recent(t) : (j - 1) % H = s
  BY DEF RingHoldsRecent
<1>6. log2[n + 1] = u.root /\ \A j \in 1 .. n : log2[j] = log[j]
  OBVIOUS
<1> HIDE DEF u, n
<1>7. ASSUME NEW j \in recent(u) PROVE u.roots[(j - 1) % H] = log2[j]
  <2>1. CASE j = n + 1
    BY <2>1, <1>1, <1>2, <1>6
  <2>2. CASE j # n + 1
    <3>1. j \in recent(t) /\ j - 1 \in Nat /\ j - 1 < n /\ n - (j - 1) < H
      BY <2>2, <1>3, <1>1
    <3>2. (j - 1) % H # slot
      BY <3>1, <1>1, ModWindow
    <3>3. (j - 1) % H \in DOMAIN t.roots
      <4>1. (j - 1) % H \in 0 .. H - 1
        BY <3>1, <1>1, ModRange
      <4>2. CASE n >= H
        BY <4>1, <4>2, <1>4, <1>1
      <4>3. CASE n < H
        <5>1. (j - 1) % H = j - 1
          BY <4>3, <3>1, <1>1, ModSmall
        <5> QED BY <5>1, <4>1, <3>1, <1>4
      <4> QED BY <4>2, <4>3, <1>1
    <3>4. u.roots[(j - 1) % H] = t.roots[(j - 1) % H]
      BY <3>2, <3>3, <1>2
    <3> QED BY <3>1, <3>4, <1>5, <1>6, <1>3
  <2> QED BY <2>1, <2>2
<1>8. ASSUME NEW s \in DOMAIN u.roots PROVE \E j \in recent(u) : (j - 1) % H = s
  <2>1. CASE s = slot
    <3>1. n + 1 \in recent(u) /\ (n + 1) - 1 = n
      BY <1>1, <1>3
    <3> QED BY <3>1, <2>1
  <2>2. CASE s # slot
    <3>1. s \in DOMAIN t.roots
      BY <2>2, <1>2
    <3>2. PICK j \in recent(t) : (j - 1) % H = s
      BY <3>1, <1>5
    <3>3. j \in 1 .. n /\ j > n - H
      BY <1>3
    <3>4. j # n + 1 - H
      <4> SUFFICES ASSUME j = n + 1 - H PROVE FALSE
        OBVIOUS
      <4>1. n >= H /\ j - 1 = n - H
        BY <3>3, <1>1
      <4>2. (n - H) % H = n % H
        BY <4>1, <1>1, ModShift
      <4> QED BY <4>1, <4>2, <3>2, <2>2
    <3>5. j \in recent(u)
      BY <3>3, <3>4, <1>3, <1>1
    <3> QED BY <3>5, <3>2
  <2> QED BY <2>1, <2>2
<1> QED BY <1>7, <1>8 DEF RingHoldsRecent, u

\* log2 continues log by the roots of the insertions of outputs into t.
LogContinues(log, log2, t, outputs) ==
    /\ \A j \in 1 .. t.roots_count : log2[j] = log[j]
    /\ \A i \in 1 .. Len(outputs) : log2[t.roots_count + i] = insertions(t, outputs)[i].root

\* A transaction's insertions keep the shape and the ring, by the least
\* number of outputs after which they would not.
LEMMA InsertAll ==
    ASSUME NEW Leaf, NEW t, NEW outputs \in Seq(Leaf), NEW log, NEW log2,
           TreeShape(t, Leaf), fits(t, Len(outputs)), RingHoldsRecent(t, log),
           LogContinues(log, log2, t, outputs)
    PROVE  /\ TreeShape(insert_all(t, outputs), Leaf)
           /\ RingHoldsRecent(insert_all(t, outputs), log2)
           /\ insert_all(t, outputs).next_index = t.next_index + Len(outputs)
<1> DEFINE f == insertions(t, outputs)
           N == Len(outputs)
           Good(i) == /\ TreeShape(f[i], Leaf)
                      /\ RingHoldsRecent(f[i], log2)
                      /\ f[i].next_index = t.next_index + i
           Bad == {i \in 0 .. N : ~ Good(i)}
<1>0. /\ \A j \in 1 .. t.roots_count : log2[j] = log[j]
      /\ \A i \in 1 .. N : log2[t.roots_count + i] = f[i].root
  BY DEF LogContinues
<1>1. N \in Nat /\ t.next_index \in Nat /\ t.next_index = t.roots_count
      /\ t.next_index + N <= Capacity /\ Capacity \in Nat
  BY Pow2Facts DEF TreeShape, fits
<1>2. f[0] = t /\ \A i \in 1 .. N : f[i] = insert_commitment(f[i - 1], outputs[i])
  BY <1>1, InsertionsDef
<1>3. Good(0)
  <2>1. RingHoldsRecent(t, log2)
    <3>1. \A j \in recent(t) : log2[j] = log[j]
      BY <1>0 DEF recent
    <3> QED BY <3>1 DEF RingHoldsRecent
  <2> QED BY <2>1, <1>1, <1>2
<1>4. ASSUME NEW i \in 1 .. N, Good(i - 1) PROVE Good(i)
  <2> DEFINE v == f[i - 1]  w == insert_commitment(v, outputs[i])
  <2>1. f[i] = w
    BY <1>2
  <2>2. /\ TreeShape(v, Leaf) /\ RingHoldsRecent(v, log2) /\ v.next_index = t.next_index + (i - 1)
    BY <1>4
  <2>3. v.roots_count = t.roots_count + (i - 1) /\ fits(v, 1) /\ outputs[i] \in Leaf
    BY <2>2, <1>1 DEF TreeShape, fits
  <2>4. log2[v.roots_count + 1] = w.root
    <3>1. v.roots_count + 1 = t.roots_count + i
      BY <2>3, <1>1
    <3> QED BY <3>1, <2>1, <1>0
  <2> HIDE DEF f, v
  <2>5. TreeShape(w, Leaf) /\ w.next_index = v.next_index + 1
    BY <2>2, <2>3, InsertShape
  <2>6. RingHoldsRecent(w, log2)
    BY <2>2, <2>3, <2>4, InsertRing
  <2>7. w.next_index = t.next_index + i
    BY <2>5, <2>2, <1>1
  <2> QED BY <2>1, <2>5, <2>6, <2>7
<1> HIDE DEF Good
<1>5. Bad = {}
  <2> SUFFICES ASSUME Bad # {} PROVE FALSE
    OBVIOUS
  <2>1. Bad \in SUBSET Nat
    BY <1>1
  <2>2. PICK m \in Bad : \A k \in Bad : m <= k
    <3> HIDE DEF Bad
    <3> QED BY <2>1, LeastElement
  <2>3. m \in 1 .. N /\ ~ Good(m)
    BY <1>3, <1>1
  <2>4. Good(m - 1)
    BY <2>2, <2>3, <1>1
  <2> QED BY <2>3, <2>4, <1>4
<1>6. Good(N)
  BY <1>5, <1>1
<1> QED BY <1>6 DEF Good, insert_all

\* Tree u is tree t with the first i outputs appended.
Appended(t, outputs, u, i) ==
    /\ u.next_index = t.next_index + i
    /\ Len(u.commitments) = t.next_index + i
    /\ \A k \in 1 .. t.next_index : u.commitments[k] = t.commitments[k]
    /\ \A k \in 1 .. i : u.commitments[t.next_index + k] = outputs[k]

\* A transaction's insertions append its outputs to the flat list one by
\* one: leaves already there stay where they are.
LEMMA InsertionsAppend ==
    ASSUME NEW Leaf, NEW t, NEW outputs \in Seq(Leaf), TreeShape(t, Leaf)
    PROVE  \A i \in 0 .. Len(outputs) :
             /\ Appended(t, outputs, insertions(t, outputs)[i], i)
             /\ insertions(t, outputs)[i].commitments \in Seq(Leaf)
<1> DEFINE f == insertions(t, outputs)
           N == Len(outputs)
           n == t.next_index
           Good(i) == /\ f[i].next_index = n + i
                      /\ f[i].commitments \in Seq(Leaf) /\ Len(f[i].commitments) = n + i
                      /\ \A k \in 1 .. n : f[i].commitments[k] = t.commitments[k]
                      /\ \A k \in 1 .. i : f[i].commitments[n + k] = outputs[k]
           Bad == {i \in 0 .. N : ~ Good(i)}
<1>1. N \in Nat /\ n \in Nat
  BY DEF TreeShape
<1>2. f[0] = t /\ \A i \in 1 .. N : f[i] = insert_commitment(f[i - 1], outputs[i])
  BY <1>1, InsertionsDef
<1>3. Good(0)
  BY <1>1, <1>2 DEF TreeShape
<1>4. ASSUME NEW i \in 1 .. N, Good(i - 1) PROVE Good(i)
  <2> DEFINE v == f[i - 1].commitments  w == f[i].commitments
  <2>1. /\ w = Append(v, outputs[i]) /\ outputs[i] \in Leaf
        /\ f[i].next_index = f[i - 1].next_index + 1
    <3>1. f[i] = insert_commitment(f[i - 1], outputs[i])
      BY <1>2
    <3> HIDE DEF f
    <3> QED BY <3>1 DEF insert_commitment
  <2>2. /\ v \in Seq(Leaf) /\ Len(v) = n + (i - 1)
        /\ \A k \in 1 .. n : v[k] = t.commitments[k]
        /\ \A k \in 1 .. i - 1 : v[n + k] = outputs[k]
    BY <1>4
  <2>6. f[i].next_index = n + i
    <3>1. f[i - 1].next_index = n + (i - 1)
      BY <1>4
    <3> HIDE DEF f, n
    <3> QED BY <3>1, <2>1, <1>1
  <2> HIDE DEF v, w, f, n
  <2>3. w \in Seq(Leaf) /\ Len(w) = n + i /\ w[n + i] = outputs[i]
        /\ \A k \in 1 .. n + (i - 1) : w[k] = v[k]
    BY <2>1, <2>2, <1>1
  <2>4. \A k \in 1 .. n : w[k] = t.commitments[k]
    BY <2>2, <2>3, <1>1
  <2>5. ASSUME NEW k \in 1 .. i PROVE w[n + k] = outputs[k]
    <3>1. CASE k = i
      BY <3>1, <2>3
    <3>2. CASE k # i
      <4>1. k \in 1 .. i - 1 /\ n + k \in 1 .. n + (i - 1)
        BY <3>2, <1>1
      <4> QED BY <4>1, <2>2, <2>3
    <3> QED BY <3>1, <3>2
  <2> QED BY <2>3, <2>4, <2>5, <2>6 DEF w
<1> HIDE DEF Good
<1>5. Bad = {}
  <2> SUFFICES ASSUME Bad # {} PROVE FALSE
    OBVIOUS
  <2>1. Bad \in SUBSET Nat
    BY <1>1
  <2>2. PICK m \in Bad : \A k \in Bad : m <= k
    <3> HIDE DEF Bad
    <3> QED BY <2>1, LeastElement
  <2>3. m \in 1 .. N /\ ~ Good(m)
    BY <1>3, <1>1
  <2>4. Good(m - 1)
    BY <2>2, <2>3, <1>1
  <2> QED BY <2>3, <2>4, <1>4
<1>6. \A i \in 0 .. N : Good(i)
  BY <1>5, <1>1
<1> QED BY <1>6 DEF Good, Appended

LEMMA InsertAllAppends ==
    ASSUME NEW Leaf, NEW t, NEW outputs \in Seq(Leaf), TreeShape(t, Leaf)
    PROVE  /\ insert_all(t, outputs).next_index = t.next_index + Len(outputs)
           /\ \A k \in 1 .. t.next_index : insert_all(t, outputs).commitments[k] = t.commitments[k]
           /\ \A k \in 1 .. Len(outputs) :
                insert_all(t, outputs).commitments[t.next_index + k] = outputs[k]
<1>1. Len(outputs) \in 0 .. Len(outputs)
  OBVIOUS
<1>2. Appended(t, outputs, insert_all(t, outputs), Len(outputs))
  BY <1>1, InsertionsAppend DEF insert_all
<1> QED BY <1>2 DEF Appended

-----------------------------------------------------------------------------
\* The stored root is the root of the rebuild, and the stored siblings are
\* those the next insertion needs: the inductive form of RootsMatchRebuild.
TreeExact(t) == t.root = rebuilt_root(t.commitments) /\ FilledOk(t.filled, t.commitments)

LEMMA GenesisExact == TreeExact(genesis_tree)
<1>1. /\ genesis_tree.root = empty_root /\ genesis_tree.commitments = << >>
  BY DEF genesis_tree
<1>2. ASSUME NEW l \in Levels PROVE is_left(0, l)
  <2>1. 0 \in 0 .. Capacity - 1 /\ l + 1 \in 0 .. TREE_DEPTH /\ l \in 0 .. TREE_DEPTH
    BY Pow2Facts, LevelFacts
  <2>2. pow2[l] \in Nat \ {0}
    BY <2>1, Pow2Facts
  <2>3. \A p \in Nat \ {0} : (0 \div p) % 2 = 0
    <3>1. ASSUME NEW p \in Nat \ {0} PROVE 0 \div p = 0
      <4>1. 0 = p * (0 \div p) + (0 % p) /\ (0 \div p) \in Nat /\ 0 % p \in 0 .. p - 1
        BY DivMod, ModRange
      <4> QED BY <4>1
    <3> QED BY <3>1
  <2> QED BY <2>2, <2>3 DEF is_left
<1>3. FilledOk(genesis_tree.filled, << >>)
  <2>1. Len(<< >>) = 0
    OBVIOUS
  <2> QED BY <2>1, <1>2 DEF FilledOk
<1> QED BY <1>1, <1>3, EmptyRebuild DEF TreeExact

LEMMA InsertTreeExact ==
    ASSUME NEW Leaf, NEW t, NEW c \in Leaf, TreeShape(t, Leaf), fits(t, 1), TreeExact(t)
    PROVE  TreeExact(insert_commitment(t, c))
<1> DEFINE u == insert_commitment(t, c)
<1>1. /\ t.commitments \in Seq(Leaf) /\ Len(t.commitments) = t.next_index
      /\ Len(t.commitments) < Capacity /\ FilledOk(t.filled, t.commitments)
  BY Pow2Facts DEF TreeShape, fits, TreeExact
<1>2. /\ u.root = compute_insert(c, Len(t.commitments), t.filled).root
      /\ u.filled = compute_insert(c, Len(t.commitments), t.filled).filled
      /\ u.commitments = Append(t.commitments, c)
  BY <1>1 DEF insert_commitment
<1> HIDE DEF u
<1>3. u.root = rebuilt_root(u.commitments) /\ FilledOk(u.filled, u.commitments)
  BY <1>1, <1>2, InsertExact
<1> QED BY <1>3 DEF TreeExact, u

\* Each of the trees a transaction goes through is exact.
LEMMA InsertionsExact ==
    ASSUME NEW Leaf, NEW t, NEW outputs \in Seq(Leaf),
           TreeShape(t, Leaf), fits(t, Len(outputs)), TreeExact(t)
    PROVE  \A i \in 0 .. Len(outputs) : TreeExact(insertions(t, outputs)[i])
<1> DEFINE f == insertions(t, outputs)
           N == Len(outputs)
           Good(i) == /\ TreeShape(f[i], Leaf) /\ TreeExact(f[i])
                      /\ f[i].next_index = t.next_index + i
           T == {i \in Nat : i <= N => Good(i)}
<1>1. N \in Nat /\ t.next_index \in Nat /\ t.next_index + N <= Capacity /\ Capacity \in Nat
  BY Pow2Facts DEF TreeShape, fits
<1>2. f[0] = t /\ \A i \in 1 .. N : f[i] = insert_commitment(f[i - 1], outputs[i])
  BY <1>1, InsertionsDef
<1>3. Good(0)
  BY <1>1, <1>2
<1>4. ASSUME NEW i \in Nat, i + 1 <= N, Good(i) PROVE Good(i + 1)
  <2> DEFINE v == f[i]  w == insert_commitment(v, outputs[i + 1])
  <2>1. i + 1 \in 1 .. N /\ (i + 1) - 1 = i
    BY <1>1, <1>4
  <2>2. f[i + 1] = w /\ outputs[i + 1] \in Leaf
    BY <2>1, <1>2
  <2>3. TreeShape(v, Leaf) /\ TreeExact(v) /\ v.next_index = t.next_index + i
    BY <1>4
  <2>4. fits(v, 1)
    <3> HIDE DEF v
    <3> QED BY <2>3, <1>1, <1>4 DEF fits
  <2> HIDE DEF f, v
  <2>5. TreeShape(w, Leaf) /\ TreeExact(w) /\ w.next_index = v.next_index + 1
    BY <2>2, <2>3, <2>4, InsertShape, InsertTreeExact
  <2>6. w.next_index = t.next_index + (i + 1)
    BY <2>3, <2>5, <1>1
  <2> QED BY <2>2, <2>5, <2>6
<1> HIDE DEF Good
<1>5. 0 \in T /\ \A i \in T : i + 1 \in T
  BY <1>1, <1>3, <1>4
<1> HIDE DEF T
<1>6. \A i \in Nat : i \in T
  BY <1>5, SetInduction DEF T
<1>7. \A i \in 0 .. N : i \in Nat /\ i <= N
  BY <1>1
<1> QED BY <1>6, <1>7 DEF T, Good

\* A list that agrees with the beginning of another is a prefix of it.
LEMMA PrefixIs ==
    ASSUME NEW Leaf, NEW s \in Seq(Leaf), NEW u \in Seq(Leaf), Len(s) <= Len(u),
           \A k \in 1 .. Len(s) : s[k] = u[k]
    PROVE  SubSeq(u, 1, Len(s)) = s
OBVIOUS

\* The ring answers is_known_root for exactly the recent roots.
LEMMA KnownIffRecent ==
    ASSUME NEW Leaf, NEW t, NEW log, NEW root, TreeShape(t, Leaf), RingHoldsRecent(t, log)
    PROVE  is_known_root(t, root) <=> \E j \in recent(t) : log[j] = root
<1> DEFINE H == ROOTS_HISTORY_SIZE  n == t.roots_count
<1>1. n \in Nat /\ H \in Nat \ {0} /\ DOMAIN t.roots = {s \in 0 .. H - 1 : s < n}
  BY HistoryAssumption DEF TreeShape
<1>2. is_known_root(t, root) <=> \E s \in DOMAIN t.roots : t.roots[s] = root
  <2>1. ASSUME NEW i \in 0 .. n - 1, i < H PROVE i % H = i /\ i \in DOMAIN t.roots
    <3>1. i \in 0 .. H - 1
      BY <2>1, <1>1
    <3>2. i % H = i
      <4> HIDE DEF H
      <4> QED BY <3>1, <1>1, ModSmall
    <3> QED BY <3>1, <3>2, <1>1
  <2>2. \A s \in DOMAIN t.roots : s \in 0 .. n - 1 /\ s < H
    BY <1>1
  <2> HIDE DEF n
  <2>3. is_known_root(t, root) <=> \E i \in 0 .. n - 1 : /\ i < H
                                                        /\ i % H \in DOMAIN t.roots
                                                        /\ t.roots[i % H] = root
    BY Zenon DEF is_known_root, n
  <2> HIDE DEF H
  <2> QED BY <2>1, <2>2, <2>3
<1>3. ASSUME NEW j \in recent(t) PROVE (j - 1) % H \in DOMAIN t.roots
  <2>1. j - 1 \in Nat /\ j - 1 < n
    BY <1>1 DEF recent
  <2>2. (j - 1) % H \in 0 .. H - 1
    <3> HIDE DEF H
    <3> QED BY <2>1, <1>1, ModRange
  <2>3. n < H => (j - 1) % H = j - 1
    <3> HIDE DEF H
    <3>1. n < H => j - 1 \in 0 .. H - 1
      BY <2>1, <1>1
    <3> QED BY <3>1, <1>1, ModSmall
  <2> HIDE DEF n, H
  <2> QED BY <1>1, <2>1, <2>2, <2>3
<1> QED BY <1>2, <1>3 DEF RingHoldsRecent
-----------------------------------------------------------------------------
\* The pool.
\* The siblings stored by insert_commitment are those the next one needs.
SiblingsInv == FilledOk(tree.filled, tree.commitments)

PoolInv == /\ PoolTypeOK /\ RingInv /\ RootsMatchRebuild /\ SiblingsInv
           /\ RevealedAtMostOnce /\ SupplyAccounting

\* The state of genesis satisfies the invariant.
LEMMA PoolInitInv == PoolInit => PoolInv
<1> SUFFICES ASSUME PoolInit PROVE PoolInv
  OBVIOUS
<1> USE DEF PoolInit
<1>1. PoolTypeOK
  <2>1. /\ tree.next_index = 0 /\ tree.roots_count = 0 /\ tree.commitments = << >>
        /\ DOMAIN tree.filled = Levels /\ DOMAIN tree.roots = {}
    BY DEF genesis_tree
  <2>2. TreeShape(tree, Leaves)
    BY <2>1, Pow2Facts, HistoryAssumption DEF TreeShape
  <2>3. DOMAIN root_log = 1 .. tree.roots_count
    BY <2>1
  <2> QED BY <2>2, <2>3, PoolAssumption DEF PoolTypeOK
<1>2. RingInv
  BY DEF RingInv, RingHoldsRecent, recent, genesis_tree
<1>3. RevealedAtMostOnce
  BY DEF RevealedAtMostOnce
<1>4. SupplyAccounting
  BY PoolAssumption DEF SupplyAccounting
<1>5. RootsMatchRebuild /\ SiblingsInv
  <2>1. tree = genesis_tree /\ tree.roots_count = 0
    BY DEF genesis_tree
  <2> QED BY <2>1, GenesisExact DEF RootsMatchRebuild, SiblingsInv, TreeExact
<1> QED BY <1>1, <1>2, <1>3, <1>4, <1>5 DEF PoolInv

-----------------------------------------------------------------------------
\* The parts of the invariant, each over the variables it speaks of.
TreePart   == /\ TreeShape(tree, Leaves) /\ DOMAIN root_log = 1 .. tree.roots_count
              /\ RingInv /\ RootsMatchRebuild /\ SiblingsInv
SpendPart  == /\ nullifiers \subseteq Nullifiers /\ reveals \in [Nullifiers -> Nat]
              /\ RevealedAtMostOnce
SupplyPart == /\ shielded_supply \in [Assets -> 0 .. U64 - 1]
              /\ minted \in [Assets -> Nat] /\ burned \in [Assets -> Nat]
              /\ SupplyAccounting
CountPart  == compliance_tx_count \in 0 .. U64 - 1 /\ compliance_total_volume \in 0 .. U64 - 1

LEMMA PoolInvParts == PoolInv <=> TreePart /\ SpendPart /\ SupplyPart /\ CountPart
BY DEF PoolInv, PoolTypeOK, TreePart, SpendPart, SupplyPart, CountPart

\* Insertions into the tree.
LEMMA InsertPart ==
    ASSUME NEW outputs \in Seq(Leaves), TreePart, Insert(outputs)
    PROVE  TreePart'
<1> DEFINE n == tree.roots_count  N == Len(outputs)
<1>1. n \in Nat /\ n = tree.next_index /\ N \in Nat
  BY DEF TreePart, TreeShape
<1>2. /\ DOMAIN root_log' = 1 .. n + N
      /\ \A j \in 1 .. n : root_log'[j] = root_log[j]
      /\ \A i \in 1 .. N : root_log'[n + i] = insertions(tree, outputs)[i].root
  <2>1. root_log' = [j \in 1 .. n + N |-> IF j <= n THEN root_log[j]
                                          ELSE insertions(tree, outputs)[j - n].root]
    BY DEF Insert
  <2> HIDE DEF n, N
  <2>2. ASSUME NEW i \in 1 .. N PROVE root_log'[n + i] = insertions(tree, outputs)[i].root
    <3>1. n + i \in 1 .. n + N /\ ~ (n + i <= n) /\ (n + i) - n = i
      BY <1>1
    <3> QED BY <2>1, <3>1
  <2> QED BY <2>1, <2>2, <1>1
<1>3. fits(tree, N) /\ tree' = insert_all(tree, outputs)
  BY DEF Insert
<1>4. /\ TreeShape(tree', Leaves) /\ RingHoldsRecent(tree', root_log')
      /\ tree'.next_index = tree.next_index + N
  <2>1. TreeShape(tree, Leaves) /\ RingHoldsRecent(tree, root_log)
    BY DEF TreePart, RingInv
  <2>2. LogContinues(root_log, root_log', tree, outputs)
    BY <1>2 DEF LogContinues
  <2>3. /\ TreeShape(insert_all(tree, outputs), Leaves)
        /\ RingHoldsRecent(insert_all(tree, outputs), root_log')
        /\ insert_all(tree, outputs).next_index = tree.next_index + Len(outputs)
    BY <1>3, <2>1, <2>2, InsertAll
  <2> QED BY <1>3, <2>3
<1>5. DOMAIN root_log' = 1 .. tree'.roots_count
  BY <1>1, <1>2, <1>4 DEF TreeShape
<1>6. RingInv'
  BY <1>4 DEF RingInv
<1>7. TreeShape(tree, Leaves)'
  BY <1>4 DEF Leaves
<1>8. \A i \in 0 .. N : /\ TreeExact(insertions(tree, outputs)[i])
                        /\ Appended(tree, outputs, insertions(tree, outputs)[i], i)
                        /\ insertions(tree, outputs)[i].commitments \in Seq(Leaves)
  <2>1. TreeShape(tree, Leaves) /\ TreeExact(tree)
    BY DEF TreePart, RootsMatchRebuild, SiblingsInv, TreeExact
  <2> QED BY <2>1, <1>3, InsertionsExact, InsertionsAppend
<1>9. TreeExact(tree') /\ Appended(tree, outputs, tree', N) /\ tree'.commitments \in Seq(Leaves)
  <2>1. N \in 0 .. N
    BY <1>1
  <2> QED BY <2>1, <1>3, <1>8 DEF insert_all
<1> DEFINE all == tree'.commitments
<1>10. ASSUME NEW s \in Seq(Leaves), Len(s) <= n + N, \A k \in 1 .. Len(s) : s[k] = all[k]
       PROVE  SubSeq(all, 1, Len(s)) = s
  <2>1. all \in Seq(Leaves) /\ Len(all) = n + N
    BY <1>1, <1>9 DEF Appended
  <2> HIDE DEF all, n, N
  <2> QED BY <2>1, <1>10, PrefixIs
<1>11. ASSUME NEW j \in 1 .. n + N PROVE root_log'[j] = rebuilt_root(SubSeq(all, 1, j))
  <2>1. CASE j \in 1 .. n
    <3> DEFINE s == SubSeq(tree.commitments, 1, j)
    <3>1. tree.commitments \in Seq(Leaves) /\ Len(tree.commitments) = n
      BY <1>1 DEF TreePart, TreeShape
    <3>2. s \in Seq(Leaves) /\ Len(s) = j /\ \A k \in 1 .. j : s[k] = tree.commitments[k]
      BY <2>1, <3>1, <1>1
    <3>3. \A k \in 1 .. n : all[k] = tree.commitments[k]
      BY <1>1, <1>9 DEF Appended
    <3> HIDE DEF s, all, n, N
    <3>4. j <= n + N /\ \A k \in 1 .. j : k \in 1 .. n
      BY <2>1, <1>1
    <3>5. SubSeq(all, 1, j) = s
      BY <3>2, <3>3, <3>4, <1>10
    <3>6. root_log[j] = rebuilt_root(s)
      BY <2>1 DEF TreePart, RootsMatchRebuild, s, n
    <3> QED BY <2>1, <3>5, <3>6, <1>2
  <2>2. CASE j \notin 1 .. n
    <3> DEFINE i == j - n  u == insertions(tree, outputs)[i]  s == u.commitments
    <3>1. i \in 1 .. N /\ i \in 0 .. N /\ n + i = j /\ j <= n + N
      BY <2>2, <1>1
    <3> HIDE DEF i
    <3>2. root_log'[j] = u.root
      BY <3>1, <1>2
    <3>3. TreeExact(u) /\ Appended(tree, outputs, u, i) /\ s \in Seq(Leaves)
      BY <3>1, <1>8
    <3>4. u.root = rebuilt_root(s)
      BY <3>3 DEF TreeExact
    <3>5. /\ Len(s) = n + i
          /\ \A k \in 1 .. n : s[k] = tree.commitments[k] /\ all[k] = tree.commitments[k]
          /\ \A k \in 1 .. i : s[n + k] = outputs[k]
          /\ \A k \in 1 .. N : all[n + k] = outputs[k]
      BY <3>3, <1>1, <1>9 DEF Appended
    <3> HIDE DEF u, s, all, n, N
    <3>6. ASSUME NEW k \in 1 .. n + i PROVE s[k] = all[k]
      <4>1. CASE k \in 1 .. n
        BY <4>1, <3>5
      <4>2. CASE k \notin 1 .. n
        <5>1. k - n \in 1 .. i /\ k - n \in 1 .. N /\ n + (k - n) = k
          BY <4>2, <3>1, <1>1
        <5>2. s[n + (k - n)] = all[n + (k - n)]
          BY <5>1, <3>5
        <5> QED BY <5>1, <5>2
      <4> QED BY <4>1, <4>2
    <3>7. SubSeq(all, 1, j) = s
      BY <3>1, <3>3, <3>5, <3>6, <1>10
    <3> QED BY <3>2, <3>4, <3>7
  <2> QED BY <2>1, <2>2
<1>12. RootsMatchRebuild'
  <2>1. tree'.roots_count = n + N
    BY <1>1, <1>4 DEF TreeShape
  <2>2. tree'.root = rebuilt_root(all)
    BY <1>9 DEF TreeExact
  <2> QED BY <2>1, <2>2, <1>11 DEF RootsMatchRebuild
<1>13. SiblingsInv'
  BY <1>9 DEF TreeExact, SiblingsInv
<1> QED BY <1>5, <1>6, <1>7, <1>12, <1>13 DEF TreePart

\* Revealing nullifiers.
LEMMA RevealPart ==
    ASSUME NEW list \in Seq(Nullifiers), SpendPart, Spend(list)
    PROVE  SpendPart'
<1> DEFINE spent == {list[i] : i \in 1 .. Len(list)}
<1>1. spent \subseteq Nullifiers
  OBVIOUS
<1>2. /\ spent \cap nullifiers = {}
      /\ nullifiers' = nullifiers \cup spent
      /\ reveals' = [n \in Nullifiers |-> IF n \in spent THEN reveals[n] + 1 ELSE reveals[n]]
  BY DEF Spend
<1> HIDE DEF spent
<1>3. \A n \in Nullifiers : reveals[n] = IF n \in nullifiers THEN 1 ELSE 0
  BY DEF SpendPart, RevealedAtMostOnce
<1>4. \A n \in Nullifiers : reveals'[n] = IF n \in nullifiers' THEN 1 ELSE 0
  BY <1>2, <1>3
<1>5. nullifiers' \subseteq Nullifiers /\ reveals' \in [Nullifiers -> Nat]
  BY <1>1, <1>2 DEF SpendPart
<1> QED BY <1>4, <1>5 DEF SpendPart, RevealedAtMostOnce

\* A sum that stays below the width of a u64 does not wrap, and a wrapped
\* one is smaller than the sum.
LEMMA WrapFacts ==
    ASSUME NEW n \in Nat
    PROVE  wrap(n) \in 0 .. U64 - 1 /\ wrap(n) <= n /\ (n < U64 => wrap(n) = n)
<1>1. U64 \in Nat \ {0}
  BY PoolAssumption
<1>2. wrap(n) \in 0 .. U64 - 1
  BY <1>1, ModRange DEF wrap
<1>3. ASSUME n < U64 PROVE wrap(n) = n
  <2>1. n \in 0 .. U64 - 1
    BY <1>1, <1>3
  <2> QED BY <1>1, <2>1, ModSmall DEF wrap
<1> QED BY <1>1, <1>2, <1>3

\* Adding to the supply.
LEMMA CreditPart ==
    ASSUME NEW asset \in Assets, NEW amount \in Nat, SupplyPart, Credit(asset, amount)
    PROVE  SupplyPart'
<1>1. /\ shielded_supply' = [shielded_supply EXCEPT ![asset] = wrap(@ + amount)]
      /\ minted' = [minted EXCEPT ![asset] = @ + amount]
      /\ burned' = burned
  BY DEF Credit
<1>2. /\ shielded_supply \in [Assets -> 0 .. U64 - 1]
      /\ minted \in [Assets -> Nat] /\ burned \in [Assets -> Nat]
      /\ U64 \in Nat \ {0}
      /\ \A a \in Assets : /\ shielded_supply[a] <= minted[a]
                           /\ minted[a] < U64 => minted[a] - burned[a] <= shielded_supply[a]
  BY PoolAssumption DEF SupplyPart, SupplyAccounting
<1> DEFINE sum == shielded_supply[asset] + amount
<1>3. sum \in Nat
  BY <1>2
<1>4. wrap(sum) \in 0 .. U64 - 1 /\ wrap(sum) <= sum /\ (sum < U64 => wrap(sum) = sum)
  <2> HIDE DEF sum
  <2> QED BY <1>3, WrapFacts
<1>5. shielded_supply' \in [Assets -> 0 .. U64 - 1] /\ minted' \in [Assets -> Nat] /\ burned' \in [Assets -> Nat]
  BY <1>1, <1>2, <1>4
<1>6. ASSUME NEW a \in Assets
      PROVE  /\ shielded_supply'[a] <= minted'[a]
             /\ minted'[a] < U64 => minted'[a] - burned'[a] <= shielded_supply'[a]
  <2>1. CASE a = asset
    <3>1. shielded_supply'[a] = wrap(sum) /\ minted'[a] = minted[a] + amount
      BY <2>1, <1>1, <1>2
    <3>2. shielded_supply[a] \in Nat /\ minted[a] \in Nat /\ burned[a] \in Nat /\ sum = shielded_supply[a] + amount
      BY <2>1, <1>2
    <3> HIDE DEF sum
    <3> QED BY <3>1, <3>2, <1>1, <1>2, <1>4
  <2>2. CASE a # asset
    BY <2>2, <1>1, <1>2
  <2> QED BY <2>1, <2>2
<1> QED BY <1>5, <1>6 DEF SupplyPart, SupplyAccounting

\* Taking from the supply, saturating at zero.
LEMMA DebitPart ==
    ASSUME NEW asset \in Assets, NEW amount \in Nat, SupplyPart, Debit(asset, amount)
    PROVE  SupplyPart'
<1>1. /\ shielded_supply' = [shielded_supply EXCEPT ![asset] = IF amount <= @ THEN @ - amount ELSE 0]
      /\ burned' = [burned EXCEPT ![asset] = @ + amount]
      /\ minted' = minted
  BY DEF Debit
<1>2. /\ shielded_supply \in [Assets -> 0 .. U64 - 1]
      /\ minted \in [Assets -> Nat] /\ burned \in [Assets -> Nat]
      /\ U64 \in Nat \ {0}
      /\ \A a \in Assets : /\ shielded_supply[a] <= minted[a]
                           /\ minted[a] < U64 => minted[a] - burned[a] <= shielded_supply[a]
  BY PoolAssumption DEF SupplyPart, SupplyAccounting
<1>3. shielded_supply' \in [Assets -> 0 .. U64 - 1] /\ burned' \in [Assets -> Nat]
  BY <1>1, <1>2
<1>4. ASSUME NEW a \in Assets
      PROVE  /\ shielded_supply'[a] <= minted'[a]
             /\ minted'[a] < U64 => minted'[a] - burned'[a] <= shielded_supply'[a]
  BY <1>1, <1>2
<1> QED BY <1>1, <1>2, <1>3, <1>4 DEF SupplyPart, SupplyAccounting
-----------------------------------------------------------------------------
\* Every accepted transaction preserves the invariant.
LEMMA PoolNextInv == PoolInv /\ [PoolNext]_poolVars => PoolInv'
<1> SUFFICES ASSUME TreePart, SpendPart, SupplyPart, CountPart, [PoolNext]_poolVars
             PROVE  TreePart' /\ SpendPart' /\ SupplyPart' /\ CountPart'
  <2>1. PoolInv' <=> TreePart' /\ SpendPart' /\ SupplyPart' /\ CountPart'
    BY DEF PoolInv, PoolTypeOK, TreePart, SpendPart, SupplyPart, CountPart
  <2> QED BY PoolInvParts, <2>1
<1>1. UNCHANGED treeVars => TreePart'
  <2> SUFFICES ASSUME UNCHANGED treeVars PROVE TreePart'
    OBVIOUS
  <2>1. tree' = tree /\ root_log' = root_log
    BY DEF treeVars
  <2>2. TreeShape(tree, Leaves)' /\ (DOMAIN root_log = 1 .. tree.roots_count)' /\ RingInv'
    BY <2>1 DEF TreePart, RingInv, TreeShape, RingHoldsRecent, recent, Leaves
  <2>3. RootsMatchRebuild' /\ SiblingsInv'
    BY <2>1 DEF TreePart, RootsMatchRebuild, SiblingsInv
  <2> QED BY <2>2, <2>3 DEF TreePart
<1>2. UNCHANGED spendVars => SpendPart'
  BY DEF spendVars, SpendPart, RevealedAtMostOnce
<1>3. UNCHANGED supplyVars => SupplyPart'
  BY DEF supplyVars, SupplyPart, SupplyAccounting
<1>4. UNCHANGED complianceVars => CountPart'
  BY DEF complianceVars, CountPart
<1>5. CASE Shield
  <2>1. PICK note \in Notes, encrypted \in Ciphertexts \cup {Empty} : handle_shield(note, encrypted)
    BY <1>5 DEF Shield
  <2>2. <<HashNote(note)>> \in Seq(Leaves) /\ note.asset_id \in Assets /\ note.amount \in Nat
    BY PoolAssumption DEF Leaves
  <2>3. /\ Insert(<<HashNote(note)>>) /\ Credit(note.asset_id, note.amount)
        /\ UNCHANGED <<spendVars, complianceVars>>
    BY <2>1 DEF handle_shield
  <2>4. TreePart' /\ SupplyPart'
    BY <2>2, <2>3, InsertPart, CreditPart
  <2> QED BY <2>3, <2>4, <1>2, <1>4
<1>6. CASE Transfer
  <2>1. PICK msg \in TransferMessages, now \in Clock : handle_transfer(msg, now)
    BY <1>6 DEF Transfer
  <2>2. /\ msg.nullifiers \in Seq(Nullifiers) /\ msg.output_commitments \in Seq(Leaves)
        /\ msg.transfer_amount \in Nat
    <3>1. msg.nullifiers \in NullifierLists /\ msg.output_commitments \in OutputLists
          /\ msg.transfer_amount \in Amounts
      BY DEF TransferMessages
    <3>2. msg.output_commitments \in Seq(Commitments)
      BY <3>1, PoolAssumption
    <3>3. msg.output_commitments \in Seq(Leaves)
      BY <3>2 DEF Leaves
    <3>4. msg.nullifiers \in Seq(Nullifiers)
      BY <3>1, PoolAssumption
    <3>5. \A amount \in Amounts : amount \in Nat
      BY PoolAssumption
    <3> QED BY <3>1, <3>3, <3>4, <3>5
  <2>3. /\ Spend(msg.nullifiers) /\ Insert(msg.output_commitments)
        /\ compliance_tx_count' = wrap(compliance_tx_count + 1)
        /\ compliance_total_volume' = wrap(compliance_total_volume + msg.transfer_amount)
        /\ UNCHANGED supplyVars
    BY <2>1 DEF handle_transfer
  <2>4. CountPart'
    <3>1. compliance_tx_count + 1 \in Nat /\ compliance_total_volume + msg.transfer_amount \in Nat
      BY <2>2, PoolAssumption DEF CountPart
    <3> QED BY <2>3, <3>1, WrapFacts DEF CountPart
  <2> QED BY <2>2, <2>3, <2>4, <1>3, InsertPart, RevealPart
<1>7. CASE Unshield
  <2>1. PICK proof \in Proofs, nullifier \in Nullifiers, asset \in Assets, amount \in Amounts :
            handle_unshield(proof, nullifier, asset, amount)
    BY <1>7 DEF Unshield
  <2>2. <<nullifier>> \in Seq(Nullifiers) /\ amount \in Nat
    BY PoolAssumption
  <2>3. Spend(<<nullifier>>) /\ Debit(asset, amount) /\ UNCHANGED <<treeVars, complianceVars>>
    BY <2>1 DEF handle_unshield
  <2> QED BY <2>2, <2>3, <1>1, <1>4, RevealPart, DebitPart
<1>8. CASE UpdateSanctionsRoot
  BY <1>8, <1>1, <1>2, <1>3, <1>4 DEF UpdateSanctionsRoot, handle_update_sanctions_root
<1>9. CASE UNCHANGED poolVars
  BY <1>9, <1>1, <1>2, <1>3, <1>4 DEF poolVars
<1> QED BY <1>5, <1>6, <1>7, <1>8, <1>9 DEF PoolNext

LEMMA PoolInvariant == PoolSpec => []PoolInv
BY PoolInitInv, PoolNextInv, PTL DEF PoolSpec

\* With the ring in order, is_known_root is exact.
LEMMA PoolInvKnownRoots == PoolInv => KnownRootsAreRecent
<1> SUFFICES ASSUME PoolInv, NEW root \in ClaimedRoots
             PROVE  is_known_root(tree, root) <=> \E j \in recent(tree) : root_log[j] = root
  BY DEF KnownRootsAreRecent
<1>1. TreeShape(tree, Leaves) /\ RingHoldsRecent(tree, root_log)
  BY DEF PoolInv, PoolTypeOK, RingInv
<1> QED BY <1>1, KnownIffRecent

\* The state of the privacy module keeps its shape in every reachable state.
THEOREM PoolTypeCorrect == PoolSpec => []PoolTypeOK
<1>1. PoolInv => PoolTypeOK
  BY DEF PoolInv
<1> QED BY <1>1, PoolInvariant, PTL

\* is_known_root answers yes for exactly the last ROOTS_HISTORY_SIZE roots.
THEOREM KnownRootsCorrect == PoolSpec => []KnownRootsAreRecent
BY PoolInvKnownRoots, PoolInvariant, PTL

\* The roots insert_commitment stores are those of the off-chain rebuild at
\* every leaf count, whatever the depth of the tree and the hash function.
THEOREM RootsAlwaysMatch == PoolSpec => []RootsMatchRebuild
<1>1. PoolInv => RootsMatchRebuild
  BY DEF PoolInv
<1> QED BY <1>1, PoolInvariant, PTL

\* A rebuilt path leads to the on-chain root from its own leaf and, when no
\* two pairs have the same hash, from no other.
LEMMA PoolInvPaths ==
    ASSUME PoolInv, NEW i \in 1 .. tree.next_index, NEW leaf
    PROVE  LET proof == [leaf_index |-> i - 1, siblings |-> build_proof_paths(tree.commitments)[i],
                         root |-> tree.root]
           IN  /\ verify(proof, tree.commitments[i])
               /\ CollisionFree /\ verify(proof, leaf) => leaf = tree.commitments[i]
<1> DEFINE leaves == tree.commitments
           path == build_proof_paths(leaves)[i]
           proof == [leaf_index |-> i - 1, siblings |-> path, root |-> tree.root]
<1>1. /\ Len(leaves) = tree.next_index /\ Len(leaves) \in 0 .. Capacity /\ Len(leaves) \in Nat
      /\ tree.root = rebuilt_root(leaves)
  BY Pow2Facts DEF PoolInv, PoolTypeOK, TreeShape, RootsMatchRebuild
<1>2. Len(path) = TREE_DEPTH /\ climb(leaves[i], i - 1, path) = rebuilt_root(leaves)
  <2> HIDE DEF leaves
  <2> QED BY <1>1, PathSiblings, PathClimbs
<1>3. \A x : verify(proof, x) <=> climb(x, i - 1, path) = tree.root
  <2> HIDE DEF path
  <2> QED BY <1>2 DEF verify
<1> HIDE DEF path, leaves
<1>4. verify(proof, leaves[i])
  BY <1>1, <1>2, <1>3
<1>5. CollisionFree /\ verify(proof, leaf) => leaf = leaves[i]
  <2> SUFFICES ASSUME CollisionFree, verify(proof, leaf) PROVE leaf = leaves[i]
    OBVIOUS
  <2> HIDE DEF proof
  <2> DEFINE index == i - 1
  <2>1. climb(leaf, index, path) = climb(leaves[i], index, path) /\ Len(path) = TREE_DEPTH
    BY <1>1, <1>2, <1>3
  <2> HIDE DEF index
  <2> QED BY <2>1, ClimbInjective
<1> QED BY <1>4, <1>5 DEF path, leaves

\* A wallet's rebuilt path is accepted for its leaf against the on-chain root.
PathsAccepted ==
    \A i \in 1 .. tree.next_index :
        verify([leaf_index |-> i - 1, siblings |-> build_proof_paths(tree.commitments)[i],
                root |-> tree.root], tree.commitments[i])

\* Whatever the hash function, MerkleProof::verify accepts the path a wallet
\* rebuilds from the flat list of commitments.
THEOREM PathsAlwaysAccepted == PoolSpec => []PathsAccepted
<1>1. PoolInv => PathsAccepted
  BY PoolInvPaths DEF PathsAccepted
<1> QED BY <1>1, PoolInvariant, PTL

\* With a hash without collisions the path of a leaf is accepted for that
\* leaf and for no other.
THEOREM PathsAlwaysVerify ==
    ASSUME CollisionFree
    PROVE  PoolSpec => []PathsVerify
<1>1. PoolInv => PathsVerify
  BY CollisionFree, PoolInvPaths DEF PathsVerify
<1> QED BY <1>1, PoolInvariant, PTL

\* No nullifier is revealed by two accepted transactions.
THEOREM NoDoubleSpend == PoolSpec => []RevealedAtMostOnce
<1>1. PoolInv => RevealedAtMostOnce
  BY DEF PoolInv
<1> QED BY <1>1, PoolInvariant, PTL

\* The published supply stays between what is outstanding and what was shielded.
THEOREM SupplyIsAccounted == PoolSpec => []SupplyAccounting
<1>1. PoolInv => SupplyAccounting
  BY DEF PoolInv
<1> QED BY <1>1, PoolInvariant, PTL
-----------------------------------------------------------------------------
\* What the replay map and claimed_amounts know of the claims.
ClaimPart ==
    /\ claims \subseteq Claims
    /\ claimed_amounts \in [DepositIds -> DepositAmounts \cup {0}]
    /\ DepositsLandOnce
    /\ \A c \in claims : claimed_amounts[c.deposit_id] = c.amount

\* The records, and what the replay map knows of them.
WithdrawPart ==
    /\ next_withdrawal_id \in Nat
    /\ withdrawals \in [0 .. next_withdrawal_id - 1 -> WithdrawalRecords]
    /\ WithdrawalsBacked
    /\ \A d \in DepositIds : withdrawal_key(d) \in processed_deposits
                               <=> \E w \in DOMAIN withdrawals : withdrawals[w].deposit_id = d

\* Every proven block was proven at some slot after genesis.
HeliosPart ==
    /\ trusted_slot \in Nat /\ trusted_slot >= InitialSlot
    /\ helios_update_count \in Nat
    /\ finalized_eth_blocks \in [EthBlocks -> Nat]
    /\ \A b \in EthBlocks : finalized_eth_blocks[b] # 0 => /\ finalized_eth_blocks[b] > InitialSlot
                                                          /\ finalized_eth_blocks[b] <= trusted_slot
    /\ ClaimsAreFinalized

KeysPart ==
    processed_deposits \subseteq {deposit_key(BridgeContract, d) : d \in DepositIds}
                              \cup {withdrawal_key(d) : d \in DepositIds}

TotalsPart ==
    total_bridged_usdc \in 0 .. U64 - 1 /\ total_claims \in Nat /\ total_withdrawn_usdc \in 0 .. U64 - 1

\* The totals are the sums of the records; the claims are finitely many.
SumsPart ==
    /\ IsFiniteSet(claims)
    /\ total_bridged_usdc = SumOver(claim_amounts, claims) % U64
    /\ total_withdrawn_usdc = SumOver(withdrawal_amounts, DOMAIN withdrawals) % U64

BridgeInv == PoolInv /\ ClaimPart /\ WithdrawPart /\ HeliosPart /\ KeysPart /\ TotalsPart /\ SumsPart

\* A total after one more record.
LEMMA TotalAdds ==
    ASSUME NEW S, NEW y, NEW F, NEW G, IsFiniteSet(S), y \notin S, G[y] \in Nat,
           \A x \in S : F[x] \in Nat /\ G[x] = F[x]
    PROVE  wrap((SumOver(F, S) % U64) + G[y]) = SumOver(G, S \cup {y}) % U64
<1>1. U64 \in Nat \ {0}
  BY PoolAssumption
<1>2. SumOver(F, S) \in Nat /\ SumOver(G, S) = SumOver(F, S)
  BY SumNat, SumCong
<1>3. SumOver(G, S \cup {y}) = G[y] + SumOver(F, S)
  <2>1. \A x \in S \cup {y} : G[x] \in Nat
    OBVIOUS
  <2> QED BY <1>2, <2>1, SumAdd
<1> DEFINE n == SumOver(F, S)  a == G[y]
<1>4. ((n % U64) + a) % U64 = (n + a) % U64
  <2> HIDE DEF n, a
  <2>1. n \in Nat /\ a \in Nat
    BY <1>2 DEF n, a
  <2> QED BY <1>1, <2>1, ModAdd
<1>5. n + a = a + n
  <2>1. n \in Nat /\ a \in Nat
    BY <1>2
  <2> HIDE DEF n, a
  <2> QED BY <2>1
<1> QED BY <1>3, <1>4, <1>5 DEF wrap

\* The amounts the totals are sums of.
LEMMA AmountsNat ==
    ASSUME claims \subseteq Claims, WithdrawPart
    PROVE  /\ \A c \in claims : claim_amounts[c] \in Nat /\ claim_amounts[c] = c.amount
           /\ \A w \in DOMAIN withdrawals :
                withdrawal_amounts[w] \in Nat /\ withdrawal_amounts[w] = withdrawals[w].amount
           /\ IsFiniteSet(DOMAIN withdrawals)
<1>1. \A a \in DepositAmounts : a \in Nat
  BY PoolAssumption, BridgeAssumption
<1>2. \A c \in claims : c.amount \in DepositAmounts
  BY DEF Claims
<1>3. \A w \in DOMAIN withdrawals : withdrawals[w].amount \in DepositAmounts
  BY DEF WithdrawPart, WithdrawalRecords
<1>4. next_withdrawal_id \in Nat /\ DOMAIN withdrawals = 0 .. next_withdrawal_id - 1
  BY DEF WithdrawPart
<1>5. IsFiniteSet(DOMAIN withdrawals)
  BY <1>4, FS_Interval
<1> QED BY <1>1, <1>2, <1>3, <1>5 DEF claim_amounts, withdrawal_amounts

\* Steps that leave the claims and the withdrawals alone.
LEMMA SumsStay ==
    ASSUME SumsPart, UNCHANGED <<claims, withdrawals, total_bridged_usdc, total_withdrawn_usdc>>
    PROVE  SumsPart'
<1>1. claim_amounts' = claim_amounts /\ withdrawal_amounts' = withdrawal_amounts
  BY DEF claim_amounts, withdrawal_amounts
<1> QED BY <1>1 DEF SumsPart

\* A claim's key is never a withdrawal's key, and keys determine deposits.
LEMMA KeysDistinct ==
    /\ \A d, e \in DepositIds : deposit_key(BridgeContract, d) # withdrawal_key(e)
    /\ \A d, e \in DepositIds : deposit_key(BridgeContract, d) = deposit_key(BridgeContract, e) => d = e
    /\ \A d, e \in DepositIds : withdrawal_key(d) = withdrawal_key(e) => d = e
BY DEF deposit_key, withdrawal_key

LEMMA BridgeInitInv == BridgeInit => BridgeInv
<1> SUFFICES ASSUME BridgeInit PROVE BridgeInv
  OBVIOUS
<1> USE DEF BridgeInit
<1>1. PoolInv
  BY PoolInitInv
<1>2. ClaimPart
  BY DEF ClaimPart, DepositsLandOnce
<1>3. WithdrawPart
  BY DEF WithdrawPart, WithdrawalsBacked
<1>4. HeliosPart
  BY BridgeAssumption DEF HeliosPart, ClaimsAreFinalized
<1>5. KeysPart /\ TotalsPart
  BY PoolAssumption DEF KeysPart, TotalsPart
<1>6. SumsPart
  <2>1. SumOver(claim_amounts, {}) = 0 /\ SumOver(withdrawal_amounts, {}) = 0
    BY SumEmpty
  <2>2. 0 % U64 = 0
    BY PoolAssumption, ModSmall
  <2>3. claims = {} /\ DOMAIN withdrawals = {} /\ total_bridged_usdc = 0 /\ total_withdrawn_usdc = 0
    OBVIOUS
  <2> QED BY <2>1, <2>2, <2>3, FS_EmptySet DEF SumsPart
<1> QED BY <1>1, <1>2, <1>3, <1>4, <1>5, <1>6 DEF BridgeInv
-----------------------------------------------------------------------------
\* Any step that only adds leaves keeps the claims where they are.
LeavesStay ==
    /\ tree'.next_index \in Nat
    /\ tree.next_index <= tree'.next_index
    /\ \A k \in 1 .. tree.next_index : tree'.commitments[k] = tree.commitments[k]

LEMMA InsertLeavesStay ==
    ASSUME NEW outputs \in Seq(Leaves), TreePart, Insert(outputs)
    PROVE  /\ LeavesStay
           /\ tree'.next_index = tree.next_index + Len(outputs)
           /\ \A k \in 1 .. Len(outputs) : tree'.commitments[tree.next_index + k] = outputs[k]
           /\ tree'.next_index <= Capacity
<1>1. TreeShape(tree, Leaves) /\ tree' = insert_all(tree, outputs) /\ fits(tree, Len(outputs))
  BY DEF TreePart, Insert
<1>2. /\ tree'.next_index = tree.next_index + Len(outputs)
      /\ \A k \in 1 .. tree.next_index : tree'.commitments[k] = tree.commitments[k]
      /\ \A k \in 1 .. Len(outputs) : tree'.commitments[tree.next_index + k] = outputs[k]
  BY <1>1, InsertAllAppends
<1>3. tree.next_index \in Nat /\ Len(outputs) \in Nat
  BY <1>1 DEF TreeShape
<1> QED BY <1>1, <1>2, <1>3 DEF LeavesStay, fits

LEMMA PoolLeavesStay == PoolInv /\ PoolNext => LeavesStay
<1> SUFFICES ASSUME PoolInv, PoolNext PROVE LeavesStay
  OBVIOUS
<1>1. TreePart /\ tree.next_index \in Nat
  BY PoolInvParts DEF TreePart, TreeShape
<1>2. UNCHANGED treeVars => LeavesStay
  BY <1>1 DEF treeVars, LeavesStay
<1>3. CASE Shield
  <2>1. PICK note \in Notes, encrypted \in Ciphertexts \cup {Empty} : handle_shield(note, encrypted)
    BY <1>3 DEF Shield
  <2>2. <<HashNote(note)>> \in Seq(Leaves) /\ Insert(<<HashNote(note)>>)
    BY <2>1 DEF Leaves, handle_shield
  <2> QED BY <2>2, <1>1, InsertLeavesStay
<1>4. CASE Transfer
  <2>1. PICK msg \in TransferMessages, now \in Clock : handle_transfer(msg, now)
    BY <1>4 DEF Transfer
  <2>2. msg.output_commitments \in OutputLists
    BY DEF TransferMessages
  <2>3. msg.output_commitments \in Seq(Commitments)
    BY <2>2, PoolAssumption
  <2>4. msg.output_commitments \in Seq(Leaves) /\ Insert(msg.output_commitments)
    BY <2>1, <2>3 DEF Leaves, handle_transfer
  <2> QED BY <2>4, <1>1, InsertLeavesStay
<1>5. CASE Unshield
  BY <1>5, <1>2 DEF Unshield, handle_unshield
<1>6. CASE UpdateSanctionsRoot
  BY <1>6, <1>2 DEF UpdateSanctionsRoot, handle_update_sanctions_root
<1> QED BY <1>3, <1>4, <1>5, <1>6 DEF PoolNext

\* A step of the pool leaves what the bridge knows true.
LEMMA PoolStepInv ==
    ASSUME BridgeInv, [PoolNext]_poolVars, UNCHANGED bridgeVars
    PROVE  BridgeInv'
<1>1. PoolInv'
  BY PoolNextInv DEF BridgeInv
<1>2. LeavesStay
  <2>1. CASE PoolNext
    BY <2>1, PoolLeavesStay DEF BridgeInv
  <2>2. CASE UNCHANGED poolVars
    <3>1. tree.next_index \in Nat /\ tree' = tree
      BY <2>2 DEF BridgeInv, PoolInv, PoolTypeOK, TreeShape, poolVars, treeVars
    <3> QED BY <3>1 DEF LeavesStay
  <2> QED BY <2>1, <2>2
<1> USE DEF bridgeVars, claimVars, withdrawVars, heliosVars
<1>3. ClaimPart'
  <2>1. tree.next_index \in Nat
    BY DEF BridgeInv, PoolInv, PoolTypeOK, TreeShape
  <2>2. ClaimPart
    BY DEF BridgeInv
  <2>3. ASSUME NEW c \in claims
        PROVE  c.leaf <= tree'.next_index /\ tree'.commitments[c.leaf] = c.commitment
    <3>1. c.leaf \in 1 .. Capacity /\ c.leaf <= tree.next_index /\ tree.commitments[c.leaf] = c.commitment
      BY <2>2 DEF ClaimPart, DepositsLandOnce, Claims
    <3>2. c.leaf \in 1 .. tree.next_index
      BY <3>1, <2>1
    <3>3. c.leaf <= tree'.next_index
      BY <3>2, <2>1, <1>2 DEF LeavesStay
    <3> QED BY <3>1, <3>2, <3>3, <1>2 DEF LeavesStay
  <2> QED BY <2>2, <2>3 DEF ClaimPart, DepositsLandOnce, Claims
<1>4. WithdrawPart'
  BY DEF BridgeInv, WithdrawPart, WithdrawalsBacked, WithdrawalRecords
<1>5. HeliosPart'
  BY DEF BridgeInv, HeliosPart, ClaimsAreFinalized
<1>6. KeysPart' /\ TotalsPart'
  BY DEF BridgeInv, KeysPart, TotalsPart
<1>7. SumsPart'
  BY SumsStay DEF BridgeInv
<1> QED BY <1>1, <1>3, <1>4, <1>5, <1>6, <1>7 DEF BridgeInv
-----------------------------------------------------------------------------
\* An accepted claim: its leaf is new, and its key was not there.
LEMMA ClaimStepInv == BridgeInv /\ ClaimDeposit => BridgeInv'
<1> SUFFICES ASSUME BridgeInv, NEW proof \in BridgeProofs, NEW inputs \in ClaimInputs,
                    handle_claim_deposit(proof, inputs)
             PROVE  BridgeInv'
  BY DEF ClaimDeposit
<1> DEFINE key == deposit_key(BridgeContract, inputs.deposit_id)
           claim == [deposit_id |-> inputs.deposit_id, amount |-> inputs.amount,
                     commitment |-> inputs.obscura_recipient, leaf |-> tree.next_index + 1,
                     eth_block |-> inputs.eth_block_hash, helios |-> trusted_slot > 0]
<1>1. /\ inputs.deposit_id \in DepositIds /\ inputs.amount \in DepositAmounts
      /\ inputs.amount \in Nat /\ inputs.obscura_recipient \in Commitments
      /\ inputs.eth_block_hash \in EthBlocks
  <2>1. /\ inputs.deposit_id \in DepositIds /\ inputs.amount \in DepositAmounts
        /\ inputs.obscura_recipient \in Recipients /\ inputs.eth_block_hash \in EthBlocks
    BY DEF ClaimInputs
  <2>2. inputs.obscura_recipient # Zero32
    BY DEF handle_claim_deposit
  <2>3. \A a \in DepositAmounts : a \in Nat
    BY PoolAssumption, BridgeAssumption
  <2>4. Recipients \subseteq Commitments \cup {Zero32}
    BY BridgeAssumption
  <2> QED BY <2>1, <2>2, <2>3, <2>4
<1>2. /\ key \notin processed_deposits
      /\ block_accepted(inputs.eth_block_hash)
      /\ processed_deposits' = processed_deposits \cup {key}
      /\ claimed_amounts' = [claimed_amounts EXCEPT ![inputs.deposit_id] = inputs.amount]
      /\ Insert(<<inputs.obscura_recipient>>)
      /\ Credit(BridgedUsdc, inputs.amount)
      /\ total_bridged_usdc' = wrap(total_bridged_usdc + inputs.amount)
      /\ total_claims' = total_claims + 1
      /\ claims' = claims \cup {claim}
      /\ UNCHANGED <<withdrawVars, heliosVars, spendVars, complianceVars>>
  BY DEF handle_claim_deposit
<1>3. TreePart /\ SpendPart /\ SupplyPart /\ CountPart
  BY PoolInvParts DEF BridgeInv
<1>4. <<inputs.obscura_recipient>> \in Seq(Leaves) /\ Len(<<inputs.obscura_recipient>>) = 1
  BY <1>1 DEF Leaves
<1>5. /\ LeavesStay
      /\ tree'.next_index = tree.next_index + 1
      /\ tree'.commitments[tree.next_index + 1] = inputs.obscura_recipient
      /\ tree'.next_index <= Capacity
  <2>1. /\ LeavesStay
        /\ tree'.next_index = tree.next_index + Len(<<inputs.obscura_recipient>>)
        /\ \A k \in 1 .. Len(<<inputs.obscura_recipient>>) :
             tree'.commitments[tree.next_index + k] = <<inputs.obscura_recipient>>[k]
        /\ tree'.next_index <= Capacity
    BY <1>2, <1>3, <1>4, InsertLeavesStay
  <2> QED BY <2>1, <1>4
<1>6. PoolInv'
  <2>1. TreePart'
    BY <1>2, <1>3, <1>4, InsertPart
  <2>2. SupplyPart'
    BY <1>1, <1>2, <1>3, CreditPart, BridgeAssumption
  <2>3. SpendPart' /\ CountPart'
    BY <1>2, <1>3 DEF SpendPart, CountPart, spendVars, complianceVars, RevealedAtMostOnce
  <2> QED BY <2>1, <2>2, <2>3 DEF PoolInv, PoolTypeOK, TreePart, SpendPart, SupplyPart, CountPart
<1>7. tree.next_index \in Nat /\ Capacity \in Nat
  BY <1>3, Pow2Facts DEF TreePart, TreeShape
<1>8. ClaimPart
  BY DEF BridgeInv
<1>9. claim \in Claims
  BY <1>1, <1>5, <1>7 DEF Claims
<1>10. \A c \in claims : /\ c \in Claims /\ c.deposit_id # claim.deposit_id
                         /\ c.leaf \in 1 .. tree.next_index /\ c.leaf # claim.leaf
  <2> SUFFICES ASSUME NEW c \in claims
               PROVE  /\ c \in Claims /\ c.deposit_id # claim.deposit_id
                      /\ c.leaf \in 1 .. tree.next_index /\ c.leaf # claim.leaf
    OBVIOUS
  <2>1. c \in Claims /\ c.leaf <= tree.next_index
    BY <1>8 DEF ClaimPart, DepositsLandOnce
  <2>2. c.leaf \in 1 .. Capacity /\ c.deposit_id \in DepositIds
    BY <2>1 DEF Claims
  <2>3. deposit_key(BridgeContract, c.deposit_id) \in processed_deposits
    BY <2>2, <1>8 DEF ClaimPart, DepositsLandOnce
  <2> QED BY <2>1, <2>2, <2>3, <1>2, <1>7
<1> HIDE DEF claim
<1>11. claim.deposit_id = inputs.deposit_id /\ claim.amount = inputs.amount
       /\ claim.commitment = inputs.obscura_recipient /\ claim.leaf = tree.next_index + 1
       /\ claim.eth_block = inputs.eth_block_hash /\ claim.helios = (trusted_slot > 0)
  BY DEF claim
<1>12. DepositsLandOnce'
  <2>1. \A c, d \in claims' : c.deposit_id = d.deposit_id \/ c.leaf = d.leaf => c = d
    BY <1>2, <1>8, <1>10 DEF ClaimPart, DepositsLandOnce
  <2>2. ASSUME NEW c \in claims'
        PROVE  c.leaf <= tree'.next_index /\ tree'.commitments[c.leaf] = c.commitment
    <3>1. CASE c = claim
      BY <3>1, <1>5, <1>7, <1>11
    <3>2. CASE c \in claims
      <4>1. c.leaf \in 1 .. tree.next_index /\ tree.commitments[c.leaf] = c.commitment
        BY <3>2, <1>8, <1>10 DEF ClaimPart, DepositsLandOnce
      <4>2. tree'.commitments[c.leaf] = c.commitment
        BY <4>1, <1>5 DEF LeavesStay
      <4> QED BY <4>1, <4>2, <1>5, <1>7
    <3> QED BY <3>1, <3>2, <1>2
  <2>3. ASSUME NEW d \in DepositIds
        PROVE  deposit_key(BridgeContract, d) \in processed_deposits'
                  <=> \E c \in claims' : c.deposit_id = d
    <3>1. deposit_key(BridgeContract, d) \in processed_deposits <=> \E c \in claims : c.deposit_id = d
      BY <1>8 DEF ClaimPart, DepositsLandOnce
    <3>2. deposit_key(BridgeContract, d) = key <=> d = inputs.deposit_id
      BY <1>1, KeysDistinct
    <3> HIDE DEF key
    <3> QED BY <3>1, <3>2, <1>2, <1>11
  <2> QED BY <2>1, <2>2, <2>3 DEF DepositsLandOnce
<1>13. ClaimPart'
  <2>1. claims' \subseteq Claims /\ claimed_amounts' \in [DepositIds -> DepositAmounts \cup {0}]
    <3>1. claims' \subseteq Claims
      BY <1>2, <1>8, <1>9 DEF ClaimPart
    <3>2. claimed_amounts' \in [DepositIds -> DepositAmounts \cup {0}]
      BY <1>1, <1>2, <1>8 DEF ClaimPart
    <3> QED BY <3>1, <3>2
  <2>2. \A c \in claims' : claimed_amounts'[c.deposit_id] = c.amount
    <3>1. \A c \in claims : c.deposit_id \in DepositIds /\ claimed_amounts[c.deposit_id] = c.amount
      BY <1>8, <1>10 DEF ClaimPart, Claims
    <3>2. claimed_amounts \in [DepositIds -> DepositAmounts \cup {0}]
      BY <1>8 DEF ClaimPart
    <3> QED BY <3>1, <3>2, <1>1, <1>2, <1>10, <1>11
  <2> QED BY <2>1, <2>2, <1>12 DEF ClaimPart, Claims
<1>14. WithdrawPart'
  <2>1. WithdrawPart /\ withdrawals' = withdrawals /\ next_withdrawal_id' = next_withdrawal_id
    BY <1>2 DEF BridgeInv, withdrawVars
  <2>2. WithdrawalsBacked'
    BY <2>1, <1>2 DEF WithdrawPart, WithdrawalsBacked
  <2>3. \A d \in DepositIds : withdrawal_key(d) \in processed_deposits' <=> withdrawal_key(d) \in processed_deposits
    BY <1>1, <1>2, KeysDistinct
  <2> QED BY <2>1, <2>2, <2>3 DEF WithdrawPart, WithdrawalRecords
<1>15. HeliosPart'
  <2>1. HeliosPart /\ UNCHANGED heliosVars
    BY <1>2 DEF BridgeInv
  <2>2. claim.helios => finalized_eth_blocks[claim.eth_block] # 0
    BY <1>2, <1>11 DEF block_accepted
  <2>3. claim.helios => /\ finalized_eth_blocks[claim.eth_block] > InitialSlot
                        /\ finalized_eth_blocks[claim.eth_block] <= trusted_slot
    BY <2>1, <2>2, <1>1, <1>11 DEF HeliosPart
  <2>4. ClaimsAreFinalized'
    BY <2>1, <2>3, <1>2 DEF HeliosPart, ClaimsAreFinalized, heliosVars
  <2> QED BY <2>1, <2>4 DEF HeliosPart, heliosVars
<1>16. KeysPart' /\ TotalsPart'
  <2>1. KeysPart'
    BY <1>1, <1>2 DEF BridgeInv, KeysPart
  <2>2. total_bridged_usdc + inputs.amount \in Nat /\ total_claims + 1 \in Nat
    BY <1>1, PoolAssumption DEF BridgeInv, TotalsPart
  <2>3. total_bridged_usdc' \in 0 .. U64 - 1
    BY <2>2, <1>2, WrapFacts
  <2> QED BY <2>1, <2>2, <2>3, <1>2 DEF BridgeInv, TotalsPart, withdrawVars
<1>17. SumsPart'
  <2>1. SumsPart /\ WithdrawPart /\ claims \subseteq Claims /\ claims' \subseteq Claims
    BY <1>2, <1>8, <1>9 DEF BridgeInv, ClaimPart
  <2>2. /\ claim \notin claims /\ claims' = claims \cup {claim}
        /\ IsFiniteSet(claims) /\ IsFiniteSet(claims')
    BY <2>1, <1>2, <1>10, FS_AddElement DEF SumsPart
  <2>3. \A c \in claims : claim_amounts[c] \in Nat /\ claim_amounts'[c] = claim_amounts[c]
    BY <2>1, <2>2, AmountsNat DEF claim_amounts
  <2>4. claim_amounts'[claim] = inputs.amount
    BY <2>2, <1>11 DEF claim_amounts
  <2>5. total_bridged_usdc' = SumOver(claim_amounts', claims') % U64
    <3> DEFINE F == claim_amounts  G == claim_amounts'
    <3>1. \A c \in claims : F[c] \in Nat /\ G[c] = F[c]
      BY <2>3
    <3>2. G[claim] = inputs.amount /\ G[claim] \in Nat
      BY <2>4, <1>1
    <3>3. total_bridged_usdc = SumOver(F, claims) % U64
      BY <2>1 DEF SumsPart
    <3> HIDE DEF F, G
    <3>4. wrap((SumOver(F, claims) % U64) + G[claim]) = SumOver(G, claims \cup {claim}) % U64
      BY <2>2, <3>1, <3>2, TotalAdds
    <3> QED BY <3>2, <3>3, <3>4, <2>2, <1>2 DEF G
  <2>6. withdrawal_amounts' = withdrawal_amounts /\ UNCHANGED <<withdrawals, total_withdrawn_usdc>>
    BY <1>2 DEF withdrawal_amounts, withdrawVars
  <2> QED BY <2>1, <2>2, <2>5, <2>6 DEF SumsPart
<1> QED BY <1>6, <1>13, <1>14, <1>15, <1>16, <1>17 DEF BridgeInv

\* An accepted withdrawal: its key was not there, and the amount is the claim's.
LEMMA WithdrawStepInv == BridgeInv /\ WithdrawBridge => BridgeInv'
<1> SUFFICES ASSUME BridgeInv, NEW d \in DepositIds, NEW r \in EthRecipients, handle_withdraw_bridge(d, r)
             PROVE  BridgeInv'
  BY DEF WithdrawBridge
<1> DEFINE amount == claimed_amounts[d]
           key == withdrawal_key(d)
           id == next_withdrawal_id
           record == [deposit_id |-> d, eth_recipient |-> r, amount |-> amount, relayed |-> FALSE]
<1>1. /\ deposit_key(BridgeContract, d) \in processed_deposits
      /\ key \notin processed_deposits
      /\ amount # 0
      /\ next_withdrawal_id' = id + 1
      /\ processed_deposits' = processed_deposits \cup {key}
      /\ withdrawals' = [w \in DOMAIN withdrawals \cup {id} |-> IF w = id THEN record ELSE withdrawals[w]]
      /\ total_withdrawn_usdc' = wrap(total_withdrawn_usdc + amount)
      /\ UNCHANGED <<poolVars, claimVars, heliosVars>>
  BY DEF handle_withdraw_bridge
<1>2. PoolInv'
  BY <1>1, PoolNextInv DEF BridgeInv
<1>3. ClaimPart /\ WithdrawPart
  BY DEF BridgeInv
<1>4. PICK c \in claims : c.deposit_id = d /\ c.amount = amount
  <2>1. \E c \in claims : c.deposit_id = d
    BY <1>1, <1>3 DEF ClaimPart, DepositsLandOnce
  <2> QED BY <2>1, <1>3 DEF ClaimPart
<1>5. amount \in DepositAmounts /\ amount \in Nat
  <2>1. amount \in DepositAmounts
    BY <1>3, <1>4 DEF ClaimPart, Claims
  <2>2. \A a \in DepositAmounts : a \in Nat
    BY PoolAssumption, BridgeAssumption
  <2> HIDE DEF amount
  <2> QED BY <2>1, <2>2
<1>6. ClaimPart'
  <2>1. tree' = tree /\ UNCHANGED <<claims, claimed_amounts>>
    BY <1>1 DEF poolVars, treeVars, claimVars
  <2>2. \A e \in DepositIds : deposit_key(BridgeContract, e) \in processed_deposits'
                                <=> deposit_key(BridgeContract, e) \in processed_deposits
    BY <1>1, KeysDistinct
  <2>3. DepositsLandOnce'
    BY <2>1, <2>2, <1>3 DEF ClaimPart, DepositsLandOnce
  <2> QED BY <2>1, <2>3, <1>3 DEF ClaimPart, Claims
<1>7. id \in Nat /\ withdrawals \in [0 .. id - 1 -> WithdrawalRecords] /\ DOMAIN withdrawals = 0 .. id - 1
  BY <1>3 DEF WithdrawPart
<1>8. 0 .. (id + 1) - 1 = (0 .. id - 1) \cup {id}
  BY <1>7
<1>9. /\ DOMAIN withdrawals' = 0 .. (id + 1) - 1
      /\ withdrawals'[id] = record
      /\ \A w \in 0 .. id - 1 : withdrawals'[w] = withdrawals[w] /\ w # id
  <2> HIDE DEF record
  <2> QED BY <1>1, <1>7, <1>8
<1>10. record \in WithdrawalRecords /\ record.deposit_id = d /\ record.amount = amount
  BY <1>5 DEF WithdrawalRecords
<1> HIDE DEF record, id
<1>11. withdrawals' \in [0 .. (id + 1) - 1 -> WithdrawalRecords]
  BY <1>1, <1>7, <1>8, <1>10
<1>12. \A w \in 0 .. id - 1 : withdrawals[w].deposit_id # d
  BY <1>1, <1>3, <1>7 DEF WithdrawPart
<1>13. WithdrawalsBacked'
  <2>1. \A v, w \in DOMAIN withdrawals' :
           withdrawals'[v].deposit_id = withdrawals'[w].deposit_id => v = w
    <3>1. \A v, w \in 0 .. id - 1 : withdrawals[v].deposit_id = withdrawals[w].deposit_id => v = w
      BY <1>3, <1>7 DEF WithdrawPart, WithdrawalsBacked
    <3> QED BY <3>1, <1>8, <1>9, <1>10, <1>12
  <2>2. ASSUME NEW w \in DOMAIN withdrawals'
        PROVE  \E e \in claims : e.deposit_id = withdrawals'[w].deposit_id /\ e.amount = withdrawals'[w].amount
    <3>1. CASE w = id
      BY <3>1, <1>4, <1>9, <1>10
    <3>2. CASE w \in 0 .. id - 1
      BY <3>2, <1>3, <1>7, <1>9 DEF WithdrawPart, WithdrawalsBacked
    <3> QED BY <3>1, <3>2, <1>8, <1>9
  <2>3. claims' = claims
    BY <1>1 DEF claimVars
  <2> QED BY <2>1, <2>2, <2>3 DEF WithdrawalsBacked
<1>14. ASSUME NEW e \in DepositIds
       PROVE  withdrawal_key(e) \in processed_deposits'
                 <=> \E w \in DOMAIN withdrawals' : withdrawals'[w].deposit_id = e
  <2>1. withdrawal_key(e) \in processed_deposits <=> \E w \in 0 .. id - 1 : withdrawals[w].deposit_id = e
    BY <1>3, <1>7 DEF WithdrawPart
  <2>2. withdrawal_key(e) = key <=> e = d
    BY KeysDistinct
  <2>3. (\E w \in DOMAIN withdrawals' : withdrawals'[w].deposit_id = e)
           <=> e = d \/ \E w \in 0 .. id - 1 : withdrawals[w].deposit_id = e
    <3>1. ASSUME NEW w \in DOMAIN withdrawals', withdrawals'[w].deposit_id = e
          PROVE  e = d \/ \E v \in 0 .. id - 1 : withdrawals[v].deposit_id = e
      BY <3>1, <1>8, <1>9, <1>10
    <3>2. ASSUME e = d PROVE \E w \in DOMAIN withdrawals' : withdrawals'[w].deposit_id = e
      <4>1. id \in DOMAIN withdrawals'
        BY <1>8, <1>9
      <4> QED BY <4>1, <3>2, <1>9, <1>10
    <3>3. ASSUME NEW w \in 0 .. id - 1, withdrawals[w].deposit_id = e
          PROVE  \E v \in DOMAIN withdrawals' : withdrawals'[v].deposit_id = e
      BY <3>3, <1>8, <1>9
    <3> QED BY <3>1, <3>2, <3>3
  <2> HIDE DEF key
  <2> QED BY <2>1, <2>2, <2>3, <1>1
<1>15. WithdrawPart'
  <2>1. next_withdrawal_id' = id + 1 /\ next_withdrawal_id' \in Nat
    BY <1>1, <1>7
  <2> QED BY <2>1, <1>11, <1>13, <1>14 DEF WithdrawPart, WithdrawalRecords
<1>16. HeliosPart'
  BY <1>1 DEF BridgeInv, HeliosPart, ClaimsAreFinalized, heliosVars, claimVars
<1>17. KeysPart' /\ TotalsPart'
  <2>1. KeysPart'
    BY <1>1 DEF BridgeInv, KeysPart
  <2>2. total_withdrawn_usdc + amount \in Nat
    BY <1>5, PoolAssumption DEF BridgeInv, TotalsPart
  <2> HIDE DEF amount
  <2>3. total_withdrawn_usdc' \in 0 .. U64 - 1
    BY <2>2, <1>1, WrapFacts
  <2> QED BY <2>1, <2>3, <1>1 DEF BridgeInv, TotalsPart, claimVars
<1>18. SumsPart'
  <2> DEFINE D == 0 .. id - 1  F == withdrawal_amounts  G == withdrawal_amounts'
  <2>1. SumsPart /\ claims \subseteq Claims
    BY <1>3 DEF BridgeInv, ClaimPart
  <2>2. /\ DOMAIN withdrawals = D /\ DOMAIN withdrawals' = D \cup {id} /\ id \notin D
        /\ IsFiniteSet(D)
    BY <1>3, <1>7, <1>8, <1>9, <2>1, AmountsNat
  <2>3. \A w \in D : F[w] \in Nat /\ G[w] = F[w]
    BY <2>1, <2>2, <1>3, <1>9, AmountsNat DEF withdrawal_amounts
  <2>4. G[id] = amount
    BY <2>2, <1>9, <1>10 DEF withdrawal_amounts
  <2>5. total_withdrawn_usdc = SumOver(F, D) % U64
    BY <2>1, <2>2 DEF SumsPart
  <2> HIDE DEF D, F, G, amount
  <2>6. wrap((SumOver(F, D) % U64) + G[id]) = SumOver(G, D \cup {id}) % U64
    BY <2>2, <2>3, <2>4, <1>5, TotalAdds
  <2>7. total_withdrawn_usdc' = SumOver(G, D \cup {id}) % U64
    BY <2>4, <2>5, <2>6, <1>1
  <2>8. claims' = claims /\ claim_amounts' = claim_amounts /\ total_bridged_usdc' = total_bridged_usdc
    BY <1>1 DEF claimVars, claim_amounts
  <2> QED BY <2>1, <2>2, <2>7, <2>8 DEF SumsPart, G
<1> QED BY <1>2, <1>6, <1>15, <1>16, <1>17, <1>18 DEF BridgeInv

\* A head update: slots only grow, so what was proven stays within them.
LEMMA HeliosStepInv == BridgeInv /\ UpdateHeliosHead => BridgeInv'
<1> SUFFICES ASSUME BridgeInv, NEW proof \in HeliosProofs, NEW inputs \in HeliosInputs,
                    handle_update_helios_head(proof, inputs)
             PROVE  BridgeInv'
  BY DEF UpdateHeliosHead
<1>1. /\ inputs.new_slot > trusted_slot
      /\ trusted_slot' = inputs.new_slot
      /\ finalized_eth_blocks' = [finalized_eth_blocks EXCEPT ![inputs.execution_block_hash] = inputs.new_slot]
      /\ helios_update_count' = helios_update_count + 1
      /\ UNCHANGED <<poolVars, processed_deposits, claimVars, withdrawVars>>
  BY DEF handle_update_helios_head, head_advances
<1>2. inputs.new_slot \in Nat /\ inputs.execution_block_hash \in EthBlocks /\ InitialSlot \in Nat
  <2>1. inputs.new_slot \in Slots /\ inputs.execution_block_hash \in EthBlocks
    BY DEF HeliosInputs
  <2> QED BY <2>1, BridgeAssumption
<1>3. PoolInv'
  BY <1>1, PoolNextInv DEF BridgeInv
<1>4. ClaimPart'
  BY <1>1 DEF BridgeInv, ClaimPart, DepositsLandOnce, Claims, poolVars, treeVars, claimVars
<1>5. WithdrawPart'
  BY <1>1 DEF BridgeInv, WithdrawPart, WithdrawalsBacked, WithdrawalRecords, claimVars, withdrawVars
<1>6. KeysPart' /\ TotalsPart'
  BY <1>1 DEF BridgeInv, KeysPart, TotalsPart, claimVars, withdrawVars
<1>7. HeliosPart
  BY DEF BridgeInv
<1>8. ASSUME NEW b \in EthBlocks
      PROVE  /\ finalized_eth_blocks'[b] \in Nat
             /\ finalized_eth_blocks'[b] # 0 => /\ finalized_eth_blocks'[b] > InitialSlot
                                                /\ finalized_eth_blocks'[b] <= trusted_slot'
             /\ finalized_eth_blocks[b] # 0 => finalized_eth_blocks'[b] # 0
  BY <1>1, <1>2, <1>7 DEF HeliosPart
<1>9. ClaimsAreFinalized'
  <2>1. ASSUME NEW c \in claims, c.helios
        PROVE  /\ finalized_eth_blocks'[c.eth_block] > InitialSlot
               /\ finalized_eth_blocks'[c.eth_block] <= trusted_slot'
    <3>1. c.eth_block \in EthBlocks
      BY DEF BridgeInv, ClaimPart, Claims
    <3>2. finalized_eth_blocks[c.eth_block] # 0
      BY <2>1, <3>1, <1>2, <1>7 DEF HeliosPart, ClaimsAreFinalized
    <3> QED BY <3>1, <3>2, <1>8
  <2>2. claims' = claims
    BY <1>1 DEF claimVars
  <2> QED BY <2>1, <2>2 DEF ClaimsAreFinalized
<1>10. HeliosPart'
  <2>1. finalized_eth_blocks' \in [EthBlocks -> Nat]
    BY <1>1, <1>2, <1>7 DEF HeliosPart
  <2>2. trusted_slot' \in Nat /\ trusted_slot' >= InitialSlot /\ helios_update_count' \in Nat
    BY <1>1, <1>2, <1>7 DEF HeliosPart
  <2> QED BY <2>1, <2>2, <1>8, <1>9 DEF HeliosPart
<1>11. SumsPart'
  BY <1>1, SumsStay DEF BridgeInv, claimVars, withdrawVars
<1> QED BY <1>3, <1>4, <1>5, <1>6, <1>10, <1>11 DEF BridgeInv
-----------------------------------------------------------------------------
LEMMA BridgeNextInv == BridgeInv /\ [BridgeNext]_rollupVars => BridgeInv'
<1> SUFFICES ASSUME BridgeInv, [BridgeNext]_rollupVars PROVE BridgeInv'
  OBVIOUS
<1>1. CASE PoolNext /\ UNCHANGED bridgeVars
  BY <1>1, PoolStepInv
<1>2. CASE UNCHANGED rollupVars
  BY <1>2, PoolStepInv DEF rollupVars
<1> QED BY <1>1, <1>2, ClaimStepInv, WithdrawStepInv, HeliosStepInv DEF BridgeNext

LEMMA BridgeInvariant == BridgeSpec => []BridgeInv
BY BridgeInitInv, BridgeNextInv, PTL DEF BridgeSpec

\* The bridge's maps and counters keep their shape.
THEOREM BridgeTypeCorrect == BridgeSpec => []BridgeTypeOK
<1>1. BridgeInv => BridgeTypeOK
  BY DEF BridgeInv, BridgeTypeOK, ClaimPart, WithdrawPart, HeliosPart, KeysPart, TotalsPart
<1> QED BY <1>1, BridgeInvariant, PTL

\* A deposit is inserted into the pool at most once, and its leaf stays.
THEOREM DepositsLandOnceAlways == BridgeSpec => []DepositsLandOnce
<1>1. BridgeInv => DepositsLandOnce
  BY DEF BridgeInv, ClaimPart
<1> QED BY <1>1, BridgeInvariant, PTL

\* A deposit is withdrawn at most once, for the amount claimed.
THEOREM WithdrawalsAlwaysBacked == BridgeSpec => []WithdrawalsBacked
<1>1. BridgeInv => WithdrawalsBacked
  BY DEF BridgeInv, WithdrawPart
<1> QED BY <1>1, BridgeInvariant, PTL

\* With Helios active, only deposits of proven blocks are claimed.
THEOREM ClaimsAlwaysFinalized == BridgeSpec => []ClaimsAreFinalized
<1>1. BridgeInv => ClaimsAreFinalized
  BY DEF BridgeInv, HeliosPart
<1> QED BY <1>1, BridgeInvariant, PTL

(***************************************************************************)
(* handle_claim_deposit and handle_withdraw_bridge keep the running totals *)
(* equal to the sums of the records modulo the width of a u64, and while   *)
(* the claims fit in a u64 no more is withdrawn than was bridged: each     *)
(* withdrawal has a claim of its own for its amount.                       *)
(***************************************************************************)
THEOREM TotalsAlwaysMatch == BridgeSpec => []TotalsMatchRecords
<1>1. BridgeInv => TotalsMatchRecords
  <2> SUFFICES ASSUME BridgeInv PROVE TotalsMatchRecords
    OBVIOUS
  <2> DEFINE D == DOMAIN withdrawals
             bridged == SumOver(claim_amounts, claims)
             withdrawn == SumOver(withdrawal_amounts, D)
             at == [w \in D |-> CHOOSE c \in claims : /\ c.deposit_id = withdrawals[w].deposit_id
                                                      /\ c.amount = withdrawals[w].amount]
  <2>1. SumsPart /\ WithdrawPart /\ claims \subseteq Claims /\ U64 \in Nat \ {0}
    BY PoolAssumption DEF BridgeInv, ClaimPart
  <2>2. /\ \A c \in claims : claim_amounts[c] \in Nat /\ claim_amounts[c] = c.amount
        /\ \A w \in D : withdrawal_amounts[w] \in Nat /\ withdrawal_amounts[w] = withdrawals[w].amount
        /\ IsFiniteSet(D) /\ IsFiniteSet(claims)
    BY <2>1, AmountsNat DEF SumsPart
  <2>3. \A w \in D : /\ at[w] \in claims /\ at[w].amount = withdrawals[w].amount
                     /\ at[w].deposit_id = withdrawals[w].deposit_id
    BY <2>1 DEF WithdrawPart, WithdrawalsBacked
  <2>4. at \in [D -> claims]
    BY <2>3
  <2> HIDE DEF at, D
  <2>5. \A v, w \in D : at[v] = at[w] => v = w
    BY <2>1, <2>3 DEF WithdrawPart, WithdrawalsBacked, D
  <2>6. \A w \in D : withdrawal_amounts[w] \in Nat /\ withdrawal_amounts[w] <= claim_amounts[at[w]]
    <3> SUFFICES ASSUME NEW w \in D
                 PROVE  withdrawal_amounts[w] \in Nat /\ withdrawal_amounts[w] <= claim_amounts[at[w]]
      OBVIOUS
    <3>1. withdrawal_amounts[w] = claim_amounts[at[w]] /\ withdrawal_amounts[w] \in Nat
      BY <2>2, <2>3
    <3> QED BY <3>1
  <2>7. withdrawn <= bridged
    BY <2>2, <2>4, <2>5, <2>6, SumInjection
  <2>8. bridged \in Nat /\ withdrawn \in Nat
    BY <2>2, SumNat
  <2>9. total_bridged_usdc = bridged % U64 /\ total_withdrawn_usdc = withdrawn % U64
    BY <2>1 DEF SumsPart, D
  <2> HIDE DEF bridged, withdrawn
  <2>10. ASSUME bridged < U64 PROVE total_withdrawn_usdc <= total_bridged_usdc
    <3>1. bridged \in 0 .. U64 - 1 /\ withdrawn \in 0 .. U64 - 1
      BY <2>1, <2>7, <2>8, <2>10
    <3>2. bridged % U64 = bridged /\ withdrawn % U64 = withdrawn
      BY <2>1, <3>1, ModSmall
    <3> QED BY <3>2, <2>7, <2>9
  <2> QED BY <2>9, <2>10 DEF TotalsMatchRecords, bridged, withdrawn, D
<1> QED BY <1>1, BridgeInvariant, PTL

\* Claims that write into the pool from the bridge break none of the pool's
\* own guarantees: rebuilt roots, known roots, single spends and supply.
THEOREM PoolSafeUnderBridge ==
    BridgeSpec => [](/\ PoolTypeOK /\ RootsMatchRebuild /\ KnownRootsAreRecent
                     /\ RevealedAtMostOnce /\ SupplyAccounting)
<1>1. BridgeInv => /\ PoolTypeOK /\ RootsMatchRebuild /\ KnownRootsAreRecent
                   /\ RevealedAtMostOnce /\ SupplyAccounting
  <2>1. BridgeInv => PoolInv
    BY DEF BridgeInv
  <2>2. PoolInv => PoolTypeOK /\ RootsMatchRebuild /\ RevealedAtMostOnce /\ SupplyAccounting
    BY DEF PoolInv
  <2> QED BY <2>1, <2>2, PoolInvKnownRoots
<1> QED BY <1>1, BridgeInvariant, PTL
=============================================================================
