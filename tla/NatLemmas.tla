------------------------------ MODULE NatLemmas ------------------------------
(***************************************************************************)
(* Facts about natural numbers the proofs rest on: the least element of a  *)
(* set of naturals, which is how inductions over the length of a list are  *)
(* carried out, the remainders that index a ring buffer, and sums over     *)
(* finite sets.                                                            *)
(***************************************************************************)
EXTENDS Sums, WellFoundedInduction, FiniteSetTheorems, TLAPS

\* A nonempty set of naturals has a least element.
LEMMA LeastElement ==
    ASSUME NEW T \in SUBSET Nat, T # {}
    PROVE  \E m \in T : \A k \in T : m <= k
<1> DEFINE R == {ss \in Nat \X Nat : ss[1] < ss[2]}
<1>1. IsWellFoundedOn(R, Nat)
  BY NatLessThanWellFounded, Zenon DEF OpToRel
<1>2. PICK m \in T : \A k \in T : ~ (<<k, m>> \in R)
  <2> HIDE DEF R
  <2> QED BY <1>1, WFMin, Zenon
<1>3. ASSUME NEW k \in T PROVE m <= k
  <2>1. m \in Nat /\ k \in Nat /\ ~ (<<k, m>> \in R)
    BY <1>2
  <2>2. ~ (k < m)
    BY <2>1
  <2> QED BY <2>1, <2>2
<1> QED BY <1>3

\* What holds of 0, and of n + 1 when of n, holds of every natural number.
LEMMA SetInduction ==
    ASSUME NEW T \in SUBSET Nat, 0 \in T, \A n \in T : n + 1 \in T
    PROVE  \A n \in Nat : n \in T
<1> SUFFICES ASSUME Nat \ T # {} PROVE FALSE
  OBVIOUS
<1>1. PICK m \in Nat \ T : \A k \in Nat \ T : m <= k
  BY LeastElement
<1>2. m - 1 \in Nat /\ m - 1 \in T
  BY <1>1
<1>3. m - 1 + 1 \in T
  BY <1>2
<1> QED BY <1>1, <1>2, <1>3

\* A remainder is smaller than the modulus.
LEMMA ModRange ==
    ASSUME NEW n \in Nat, NEW H \in Nat \ {0}
    PROVE  n % H \in 0 .. H - 1
OBVIOUS

\* Division with remainder.
LEMMA DivMod ==
    ASSUME NEW n \in Nat, NEW H \in Nat \ {0}
    PROVE  n = H * (n \div H) + (n % H) /\ (n \div H) \in Nat
BY SMTT(20)

\* A number below the modulus is its own remainder.
LEMMA ModSmall ==
    ASSUME NEW H \in Nat \ {0}, NEW n \in 0 .. H - 1
    PROVE  n % H = n
BY SMTT(20)

\* Two multiples of H less than H apart are equal.
LEMMA MultipleGap ==
    ASSUME NEW H \in Nat \ {0}, NEW p \in Int, NEW q \in Int,
           H * p - H * q < H, H * q - H * p < H
    PROVE  p = q
<1>1. CASE p >= q + 1
  <2>1. H * (p - q) >= H
    BY <1>1
  <2> QED BY <2>1
<1>2. CASE q >= p + 1
  <2>1. H * (q - p) >= H
    BY <1>2
  <2> QED BY <2>1
<1> QED BY <1>1, <1>2

\* Subtracting the modulus does not change the remainder.
LEMMA ModShift ==
    ASSUME NEW n \in Nat, NEW H \in Nat \ {0}, n >= H
    PROVE  (n - H) % H = n % H
<1> DEFINE q == n \div H  r == n % H  m == n - H  s == m \div H  t == m % H
<1>1. n = H * q + r /\ q \in Nat /\ r \in 0 .. H - 1
  BY DivMod, ModRange
<1>2. m \in Nat /\ m = n - H
  OBVIOUS
<1>3. m = H * s + t /\ s \in Nat /\ t \in 0 .. H - 1
  <2> HIDE DEF m
  <2> QED BY <1>2, DivMod, ModRange
<1> SUFFICES t = r
  OBVIOUS
<1> HIDE DEF q, r, m, s, t
<1>4. H * q - H * (s + 1) = t - r
  BY <1>1, <1>2, <1>3
<1>5. q = s + 1
  BY <1>4, <1>1, <1>3, MultipleGap
<1> QED BY <1>4, <1>5, <1>1, <1>3

\* Two numbers less than H apart have different remainders.
LEMMA ModWindow ==
    ASSUME NEW a \in Nat, NEW b \in Nat, NEW H \in Nat \ {0}, a < b, b - a < H
    PROVE  a % H # b % H
<1> DEFINE q == a \div H  r == a % H  s == b \div H  t == b % H
<1>1. a = H * q + r /\ q \in Nat /\ r \in 0 .. H - 1
  BY DivMod, ModRange
<1>2. b = H * s + t /\ s \in Nat /\ t \in 0 .. H - 1
  BY DivMod, ModRange
<1> SUFFICES ASSUME t = r PROVE FALSE
  OBVIOUS
<1> HIDE DEF q, r, s, t
<1>3. H * s - H * q = b - a
  BY <1>1, <1>2
<1>4. s = q
  BY <1>3, <1>1, <1>2, MultipleGap
<1> QED BY <1>4, <1>3, <1>1, <1>2

\* An addend may be reduced first.
LEMMA ModAdd ==
    ASSUME NEW H \in Nat \ {0}, NEW a \in Nat, NEW b \in Nat
    PROVE  ((a % H) + b) % H = (a + b) % H
<1> DEFINE q == a \div H  r == a % H  m == r + b  n == a + b
           s == m \div H  t == m % H  u == n \div H  v == n % H
<1>1. a = H * q + r /\ q \in Nat /\ r \in 0 .. H - 1
  BY DivMod, ModRange
<1>2. m \in Nat /\ n \in Nat /\ m = r + b /\ n = a + b
  BY <1>1
<1>3. m = H * s + t /\ s \in Nat /\ t \in 0 .. H - 1
  <2> HIDE DEF m
  <2> QED BY <1>2, DivMod, ModRange
<1>4. n = H * u + v /\ u \in Nat /\ v \in 0 .. H - 1
  <2> HIDE DEF n
  <2> QED BY <1>2, DivMod, ModRange
<1> SUFFICES t = v
  OBVIOUS
<1> HIDE DEF q, r, m, n, s, t, u, v
<1>5. H * u - H * (q + s) = t - v
  BY <1>1, <1>2, <1>3, <1>4
<1>6. u = q + s
  BY <1>5, <1>1, <1>3, <1>4, MultipleGap
<1> QED BY <1>5, <1>6, <1>3, <1>4

\* Halving after a division.
LEMMA DivHalf ==
    ASSUME NEW n \in Nat, NEW p \in Nat \ {0}
    PROVE  n \div (2 * p) = (n \div p) \div 2
<1> DEFINE H == 2 * p  q == n \div p  r == n % p  h == q \div 2  b == q % 2
           a == n \div H  s == n % H
<1>1. H \in Nat \ {0}
  OBVIOUS
<1>2. n = p * q + r /\ q \in Nat /\ r \in 0 .. p - 1
  BY DivMod, ModRange
<1>3. n = H * a + s /\ a \in Nat /\ s \in 0 .. H - 1
  <2> HIDE DEF H
  <2> QED BY <1>1, DivMod, ModRange
<1>4. q = 2 * h + b /\ h \in Nat /\ (b = 0 \/ b = 1)
  <2>1. q \in Nat
    BY <1>2
  <2> HIDE DEF q
  <2> QED BY <2>1
<1> HIDE DEF q, r, a, s, h, b
<1>5. H = 2 * p
  OBVIOUS
<1>6. PICK e \in 0 .. H - 1 : n = H * h + e
  <2>1. CASE b = 0
    <3>1. p * q = H * h
      BY <1>4, <1>5, <2>1
    <3>2. r \in 0 .. H - 1
      BY <1>2, <1>5
    <3> QED BY <3>1, <3>2, <1>2
  <2>2. CASE b = 1
    <3>1. p * q = H * h + p
      BY <1>4, <1>5, <2>2
    <3>2. p + r \in 0 .. H - 1
      BY <1>2, <1>5
    <3>3. H * h \in Int
      BY <1>4, <1>5
    <3> HIDE DEF H
    <3>4. n = H * h + (p + r)
      BY <3>1, <3>3, <1>2
    <3> QED BY <3>2, <3>4
  <2> QED BY <2>1, <2>2, <1>4
<1> HIDE DEF H
<1>7. H * a - H * h < H /\ H * h - H * a < H
  <2>1. H * a \in Int /\ H * h \in Int
    BY <1>1, <1>3, <1>4
  <2> QED BY <2>1, <1>3, <1>6, <1>1
<1>8. a = h
  BY <1>1, <1>3, <1>4, <1>7, MultipleGap
<1> QED BY <1>8 DEF a, h, q, H
-----------------------------------------------------------------------------
\* The element a sum takes next.
FirstOf(s) == CHOOSE x \in s : TRUE

\* g goes through the sums of F over the subsets in D, an element at a time.
IsSum(g, F, D) ==
    g = [s \in D |-> IF s = {} THEN 0 ELSE F[FirstOf(s)] + g[s \ {FirstOf(s)}]]

\* Taking one element out of a set of n + 1 elements leaves n.
LEMMA TakeOne ==
    ASSUME NEW s, IsFiniteSet(s), NEW x \in s
    PROVE  /\ IsFiniteSet(s \ {x}) /\ Cardinality(s) \in Nat \ {0}
           /\ Cardinality(s \ {x}) = Cardinality(s) - 1
           /\ Cardinality(s \ {x}) \in Nat
<1>1. IsFiniteSet(s \ {x}) /\ Cardinality(s \ {x}) = Cardinality(s) - 1
  BY FS_RemoveElement
<1>2. Cardinality(s) \in Nat /\ Cardinality(s \ {x}) \in Nat
  BY <1>1, FS_CardinalityType
<1> QED BY <1>1, <1>2

\* The subsets of S with at most n elements.
Small(S, n) == {s \in SUBSET S : IsFiniteSet(s) /\ Cardinality(s) <= n}

LEMMA NextElement == \A s : s # {} => FirstOf(s) \in s
BY DEF FirstOf

LEMMA SumExists ==
    ASSUME NEW F, NEW S, NEW n \in Nat
    PROVE  \E g : IsSum(g, F, Small(S, n))
<1> DEFINE T == {k \in Nat : \E g : IsSum(g, F, Small(S, k))}
<1>1. 0 \in T
  <2> DEFINE g == [s \in Small(S, 0) |-> 0]
  <2>1. \A s \in Small(S, 0) : s = {}
    <3> SUFFICES ASSUME NEW s \in Small(S, 0) PROVE s = {}
      OBVIOUS
    <3>1. IsFiniteSet(s) /\ Cardinality(s) <= 0
      BY DEF Small
    <3>2. Cardinality(s) \in Nat
      BY <3>1, FS_CardinalityType
    <3> QED BY <3>1, <3>2, FS_EmptySet
  <2>2. IsSum(g, F, Small(S, 0))
    BY <2>1 DEF IsSum
  <2> QED BY <2>2
<1>2. ASSUME NEW k \in T PROVE k + 1 \in T
  <2>1. PICK g : IsSum(g, F, Small(S, k))
    OBVIOUS
  <2>2. \A s \in Small(S, k) : g[s] = IF s = {} THEN 0 ELSE F[FirstOf(s)] + g[s \ {FirstOf(s)}]
    BY <2>1 DEF IsSum
  <2> DEFINE h == [s \in Small(S, k + 1) |->
                     IF s = {} THEN 0 ELSE F[FirstOf(s)] + g[s \ {FirstOf(s)}]]
  <2>3. ASSUME NEW s \in Small(S, k + 1), s # {}
        PROVE  /\ s \ {FirstOf(s)} \in Small(S, k)
               /\ s \ {FirstOf(s)} \in Small(S, k + 1)
    <3>1. FirstOf(s) \in s /\ IsFiniteSet(s) /\ s \subseteq S /\ Cardinality(s) <= k + 1 /\ k \in Nat
      BY <2>3, NextElement DEF Small
    <3>2. /\ IsFiniteSet(s \ {FirstOf(s)}) /\ Cardinality(s \ {FirstOf(s)}) = Cardinality(s) - 1
          /\ Cardinality(s) \in Nat
      BY <3>1, TakeOne
    <3>3. Cardinality(s \ {FirstOf(s)}) <= k /\ Cardinality(s \ {FirstOf(s)}) <= k + 1
      BY <3>1, <3>2
    <3> QED BY <3>1, <3>2, <3>3 DEF Small
  <2>4. \A s \in Small(S, k) : h[s] = g[s]
    <3>1. Small(S, k) \subseteq Small(S, k + 1)
      <4> SUFFICES ASSUME NEW s \in Small(S, k) PROVE s \in Small(S, k + 1)
        OBVIOUS
      <4>1. s \in SUBSET S /\ IsFiniteSet(s) /\ Cardinality(s) <= k /\ k \in Nat
        BY DEF Small
      <4>2. Cardinality(s) \in Nat
        BY <4>1, FS_CardinalityType
      <4>3. Cardinality(s) <= k + 1
        BY <4>1, <4>2
      <4> QED BY <4>1, <4>3 DEF Small
    <3> QED BY <3>1, <2>2
  <2>5. ASSUME NEW s \in Small(S, k + 1)
        PROVE  h[s] = IF s = {} THEN 0 ELSE F[FirstOf(s)] + h[s \ {FirstOf(s)}]
    BY <2>3, <2>4
  <2>6. h = [s \in Small(S, k + 1) |-> h[s]]
    OBVIOUS
  <2>7. IsSum(h, F, Small(S, k + 1))
    <3> HIDE DEF h
    <3> QED BY <2>5, <2>6 DEF IsSum
  <2>8. k + 1 \in Nat
    OBVIOUS
  <2> HIDE DEF h
  <2> QED BY <2>7, <2>8
<1> HIDE DEF T
<1>3. n \in T
  BY <1>1, <1>2, SetInduction DEF T
<1> QED BY <1>3 DEF T

\* SumOver follows the definition of a sum.
LEMMA SumDef ==
    ASSUME NEW F, NEW S, IsFiniteSet(S)
    PROVE  \E g : IsSum(g, F, SUBSET S) /\ SumOver(F, S) = g[S]
<1>1. SUBSET S = Small(S, Cardinality(S)) /\ Cardinality(S) \in Nat
  <2>1. Cardinality(S) \in Nat
    BY FS_CardinalityType
  <2>2. ASSUME NEW s \in SUBSET S PROVE IsFiniteSet(s) /\ Cardinality(s) <= Cardinality(S)
    BY FS_Subset
  <2> QED BY <2>1, <2>2 DEF Small
<1>2. \E g : IsSum(g, F, SUBSET S)
  <2>1. \E g : IsSum(g, F, Small(S, Cardinality(S)))
    BY <1>1, SumExists, Zenon
  <2> QED BY <2>1, <1>1, Zenon
<1>3. SumOver(F, S) = (CHOOSE g : IsSum(g, F, SUBSET S))[S]
  BY DEF SumOver, MapThenSumSet, MapThenFoldSet, IsSum, FirstOf
<1> QED BY <1>2, <1>3

\* A sum depends on the values in the set alone.
LEMMA SumUnique ==
    ASSUME NEW F, NEW G, NEW S, NEW g, NEW h, NEW U, U \subseteq S, IsFiniteSet(U),
           IsSum(g, F, SUBSET S), IsSum(h, G, SUBSET U), \A x \in U : F[x] = G[x]
    PROVE  g[U] = h[U]
<1> DEFINE N == {n \in Nat : \A s \in SUBSET U : Cardinality(s) = n => g[s] = h[s]}
<1>0. /\ \A s \in SUBSET S : g[s] = IF s = {} THEN 0 ELSE F[FirstOf(s)] + g[s \ {FirstOf(s)}]
      /\ \A s \in SUBSET U : h[s] = IF s = {} THEN 0 ELSE G[FirstOf(s)] + h[s \ {FirstOf(s)}]
  BY DEF IsSum
<1>1. 0 \in N
  <2> SUFFICES ASSUME NEW s \in SUBSET U, Cardinality(s) = 0 PROVE g[s] = h[s]
    OBVIOUS
  <2>1. s = {}
    BY FS_Subset, FS_EmptySet
  <2> QED BY <2>1, <1>0
<1>2. ASSUME NEW n \in N PROVE n + 1 \in N
  <2> SUFFICES ASSUME NEW s \in SUBSET U, Cardinality(s) = n + 1 PROVE g[s] = h[s]
    OBVIOUS
  <2> DEFINE x == FirstOf(s)
  <2>1. IsFiniteSet(s) /\ n \in Nat
    BY FS_Subset
  <2>2. s # {}
    BY <2>1, FS_EmptySet
  <2>3. x \in s
    BY <2>2, NextElement
  <2>4. Cardinality(s \ {x}) = n
    <3> HIDE DEF x
    <3>1. Cardinality(s \ {x}) = Cardinality(s) - 1
      BY <2>1, <2>3, TakeOne
    <3> QED BY <3>1, <2>1
  <2>5. s \ {x} \in SUBSET U
    OBVIOUS
  <2>6. g[s \ {x}] = h[s \ {x}]
    BY <2>4, <2>5
  <2>7. F[x] = G[x]
    BY <2>3
  <2> QED BY <1>0, <2>2, <2>6, <2>7
<1> HIDE DEF N
<1>3. Cardinality(U) \in Nat
  BY FS_CardinalityType
<1>4. Cardinality(U) \in N
  BY <1>1, <1>2, <1>3, SetInduction DEF N
<1> QED BY <1>4 DEF N

\* Functions with the same values on S have the same sum over S.
LEMMA SumCong ==
    ASSUME NEW F, NEW G, NEW S, IsFiniteSet(S), \A x \in S : F[x] = G[x]
    PROVE  SumOver(F, S) = SumOver(G, S)
<1>1. PICK g : IsSum(g, F, SUBSET S) /\ SumOver(F, S) = g[S]
  BY SumDef, Zenon
<1>2. PICK h : IsSum(h, G, SUBSET S) /\ SumOver(G, S) = h[S]
  BY SumDef, Zenon
<1>3. g[S] = h[S]
  BY <1>1, <1>2, SumUnique
<1> QED BY <1>1, <1>2, <1>3

\* The sum over no element.
LEMMA SumEmpty ==
    ASSUME NEW F
    PROVE  SumOver(F, {}) = 0
<1>1. IsFiniteSet({})
  BY FS_EmptySet
<1>2. PICK g : IsSum(g, F, SUBSET {}) /\ SumOver(F, {}) = g[{}]
  BY <1>1, SumDef, Zenon
<1> QED BY <1>2 DEF IsSum

\* The element a sum takes first.
LEMMA SumFirst ==
    ASSUME NEW F, NEW S, IsFiniteSet(S), S # {}
    PROVE  SumOver(F, S) = F[FirstOf(S)] + SumOver(F, S \ {FirstOf(S)})
<1> DEFINE x == FirstOf(S)
<1>1. PICK g : IsSum(g, F, SUBSET S) /\ SumOver(F, S) = g[S]
  BY SumDef, Zenon
<1>2. IsFiniteSet(S \ {x})
  <2> HIDE DEF x
  <2> QED BY FS_RemoveElement
<1>3. PICK h : IsSum(h, F, SUBSET (S \ {x})) /\ SumOver(F, S \ {x}) = h[S \ {x}]
  <2> HIDE DEF x
  <2> QED BY <1>2, SumDef, Zenon
<1>4. g[S] = F[x] + g[S \ {x}]
  BY <1>1 DEF IsSum
<1>5. g[S \ {x}] = h[S \ {x}]
  <2> HIDE DEF x
  <2> DEFINE U == S \ {x}
  <2>1. U \subseteq S
    OBVIOUS
  <2>2. IsFiniteSet(U) /\ IsSum(h, F, SUBSET U)
    BY <1>2, <1>3
  <2> HIDE DEF U
  <2>3. g[U] = h[U]
    BY <1>1, <2>1, <2>2, SumUnique
  <2> QED BY <2>3 DEF U
<1> QED BY <1>1, <1>3, <1>4, <1>5

\* A sum of naturals is a natural.
LEMMA SumNat ==
    ASSUME NEW S, NEW F, IsFiniteSet(S), \A x \in S : F[x] \in Nat
    PROVE  SumOver(F, S) \in Nat
<1> DEFINE N == {n \in Nat : \A s \in SUBSET S : Cardinality(s) = n => SumOver(F, s) \in Nat}
<1>1. 0 \in N
  <2> SUFFICES ASSUME NEW s \in SUBSET S, Cardinality(s) = 0 PROVE SumOver(F, s) \in Nat
    OBVIOUS
  <2>1. s = {}
    BY FS_Subset, FS_EmptySet
  <2> QED BY <2>1, SumEmpty
<1>2. ASSUME NEW n \in N PROVE n + 1 \in N
  <2> SUFFICES ASSUME NEW s \in SUBSET S, Cardinality(s) = n + 1 PROVE SumOver(F, s) \in Nat
    OBVIOUS
  <2> DEFINE c == FirstOf(s)
  <2>1. IsFiniteSet(s) /\ n \in Nat
    BY FS_Subset
  <2>2. s # {}
    BY <2>1, FS_EmptySet
  <2>3. c \in s /\ SumOver(F, s) = F[c] + SumOver(F, s \ {c})
    BY <2>1, <2>2, NextElement, SumFirst
  <2> HIDE DEF c
  <2>4. Cardinality(s \ {c}) = n
    <3>1. Cardinality(s \ {c}) = Cardinality(s) - 1
      BY <2>1, <2>3, TakeOne
    <3> QED BY <3>1, <2>1
  <2>5. SumOver(F, s \ {c}) \in Nat /\ F[c] \in Nat
    BY <2>3, <2>4
  <2> QED BY <2>3, <2>5
<1> HIDE DEF N
<1>3. Cardinality(S) \in Nat
  BY FS_CardinalityType
<1>4. Cardinality(S) \in N
  BY <1>1, <1>2, <1>3, SetInduction DEF N
<1> QED BY <1>4 DEF N

\* Any element may be taken out of a sum first: by induction on the number
\* of elements, as the first element and x can be taken in either order.
LEMMA SumRemove ==
    ASSUME NEW S, NEW F, IsFiniteSet(S), \A x \in S : F[x] \in Nat, NEW y \in S
    PROVE  SumOver(F, S) = F[y] + SumOver(F, S \ {y})
<1> DEFINE Ok(s) == \A x \in s : SumOver(F, s) = F[x] + SumOver(F, s \ {x})
           N == {n \in Nat : \A s \in SUBSET S : Cardinality(s) = n => Ok(s)}
<1>1. 0 \in N
  <2> SUFFICES ASSUME NEW s \in SUBSET S, Cardinality(s) = 0 PROVE Ok(s)
    OBVIOUS
  <2>1. s = {}
    BY FS_Subset, FS_EmptySet
  <2> QED BY <2>1
<1>2. ASSUME NEW n \in N PROVE n + 1 \in N
  <2> SUFFICES ASSUME NEW s \in SUBSET S, Cardinality(s) = n + 1, NEW x \in s
               PROVE  SumOver(F, s) = F[x] + SumOver(F, s \ {x})
    OBVIOUS
  <2> DEFINE c == FirstOf(s)
  <2>1. IsFiniteSet(s) /\ n \in Nat
    BY FS_Subset
  <2>2. c \in s /\ SumOver(F, s) = F[c] + SumOver(F, s \ {c})
    BY <2>1, NextElement, SumFirst
  <2> HIDE DEF c
  <2>3. ASSUME NEW z \in s PROVE Ok(s \ {z})
    <3>1. Cardinality(s \ {z}) = Cardinality(s) - 1
      BY <2>1, TakeOne
    <3>2. Cardinality(s \ {z}) = n /\ s \ {z} \in SUBSET S
      BY <3>1, <2>1
    <3> HIDE DEF Ok
    <3> QED BY <3>2
  <2>4. CASE x # c
    <3> DEFINE r == (s \ {c}) \ {x}
    <3>1. (s \ {x}) \ {c} = r /\ x \in s \ {c} /\ c \in s \ {x}
      BY <2>4, <2>2
    <3>2. SumOver(F, s \ {c}) = F[x] + SumOver(F, r)
      BY <3>1, <2>2, <2>3
    <3>3. SumOver(F, s \ {x}) = F[c] + SumOver(F, r)
      <4> HIDE DEF r
      <4> QED BY <3>1, <2>3
    <3>4. SumOver(F, r) \in Nat
      <4>1. r \in SUBSET S
        OBVIOUS
      <4>2. IsFiniteSet(r)
        BY <4>1, FS_Subset
      <4>3. \A z \in r : F[z] \in Nat
        OBVIOUS
      <4> HIDE DEF r
      <4> QED BY <4>2, <4>3, SumNat
    <3> HIDE DEF r
    <3>5. F[x] \in Nat /\ F[c] \in Nat
      BY <2>2
    <3> QED BY <2>2, <3>2, <3>3, <3>4, <3>5
  <2> QED BY <2>2, <2>4
<1> HIDE DEF N
<1>3. Cardinality(S) \in Nat
  BY FS_CardinalityType
<1>4. Cardinality(S) \in N
  BY <1>1, <1>2, <1>3, SetInduction DEF N
<1>5. Ok(S)
  <2> HIDE DEF Ok
  <2> QED BY <1>4 DEF N
<1> QED BY <1>5

\* The sum over one element.
LEMMA SumSingle ==
    ASSUME NEW F, NEW x, F[x] \in Nat
    PROVE  SumOver(F, {x}) = F[x]
<1>1. IsFiniteSet({x}) /\ x \in {x} /\ {x} \ {x} = {}
  BY FS_Singleton
<1>2. SumOver(F, {x}) = F[x] + SumOver(F, {x} \ {x})
  BY <1>1, SumRemove
<1> QED BY <1>1, <1>2, SumEmpty

\* A sum after one more element.
LEMMA SumAdd ==
    ASSUME NEW S, NEW F, IsFiniteSet(S), NEW y, y \notin S, \A x \in S \cup {y} : F[x] \in Nat
    PROVE  SumOver(F, S \cup {y}) = F[y] + SumOver(F, S)
<1>1. IsFiniteSet(S \cup {y}) /\ y \in S \cup {y} /\ (S \cup {y}) \ {y} = S
  BY FS_AddElement
<1>2. SumOver(F, S \cup {y}) = F[y] + SumOver(F, (S \cup {y}) \ {y})
  BY <1>1, SumRemove
<1> QED BY <1>1, <1>2

\* A sum is at most a sum that has each of its values, at a place of its own.
LEMMA SumInjection ==
    ASSUME NEW S, NEW T, NEW F, NEW G, NEW at \in [S -> T], IsFiniteSet(S), IsFiniteSet(T),
           \A x \in S : F[x] \in Nat /\ F[x] <= G[at[x]],
           \A y \in T : G[y] \in Nat,
           \A x, z \in S : at[x] = at[z] => x = z
    PROVE  SumOver(F, S) <= SumOver(G, T)
<1> DEFINE image(s) == {at[x] : x \in s}
           N == {n \in Nat : \A s \in SUBSET S, t \in SUBSET T :
                   Cardinality(s) = n /\ image(s) \subseteq t => SumOver(F, s) <= SumOver(G, t)}
<1>0. ASSUME NEW s \in SUBSET S, NEW t \in SUBSET T
      PROVE  /\ IsFiniteSet(s) /\ IsFiniteSet(t)
             /\ SumOver(F, s) \in Nat /\ SumOver(G, t) \in Nat
  <2>1. IsFiniteSet(s) /\ IsFiniteSet(t)
    BY FS_Subset
  <2>2. (\A x \in s : F[x] \in Nat) /\ (\A y \in t : G[y] \in Nat)
    OBVIOUS
  <2> QED BY <2>1, <2>2, SumNat
<1>1. 0 \in N
  <2> SUFFICES ASSUME NEW s \in SUBSET S, NEW t \in SUBSET T, Cardinality(s) = 0
               PROVE  SumOver(F, s) <= SumOver(G, t)
    OBVIOUS
  <2>1. s = {}
    BY <1>0, FS_EmptySet
  <2>2. SumOver(F, s) = 0 /\ SumOver(G, t) \in Nat
    BY <2>1, <1>0, SumEmpty
  <2> QED BY <2>2
<1>2. ASSUME NEW n \in N PROVE n + 1 \in N
  <2> SUFFICES ASSUME NEW s \in SUBSET S, NEW t \in SUBSET T, Cardinality(s) = n + 1,
                      image(s) \subseteq t
               PROVE  SumOver(F, s) <= SumOver(G, t)
    OBVIOUS
  <2>1. IsFiniteSet(s) /\ n \in Nat /\ s # {}
    BY <1>0, FS_EmptySet
  <2>2. PICK x \in s : TRUE
    BY <2>1
  <2>3. at[x] \in t /\ F[x] \in Nat /\ G[at[x]] \in Nat /\ F[x] <= G[at[x]]
    BY <2>2
  <2>4. SumOver(F, s) = F[x] + SumOver(F, s \ {x})
    BY <2>1, <2>2, SumRemove
  <2>5. SumOver(G, t) = G[at[x]] + SumOver(G, t \ {at[x]})
    BY <1>0, <2>3, SumRemove
  <2>6. image(s \ {x}) \subseteq t \ {at[x]}
    OBVIOUS
  <2>7. Cardinality(s \ {x}) = n
    <3>1. Cardinality(s \ {x}) = Cardinality(s) - 1
      BY <2>1, TakeOne
    <3> QED BY <3>1, <2>1
  <2>8. s \ {x} \in SUBSET S /\ t \ {at[x]} \in SUBSET T
    OBVIOUS
  <2>9. SumOver(F, s \ {x}) <= SumOver(G, t \ {at[x]})
    BY <2>6, <2>7, <2>8
  <2>10. SumOver(F, s \ {x}) \in Nat /\ SumOver(G, t \ {at[x]}) \in Nat
    BY <1>0, <2>8
  <2> QED BY <2>3, <2>4, <2>5, <2>9, <2>10
<1> HIDE DEF N
<1>3. Cardinality(S) \in Nat
  BY FS_CardinalityType
<1>4. Cardinality(S) \in N
  BY <1>1, <1>2, <1>3, SetInduction DEF N
<1>5. image(S) \subseteq T
  OBVIOUS
<1> QED BY <1>4, <1>5 DEF N
=============================================================================
