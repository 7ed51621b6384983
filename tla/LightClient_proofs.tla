------------------------- MODULE LightClient_proofs -------------------------
(***************************************************************************)
(* The light client: what its branches prove, and that the trusted head is *)
(* one block of the beacon chain, for any chain and any relayers.          *)
(***************************************************************************)
EXTENDS LightClient, NatLemmas, SequenceTheorems
-----------------------------------------------------------------------------
\* Hashes and opaque values are those of one thing only.
LEMMA PairInjective ==
    ASSUME NEW a, NEW b, NEW c, NEW d, sha256_pair(a, b) = sha256_pair(c, d)
    PROVE  a = c /\ b = d
BY DEF sha256_pair

LEMMA OpaqueInjective ==
    ASSUME NEW x, NEW s, NEW i, NEW y, NEW t, NEW j, Opaque(x, s, i) = Opaque(y, t, j)
    PROVE  x = y /\ s = t /\ i = j
BY DEF Opaque
-----------------------------------------------------------------------------
\* The nodes of a tree from number lo on: those of inner are hashes.
IsNodes(f, n, inner, base, lo) ==
    f = [g \in lo .. n |-> IF g \in inner THEN sha256_pair(f[2 * g], f[2 * g + 1]) ELSE base[g]]

LEMMA NodesExist ==
    ASSUME NEW n \in Nat \ {0}, NEW inner, NEW base, \A g \in inner : g \in 1 .. n /\ 2 * g + 1 <= n
    PROVE  \E f : IsNodes(f, n, inner, base, 1)
<1> DEFINE T == {k \in Nat : k <= n => \E f : IsNodes(f, n, inner, base, n + 1 - k)}
<1>1. 0 \in T
  <2>1. n + 1 - 0 = n + 1 /\ (n + 1) .. n = {}
    OBVIOUS
  <2>2. IsNodes([g \in {} |-> g], n, inner, base, n + 1)
    BY <2>1 DEF IsNodes
  <2> QED BY <2>1, <2>2
<1>2. ASSUME NEW k \in T PROVE k + 1 \in T
  <2> SUFFICES ASSUME k + 1 <= n PROVE \E f : IsNodes(f, n, inner, base, n + 1 - (k + 1))
    OBVIOUS
  <2> DEFINE lo == n - k
  <2>1. k \in Nat /\ lo \in 1 .. n /\ n + 1 - k = lo + 1 /\ n + 1 - (k + 1) = lo
    OBVIOUS
  <2>2. PICK h : IsNodes(h, n, inner, base, lo + 1)
    BY <2>1
  <2> HIDE DEF lo, T
  <2>3. \A g \in lo + 1 .. n : h[g] = IF g \in inner THEN sha256_pair(h[2 * g], h[2 * g + 1]) ELSE base[g]
    BY <2>2 DEF IsNodes
  <2> DEFINE f == [g \in lo .. n |-> IF g = lo
                                       THEN IF lo \in inner THEN sha256_pair(h[2 * lo], h[2 * lo + 1]) ELSE base[lo]
                                       ELSE h[g]]
  <2>4. /\ f[lo] = IF lo \in inner THEN sha256_pair(h[2 * lo], h[2 * lo + 1]) ELSE base[lo]
        /\ \A g \in lo + 1 .. n : f[g] = h[g]
    BY <2>1
  <2>5. f = [g \in lo .. n |-> f[g]]
    OBVIOUS
  <2> HIDE DEF f
  <2>6. ASSUME NEW g \in lo .. n
        PROVE  f[g] = IF g \in inner THEN sha256_pair(f[2 * g], f[2 * g + 1]) ELSE base[g]
    <3>1. g \in inner => 2 * g \in lo + 1 .. n /\ 2 * g + 1 \in lo + 1 .. n
      BY <2>1
    <3>2. g \in inner => f[2 * g] = h[2 * g] /\ f[2 * g + 1] = h[2 * g + 1]
      BY <3>1, <2>4
    <3>3. CASE g = lo
      BY <3>2, <3>3, <2>4
    <3>4. CASE g # lo
      <4>1. g \in lo + 1 .. n
        BY <3>4, <2>1
      <4>2. f[g] = h[g]
        BY <4>1, <2>4
      <4>3. h[g] = IF g \in inner THEN sha256_pair(h[2 * g], h[2 * g + 1]) ELSE base[g]
        BY <4>1, <2>3
      <4> QED BY <3>2, <4>2, <4>3
    <3> QED BY <3>3, <3>4
  <2>7. IsNodes(f, n, inner, base, lo)
    <3>1. f = [g \in lo .. n |-> IF g \in inner THEN sha256_pair(f[2 * g], f[2 * g + 1]) ELSE base[g]]
      BY <2>5, <2>6
    <3> QED BY <3>1 DEF IsNodes
  <2> QED BY <2>7, <2>1
<1> HIDE DEF T
<1>3. n \in T
  <2>1. \A k \in Nat : k \in T
    BY <1>1, <1>2, SetInduction DEF T
  <2> QED BY <2>1
<1>4. n <= n /\ n + 1 - n = 1
  OBVIOUS
<1> QED BY <1>3, <1>4 DEF T

\* The tree over a list of leaves.
LEMMA TreeNodes ==
    ASSUME NEW depth, NEW leaves, NEW size \in Nat \ {0}, 2 ^ depth = size, 2 ^ (depth + 1) = 2 * size
    PROVE  /\ \A g \in 1 .. size - 1 :
                Tree(depth, leaves)[g] = sha256_pair(Tree(depth, leaves)[2 * g], Tree(depth, leaves)[2 * g + 1])
           /\ \A i \in 1 .. size : Tree(depth, leaves)[size + i - 1] = leaves[i]
<1> DEFINE n == 2 * size - 1
           inner == 1 .. size - 1
           base == [g \in 1 .. n |-> leaves[1 + g - size]]
           f == Tree(depth, leaves)
           is(h) == h = [g \in 1 .. n |-> IF g >= size THEN leaves[1 + g - size]
                                                       ELSE sha256_pair(h[2 * g], h[2 * g + 1])]
<1>1. f = CHOOSE h : is(h)
  BY DEF Tree
<1>2. \E h : is(h)
  <2>1. n \in Nat \ {0} /\ \A g \in inner : g \in 1 .. n /\ 2 * g + 1 <= n
    OBVIOUS
  <2>2. PICK h : IsNodes(h, n, inner, base, 1)
    <3> HIDE DEF n, inner, base
    <3> QED BY <2>1, NodesExist
  <2>3. \A g \in 1 .. n : g \in inner <=> ~ (g >= size)
    OBVIOUS
  <2>4. \A g \in 1 .. n : base[g] = leaves[1 + g - size]
    OBVIOUS
  <2>5. h = [g \in 1 .. n |-> IF g \in inner THEN sha256_pair(h[2 * g], h[2 * g + 1]) ELSE base[g]]
    BY <2>2 DEF IsNodes
  <2>6. is(h)
    <3> HIDE DEF n, inner, base
    <3> QED BY <2>3, <2>4, <2>5
  <2> QED BY <2>6
<1>3. is(f)
  <2> HIDE DEF is, f
  <2> QED BY <1>1, <1>2
<1> HIDE DEF f
<1>4. \A g \in 1 .. n : f[g] = IF g >= size THEN leaves[1 + g - size] ELSE sha256_pair(f[2 * g], f[2 * g + 1])
  BY <1>3
<1>5. ASSUME NEW g \in 1 .. size - 1 PROVE f[g] = sha256_pair(f[2 * g], f[2 * g + 1])
  <2>1. g \in 1 .. n /\ ~ (g >= size)
    OBVIOUS
  <2> HIDE DEF n
  <2> QED BY <2>1, <1>4
<1>6. ASSUME NEW i \in 1 .. size PROVE f[size + i - 1] = leaves[i]
  <2>1. size + i - 1 \in 1 .. n /\ size + i - 1 >= size /\ 1 + (size + i - 1) - size = i
    OBVIOUS
  <2> HIDE DEF n
  <2> QED BY <2>1, <1>4
<1> QED BY <1>5, <1>6 DEF f

\* A tree in which one node is of interest: the nodes above it are hashes.
Ancestors(gindex, depth, n, above) ==
    /\ n \in Nat \ {0} /\ 2 ^ (depth + 1) - 1 = n /\ gindex \in 1 .. n
    /\ above = {gindex \div 2 ^ k : k \in 1 .. depth}
    /\ \A g \in above : g \in 1 .. n /\ 2 * g + 1 <= n /\ g # gindex

NodesAround(node, gindex, value, what, slot, n, above) ==
    /\ node[gindex] = value
    /\ \A g \in above : node[g] = sha256_pair(node[2 * g], node[2 * g + 1])
    /\ \A g \in 1 .. n : g # gindex /\ g \notin above => node[g] = Opaque(what, slot, g)

LEMMA TreeAroundNodes ==
    ASSUME NEW gindex, NEW depth, NEW value, NEW what, NEW slot, NEW n, NEW above,
           Ancestors(gindex, depth, n, above)
    PROVE  NodesAround(TreeAround(gindex, depth, value, what, slot), gindex, value, what, slot, n, above)
<1>0. /\ n \in Nat \ {0} /\ 2 ^ (depth + 1) - 1 = n /\ gindex \in 1 .. n
      /\ above = {gindex \div 2 ^ k : k \in 1 .. depth}
      /\ \A g \in above : g \in 1 .. n /\ 2 * g + 1 <= n /\ g # gindex
  BY DEF Ancestors
<1> DEFINE base == [g \in 1 .. n |-> IF g = gindex THEN value ELSE Opaque(what, slot, g)]
           f == TreeAround(gindex, depth, value, what, slot)
           is(h) == h = [g \in 1 .. 2 ^ (depth + 1) - 1 |->
                           IF g \in {gindex \div 2 ^ k : k \in 1 .. depth}
                             THEN sha256_pair(h[2 * g], h[2 * g + 1])
                             ELSE IF g = gindex THEN value ELSE Opaque(what, slot, g)]
<1>1. f = CHOOSE h : is(h)
  BY DEF TreeAround
<1>4. ASSUME NEW h PROVE is(h) <=> IsNodes(h, n, above, base, 1)
  <2>1. \A g \in 1 .. n : base[g] = IF g = gindex THEN value ELSE Opaque(what, slot, g)
    OBVIOUS
  <2> HIDE DEF base
  <2>3. is(h) <=> h = [g \in 1 .. n |-> IF g \in above THEN sha256_pair(h[2 * g], h[2 * g + 1])
                                                      ELSE IF g = gindex THEN value ELSE Opaque(what, slot, g)]
    BY <1>0
  <2>2. is(h) <=> h = [g \in 1 .. n |-> IF g \in above THEN sha256_pair(h[2 * g], h[2 * g + 1]) ELSE base[g]]
    <3> HIDE DEF is
    <3> QED BY <1>0, <2>1, <2>3
  <2> HIDE DEF is
  <2> QED BY <2>2 DEF IsNodes
<1>5. is(f)
  <2>1. \E h : IsNodes(h, n, above, base, 1)
    <3> HIDE DEF base
    <3> QED BY <1>0, NodesExist
  <2> HIDE DEF is, f, base
  <2> QED BY <1>1, <1>4, <2>1
<1>6. \A g \in 1 .. n : f[g] = IF g \in above THEN sha256_pair(f[2 * g], f[2 * g + 1]) ELSE base[g]
  <2> HIDE DEF f, is, base
  <2> QED BY <1>4, <1>5 DEF IsNodes
<1> HIDE DEF f, is
<1>7. f[gindex] = value
  <2>1. gindex \notin above /\ base[gindex] = value
    BY <1>0
  <2> HIDE DEF base
  <2> QED BY <1>0, <1>6, <2>1
<1>8. ASSUME NEW g \in above
      PROVE  f[g] = sha256_pair(f[2 * g], f[2 * g + 1])
  <2> HIDE DEF base
  <2> QED BY <1>0, <1>6
<1>9. ASSUME NEW g \in 1 .. n, g # gindex, g \notin above
      PROVE  f[g] = Opaque(what, slot, g)
  <2>1. base[g] = Opaque(what, slot, g)
    BY <1>9
  <2> HIDE DEF base
  <2> QED BY <1>6, <1>9, <2>1
<1> QED BY <1>7, <1>8, <1>9 DEF f, NodesAround

\* The state's tree around the finalized root, the body's around the payload.
LEMMA StateNodes ==
    ASSUME NEW value, NEW what, NEW slot
    PROVE  LET node == TreeAround(105, 6, value, what, slot) IN
           /\ node[105] = value
           /\ \A g \in {52, 26, 13, 6, 3, 1} : node[g] = sha256_pair(node[2 * g], node[2 * g + 1])
<1>1. 105 \div 2 ^ 1 = 52 /\ 105 \div 2 ^ 2 = 26 /\ 105 \div 2 ^ 3 = 13 /\ 105 \div 2 ^ 4 = 6 /\ 105 \div 2 ^ 5 = 3 /\ 105 \div 2 ^ 6 = 1
  OBVIOUS
<1>2. 1 .. 6 = {1, 2, 3, 4, 5, 6}
  OBVIOUS
<1>3. {52, 26, 13, 6, 3, 1} = {105 \div 2 ^ k : k \in 1 .. 6}
  BY <1>1, <1>2
<1>4. 2 ^ (6 + 1) - 1 = 127 /\ 127 \in Nat \ {0} /\ 105 \in 1 .. 127
  OBVIOUS
<1>5. \A g \in {52, 26, 13, 6, 3, 1} : g \in 1 .. 127 /\ 2 * g + 1 <= 127 /\ g # 105
  OBVIOUS
<1> DEFINE above == {52, 26, 13, 6, 3, 1}
           gindex == 105
           depth == 6
           n == 127
           node == TreeAround(gindex, depth, value, what, slot)
<1>6. Ancestors(gindex, depth, n, above)
  BY <1>3, <1>4, <1>5 DEF Ancestors
<1>7. NodesAround(node, gindex, value, what, slot, n, above)
  <2> HIDE DEF above, gindex, depth, n
  <2> QED BY <1>6, TreeAroundNodes
<1> QED BY <1>7 DEF NodesAround

LEMMA BodyNodes ==
    ASSUME NEW value, NEW what, NEW slot
    PROVE  LET node == TreeAround(25, 4, value, what, slot) IN
           /\ node[25] = value
           /\ \A g \in {12, 6, 3, 1} : node[g] = sha256_pair(node[2 * g], node[2 * g + 1])
           /\ node[2] = Opaque(what, slot, 2)
<1>1. 25 \div 2 ^ 1 = 12 /\ 25 \div 2 ^ 2 = 6 /\ 25 \div 2 ^ 3 = 3 /\ 25 \div 2 ^ 4 = 1
  OBVIOUS
<1>2. 1 .. 4 = {1, 2, 3, 4}
  OBVIOUS
<1>3. {12, 6, 3, 1} = {25 \div 2 ^ k : k \in 1 .. 4}
  BY <1>1, <1>2
<1>4. 2 ^ (4 + 1) - 1 = 31 /\ 31 \in Nat \ {0} /\ 25 \in 1 .. 31
  OBVIOUS
<1>5. \A g \in {12, 6, 3, 1} : g \in 1 .. 31 /\ 2 * g + 1 <= 31 /\ g # 25
  OBVIOUS
<1> DEFINE above == {12, 6, 3, 1}
           gindex == 25
           depth == 4
           n == 31
           node == TreeAround(gindex, depth, value, what, slot)
<1>6. Ancestors(gindex, depth, n, above)
  BY <1>3, <1>4, <1>5 DEF Ancestors
<1>7. NodesAround(node, gindex, value, what, slot, n, above)
  <2> HIDE DEF above, gindex, depth, n
  <2> QED BY <1>6, TreeAroundNodes
<1>8. 2 \in 1 .. n /\ 2 # gindex /\ 2 \notin above
  OBVIOUS
<1> QED BY <1>7, <1>8 DEF NodesAround
-----------------------------------------------------------------------------
\* The nodes verify_merkle_branch goes through.
Ascends(v, leaf, branch, leaf_index, n) ==
    v = [i \in 0 .. n |->
           IF i = 0 THEN leaf
           ELSE IF (leaf_index \div 2 ^ (i - 1)) % 2 = 1 THEN sha256_pair(branch[i], v[i - 1])
                                                       ELSE sha256_pair(v[i - 1], branch[i])]

LEMMA AscentExists ==
    ASSUME NEW leaf, NEW branch, NEW leaf_index, NEW n \in Nat
    PROVE  \E v : Ascends(v, leaf, branch, leaf_index, n)
<1> DEFINE next(x, i) == IF (leaf_index \div 2 ^ (i - 1)) % 2 = 1 THEN sha256_pair(branch[i], x)
                                                                ELSE sha256_pair(x, branch[i])
           T == {k \in Nat : \E v : Ascends(v, leaf, branch, leaf_index, k)}
<1>1. 0 \in T
  <2>1. Ascends([i \in 0 .. 0 |-> leaf], leaf, branch, leaf_index, 0)
    BY DEF Ascends
  <2> QED BY <2>1
<1>2. ASSUME NEW k \in T PROVE k + 1 \in T
  <2>1. PICK u : Ascends(u, leaf, branch, leaf_index, k)
    OBVIOUS
  <2>2. k \in Nat
    OBVIOUS
  <2>3. \A i \in 0 .. k : u[i] = IF i = 0 THEN leaf ELSE next(u[i - 1], i)
    BY <2>1 DEF Ascends
  <2> DEFINE v == [i \in 0 .. k + 1 |-> IF i = k + 1 THEN next(u[k], k + 1) ELSE u[i]]
  <2> HIDE DEF next
  <2>4. v[k + 1] = next(u[k], k + 1) /\ \A i \in 0 .. k : v[i] = u[i]
    BY <2>2
  <2>5. v = [i \in 0 .. k + 1 |-> v[i]]
    OBVIOUS
  <2> HIDE DEF v
  <2>6. ASSUME NEW i \in 0 .. k + 1 PROVE v[i] = IF i = 0 THEN leaf ELSE next(v[i - 1], i)
    <3>1. CASE i = k + 1
      <4>1. i # 0 /\ i - 1 = k /\ k \in 0 .. k
        BY <3>1, <2>2
      <4> QED BY <4>1, <3>1, <2>4
    <3>2. CASE i \in 0 .. k
      <4>1. i # 0 => i - 1 \in 0 .. k
        BY <3>2, <2>2
      <4> QED BY <4>1, <3>2, <2>3, <2>4
    <3> QED BY <3>1, <3>2, <2>2
  <2>7. Ascends(v, leaf, branch, leaf_index, k + 1)
    <3>1. v = [i \in 0 .. k + 1 |-> IF i = 0 THEN leaf ELSE next(v[i - 1], i)]
      BY <2>5, <2>6
    <3> QED BY <3>1 DEF Ascends, next
  <2> QED BY <2>2, <2>7
<1> HIDE DEF T
<1>3. n \in T
  BY <1>1, <1>2, SetInduction DEF T
<1> QED BY <1>3 DEF T

Path(v, leaf, branch, leaf_index, depth) ==
    /\ v[0] = leaf
    /\ \A i \in 1 .. depth :
         v[i] = IF (leaf_index \div 2 ^ (i - 1)) % 2 = 1 THEN sha256_pair(branch[i], v[i - 1])
                                                       ELSE sha256_pair(v[i - 1], branch[i])

LEMMA BranchPath ==
    ASSUME NEW leaf, NEW branch, NEW depth \in Nat, NEW leaf_index, NEW root, Len(branch) = depth
    PROVE  \E v : /\ Path(v, leaf, branch, leaf_index, depth)
                  /\ verify_merkle_branch(leaf, branch, depth, leaf_index, root) <=> v[depth] = root
<1> DEFINE v == CHOOSE u : Ascends(u, leaf, branch, leaf_index, Len(branch))
<1>1. Ascends(v, leaf, branch, leaf_index, Len(branch))
  BY AscentExists
<1>2. verify_merkle_branch(leaf, branch, depth, leaf_index, root) <=> v[depth] = root
  <2>1. verify_merkle_branch(leaf, branch, depth, leaf_index, root) <=> Len(branch) = depth /\ v[Len(branch)] = root
    BY Zenon DEF verify_merkle_branch, Ascends
  <2> QED BY <2>1
<1> HIDE DEF v
<1>3. \A i \in 0 .. depth :
        v[i] = IF i = 0 THEN leaf
               ELSE IF (leaf_index \div 2 ^ (i - 1)) % 2 = 1 THEN sha256_pair(branch[i], v[i - 1])
                                                           ELSE sha256_pair(v[i - 1], branch[i])
  BY <1>1 DEF Ascends
<1>4. v[0] = leaf
  BY <1>3
<1>5. \A i \in 1 .. depth : i \in 0 .. depth /\ i # 0
  OBVIOUS
<1>6. Path(v, leaf, branch, leaf_index, depth)
  BY <1>3, <1>4, <1>5 DEF Path
<1> QED BY <1>2, <1>6

LEMMA BranchReaches ==
    ASSUME NEW leaf, NEW branch, NEW depth \in Nat, NEW leaf_index, NEW root, Len(branch) = depth,
           \A v : Path(v, leaf, branch, leaf_index, depth) => v[depth] = root
    PROVE  verify_merkle_branch(leaf, branch, depth, leaf_index, root)
BY BranchPath

\* Along one branch, one root is reached from one leaf only.
LEMMA BranchInjective ==
    ASSUME NEW a, NEW b, NEW branch, NEW depth \in Nat, NEW leaf_index, NEW root,
           verify_merkle_branch(a, branch, depth, leaf_index, root),
           verify_merkle_branch(b, branch, depth, leaf_index, root)
    PROVE  a = b
<1>1. Len(branch) = depth
  BY DEF verify_merkle_branch
<1>2. PICK v : Path(v, a, branch, leaf_index, depth) /\ v[depth] = root
  BY <1>1, BranchPath
<1>3. PICK w : Path(w, b, branch, leaf_index, depth) /\ w[depth] = root
  BY <1>1, BranchPath
<1> DEFINE T == {k \in Nat : k <= depth => v[depth - k] = w[depth - k]}
<1>4. 0 \in T
  BY <1>2, <1>3
<1>5. ASSUME NEW k \in T PROVE k + 1 \in T
  <2> SUFFICES ASSUME k + 1 <= depth PROVE v[depth - (k + 1)] = w[depth - (k + 1)]
    OBVIOUS
  <2> DEFINE i == depth - k
  <2>1. /\ k \in Nat /\ k <= depth /\ i \in 1 .. depth /\ i - 1 = depth - (k + 1)
    OBVIOUS
  <2>2. v[i] = w[i]
    BY <2>1
  <2> HIDE DEF i, T
  <2>3. CASE (leaf_index \div 2 ^ (i - 1)) % 2 = 1
    <3>1. sha256_pair(branch[i], v[i - 1]) = sha256_pair(branch[i], w[i - 1])
      BY <2>1, <2>2, <2>3, <1>2, <1>3 DEF Path
    <3> QED BY <3>1, <2>1, PairInjective
  <2>4. CASE ~ ((leaf_index \div 2 ^ (i - 1)) % 2 = 1)
    <3>1. sha256_pair(v[i - 1], branch[i]) = sha256_pair(w[i - 1], branch[i])
      BY <2>1, <2>2, <2>4, <1>2, <1>3 DEF Path
    <3> QED BY <3>1, <2>1, PairInjective
  <2> QED BY <2>3, <2>4
<1> HIDE DEF T
<1>6. depth \in T
  BY <1>4, <1>5, SetInduction DEF T
<1>7. depth - depth = 0 /\ depth <= depth
  OBVIOUS
<1> QED BY <1>2, <1>3, <1>6, <1>7 DEF T, Path
-----------------------------------------------------------------------------
\* What the circuit gets of the branches the beacon chain serves.
Siblings(branch, nodes, gindex, depth) ==
    /\ Len(branch) = depth
    /\ \A i \in 1 .. depth : branch[i] = LET g == gindex \div 2 ^ (i - 1)
                                         IN  IF g % 2 = 0 THEN nodes[g + 1] ELSE nodes[g - 1]

LEMMA ServedBranch ==
    ASSUME NEW nodes, NEW gindex, NEW depth \in Nat
    PROVE  Siblings(parse_branch(HexList(Proof(nodes, gindex, depth))), nodes, gindex, depth)
<1> DEFINE node(i) == LET g == gindex \div 2 ^ (i - 1) IN IF g % 2 = 0 THEN nodes[g + 1] ELSE nodes[g - 1]
           branch == parse_branch(HexList(Proof(nodes, gindex, depth)))
<1>1. Proof(nodes, gindex, depth) = [i \in 1 .. depth |-> node(i)]
  BY DEF Proof
<1> HIDE DEF node
<1>2. branch = [i \in 1 .. depth |-> node(i)]
  BY <1>1 DEF parse_branch, parse_bytes32, HexList, Hex
<1> HIDE DEF branch
<1>3. Len(branch) = depth /\ \A i \in 1 .. depth : branch[i] = node(i)
  BY <1>2
<1> QED BY <1>3 DEF branch, node, Siblings

LEMMA FinalityBranchVerifies ==
    ASSUME NEW value, NEW what, NEW slot
    PROVE  LET node == TreeAround(105, 6, value, what, slot)
           IN  verify_merkle_branch(value, parse_branch(HexList(Proof(node, 105, 6))), 6, 41, node[1])
<1> DEFINE node == TreeAround(105, 6, value, what, slot)
           branch == parse_branch(HexList(Proof(node, 105, 6)))
<1>1. /\ node[105] = value /\ node[52] = sha256_pair(node[104], node[105])
      /\ node[26] = sha256_pair(node[52], node[53]) /\ node[13] = sha256_pair(node[26], node[27])
      /\ node[6] = sha256_pair(node[12], node[13]) /\ node[3] = sha256_pair(node[6], node[7])
      /\ node[1] = sha256_pair(node[2], node[3])
  <2> HIDE DEF node
  <2>1. node[105] = value /\ \A g \in {52, 26, 13, 6, 3, 1} : node[g] = sha256_pair(node[2 * g], node[2 * g + 1])
    BY StateNodes DEF node
  <2> QED BY <2>1
<1>2. Siblings(branch, node, 105, 6)
  <2> HIDE DEF node
  <2>1. 6 \in Nat
    OBVIOUS
  <2> QED BY <2>1, ServedBranch
<1> HIDE DEF node, branch
<1>3. /\ branch[1] = node[104] /\ branch[2] = node[53] /\ branch[3] = node[27]
      /\ branch[4] = node[12] /\ branch[5] = node[7] /\ branch[6] = node[2]
  BY <1>2 DEF Siblings
<1>4. ASSUME NEW v, Path(v, value, branch, 41, 6) PROVE v[6] = node[1]
  <2>1. /\ v[0] = value /\ v[1] = sha256_pair(branch[1], v[0]) /\ v[2] = sha256_pair(v[1], branch[2])
        /\ v[3] = sha256_pair(v[2], branch[3]) /\ v[4] = sha256_pair(branch[4], v[3])
        /\ v[5] = sha256_pair(v[4], branch[5]) /\ v[6] = sha256_pair(branch[6], v[5])
    BY <1>4 DEF Path
  <2> QED BY <1>1, <1>3, <2>1
<1>5. 6 \in Nat /\ Len(branch) = 6
  BY <1>2 DEF Siblings
<1>6. verify_merkle_branch(value, branch, 6, 41, node[1])
  BY <1>4, <1>5, BranchReaches
<1> QED BY <1>6 DEF node, branch

LEMMA BodyBranchVerifies ==
    ASSUME NEW value, NEW what, NEW slot
    PROVE  LET node == TreeAround(25, 4, value, what, slot)
           IN  verify_merkle_branch(value, parse_branch(HexList(Proof(node, 25, 4))), 4, 9, node[1])
<1> DEFINE node == TreeAround(25, 4, value, what, slot)
           branch == parse_branch(HexList(Proof(node, 25, 4)))
<1>1. /\ node[25] = value /\ node[12] = sha256_pair(node[24], node[25])
      /\ node[6] = sha256_pair(node[12], node[13]) /\ node[3] = sha256_pair(node[6], node[7])
      /\ node[1] = sha256_pair(node[2], node[3])
  <2> HIDE DEF node
  <2>1. node[25] = value /\ \A g \in {12, 6, 3, 1} : node[g] = sha256_pair(node[2 * g], node[2 * g + 1])
    BY BodyNodes DEF node
  <2> QED BY <2>1
<1>2. Siblings(branch, node, 25, 4)
  <2> HIDE DEF node
  <2>1. 4 \in Nat
    OBVIOUS
  <2> QED BY <2>1, ServedBranch
<1> HIDE DEF node, branch
<1>3. branch[1] = node[24] /\ branch[2] = node[13] /\ branch[3] = node[7] /\ branch[4] = node[2]
  BY <1>2 DEF Siblings
<1>4. ASSUME NEW v, Path(v, value, branch, 9, 4) PROVE v[4] = node[1]
  <2>1. /\ v[0] = value /\ v[1] = sha256_pair(branch[1], v[0]) /\ v[2] = sha256_pair(v[1], branch[2])
        /\ v[3] = sha256_pair(v[2], branch[3]) /\ v[4] = sha256_pair(branch[4], v[3])
    BY <1>4 DEF Path
  <2> QED BY <1>1, <1>3, <2>1
<1>5. 4 \in Nat /\ Len(branch) = 4
  BY <1>2 DEF Siblings
<1>6. verify_merkle_branch(value, branch, 4, 9, node[1])
  BY <1>4, <1>5, BranchReaches
<1> QED BY <1>6 DEF node, branch
-----------------------------------------------------------------------------
\* The host's levels of a tree, up to level n.
IsLevels(f, leaves, n) ==
    f = [k \in 0 .. n |-> IF k = 0 THEN leaves
                          ELSE [i \in 1 .. Len(leaves) \div 2 ^ k |-> sha256_pair(f[k - 1][2 * i - 1], f[k - 1][2 * i])]]

LEMMA LevelsExist ==
    ASSUME NEW leaves, NEW n \in Nat
    PROVE  \E f : IsLevels(f, leaves, n)
<1> DEFINE above(x, k) == [i \in 1 .. Len(leaves) \div 2 ^ k |-> sha256_pair(x[2 * i - 1], x[2 * i])]
           T == {k \in Nat : \E f : IsLevels(f, leaves, k)}
<1>1. 0 \in T
  <2>1. IsLevels([k \in 0 .. 0 |-> leaves], leaves, 0)
    BY DEF IsLevels
  <2> QED BY <2>1
<1>2. ASSUME NEW k \in T PROVE k + 1 \in T
  <2>1. PICK g : IsLevels(g, leaves, k)
    OBVIOUS
  <2>2. k \in Nat
    OBVIOUS
  <2>3. \A i \in 0 .. k : g[i] = IF i = 0 THEN leaves ELSE above(g[i - 1], i)
    BY <2>1 DEF IsLevels
  <2> DEFINE f == [i \in 0 .. k + 1 |-> IF i = k + 1 THEN above(g[k], k + 1) ELSE g[i]]
  <2> HIDE DEF above
  <2>4. f[k + 1] = above(g[k], k + 1) /\ \A i \in 0 .. k : f[i] = g[i]
    BY <2>2
  <2>5. f = [i \in 0 .. k + 1 |-> f[i]]
    OBVIOUS
  <2> HIDE DEF f
  <2>6. ASSUME NEW i \in 0 .. k + 1 PROVE f[i] = IF i = 0 THEN leaves ELSE above(f[i - 1], i)
    <3>1. CASE i = k + 1
      <4>1. i # 0 /\ i - 1 = k /\ k \in 0 .. k
        BY <3>1, <2>2
      <4> QED BY <4>1, <3>1, <2>4
    <3>2. CASE i \in 0 .. k
      <4>1. i # 0 => i - 1 \in 0 .. k
        BY <3>2, <2>2
      <4> QED BY <4>1, <3>2, <2>3, <2>4
    <3> QED BY <3>1, <3>2, <2>2
  <2>7. IsLevels(f, leaves, k + 1)
    <3>1. f = [i \in 0 .. k + 1 |-> IF i = 0 THEN leaves ELSE above(f[i - 1], i)]
      BY <2>5, <2>6
    <3> QED BY <3>1 DEF IsLevels, above
  <2> QED BY <2>2, <2>7
<1> HIDE DEF T
<1>3. n \in T
  BY <1>1, <1>2, SetInduction DEF T
<1> QED BY <1>3 DEF T

LEMMA LevelsDef ==
    ASSUME NEW leaves, NEW size \in Nat, Len(leaves) = size
    PROVE  /\ merkle_levels(leaves)[0] = leaves
           /\ \A k \in 1 .. 5 : \A i \in 1 .. size \div 2 ^ k :
                merkle_levels(leaves)[k][i] =
                    sha256_pair(merkle_levels(leaves)[k - 1][2 * i - 1], merkle_levels(leaves)[k - 1][2 * i])
<1> DEFINE f == merkle_levels(leaves)
           above(x, k) == [i \in 1 .. Len(leaves) \div 2 ^ k |-> sha256_pair(x[2 * i - 1], x[2 * i])]
<1>1. f = CHOOSE g : IsLevels(g, leaves, 5)
  BY DEF merkle_levels, IsLevels
<1>2. 5 \in Nat
  OBVIOUS
<1> HIDE DEF f
<1>3. IsLevels(f, leaves, 5)
  BY <1>1, <1>2, LevelsExist
<1>4. \A k \in 0 .. 5 : f[k] = IF k = 0 THEN leaves ELSE above(f[k - 1], k)
  BY <1>3 DEF IsLevels
<1>5. f[0] = leaves
  BY <1>4
<1>6. ASSUME NEW k \in 1 .. 5, NEW i \in 1 .. size \div 2 ^ k
      PROVE  f[k][i] = sha256_pair(f[k - 1][2 * i - 1], f[k - 1][2 * i])
  <2>1. f[k] = above(f[k - 1], k)
    <3> HIDE DEF above
    <3>1. k \in 0 .. 5 /\ k # 0
      OBVIOUS
    <3> QED BY <3>1, <1>4
  <2> QED BY <2>1
<1> QED BY <1>5, <1>6 DEF f

\* Eight chunks, and thirty-two: the host's root is that of the tree.
LEMMA RootOf8 ==
    ASSUME NEW leaves, Len(leaves) = 8
    PROVE  merkle_root_vec(leaves) = Tree(3, leaves)[1] /\ merkle_root_8(leaves) = Tree(3, leaves)[1]
<1> DEFINE node == Tree(3, leaves)
           level == merkle_levels(leaves)
<1>1. /\ \A g \in 1 .. 7 : node[g] = sha256_pair(node[2 * g], node[2 * g + 1])
      /\ \A i \in 1 .. 8 : node[8 + i - 1] = leaves[i]
  <2> DEFINE depth == 3
             size == 8
  <2>1. size \in Nat \ {0} /\ 2 ^ depth = size /\ 2 ^ (depth + 1) = 2 * size
    OBVIOUS
  <2>2. size - 1 = 7
    OBVIOUS
  <2> HIDE DEF size, depth
  <2>3. /\ \A g \in 1 .. size - 1 :
             Tree(depth, leaves)[g] = sha256_pair(Tree(depth, leaves)[2 * g], Tree(depth, leaves)[2 * g + 1])
        /\ \A i \in 1 .. size : Tree(depth, leaves)[size + i - 1] = leaves[i]
    BY <2>1, TreeNodes
  <2> QED BY <2>2, <2>3 DEF size, depth
<1>2. /\ level[0] = leaves
      /\ \A k \in 1 .. 5 : \A i \in 1 .. 8 \div 2 ^ k : level[k][i] = sha256_pair(level[k - 1][2 * i - 1], level[k - 1][2 * i])
  <2> DEFINE size == 8
  <2>1. size \in Nat /\ Len(leaves) = size
    OBVIOUS
  <2> HIDE DEF size
  <2>2. /\ merkle_levels(leaves)[0] = leaves
        /\ \A k \in 1 .. 5 : \A i \in 1 .. size \div 2 ^ k :
             merkle_levels(leaves)[k][i] =
                 sha256_pair(merkle_levels(leaves)[k - 1][2 * i - 1], merkle_levels(leaves)[k - 1][2 * i])
    BY <2>1, LevelsDef
  <2> QED BY <2>2 DEF size
<1>3. merkle_root_vec(leaves) = level[3][1]
  <2> DEFINE fits_in(k) == 2 ^ k = 8
             top == CHOOSE k \in 0 .. 5 : fits_in(k)
  <2>1. \A k \in 0 .. 5 : fits_in(k) <=> k = 3
    <3>1. 0 .. 5 = {0, 1, 2, 3, 4, 5}
      OBVIOUS
    <3>2. ~ fits_in(0) /\ ~ fits_in(1) /\ ~ fits_in(2) /\ fits_in(3) /\ ~ fits_in(4) /\ ~ fits_in(5)
      OBVIOUS
    <3> QED BY <3>1, <3>2
  <2>2. merkle_root_vec(leaves) = level[top][1]
    BY DEF merkle_root_vec
  <2>3. top \in 0 .. 5 /\ fits_in(top)
    <3> HIDE DEF fits_in
    <3>1. 3 \in 0 .. 5
      OBVIOUS
    <3>2. \E k \in 0 .. 5 : fits_in(k)
      BY <2>1, <3>1
    <3> QED BY <3>2
  <2> HIDE DEF top, fits_in
  <2> QED BY <2>1, <2>2, <2>3
<1> HIDE DEF node, level
<1>4. /\ \A i \in 1 .. 4 : level[1][i] = sha256_pair(level[0][2 * i - 1], level[0][2 * i])
      /\ \A i \in 1 .. 2 : level[2][i] = sha256_pair(level[1][2 * i - 1], level[1][2 * i])
      /\ level[3][1] = sha256_pair(level[2][1], level[2][2])
  BY <1>2
<1>5. \A i \in 1 .. 8 : level[0][i] = node[7 + i]
  BY <1>1, <1>2
<1>6. \A i \in 1 .. 4 : level[1][i] = node[3 + i]
  BY <1>1, <1>4, <1>5
<1>7. \A i \in 1 .. 2 : level[2][i] = node[1 + i]
  BY <1>1, <1>4, <1>6
<1>8. level[3][1] = node[1]
  BY <1>1, <1>4, <1>7
<1>9. merkle_root_8(leaves) = node[1]
  <2>1. /\ node[1] = sha256_pair(node[2], node[3])
        /\ node[2] = sha256_pair(node[4], node[5]) /\ node[3] = sha256_pair(node[6], node[7])
        /\ node[4] = sha256_pair(node[8], node[9]) /\ node[5] = sha256_pair(node[10], node[11])
        /\ node[6] = sha256_pair(node[12], node[13]) /\ node[7] = sha256_pair(node[14], node[15])
        /\ node[8] = leaves[1] /\ node[9] = leaves[2] /\ node[10] = leaves[3] /\ node[11] = leaves[4]
        /\ node[12] = leaves[5] /\ node[13] = leaves[6] /\ node[14] = leaves[7] /\ node[15] = leaves[8]
    BY <1>1
  <2> QED BY <2>1 DEF merkle_root_8
<1> QED BY <1>3, <1>8, <1>9 DEF node

\* The branch of leaf 13 of thirty-two (leaf index 12) leads to their root,
\* and from the root one can read the leaf.
LEMMA Levels32 ==
    ASSUME NEW leaves, Len(leaves) = 32
    PROVE  LET level == merkle_levels(leaves) IN
           /\ level[0] = leaves
           /\ \A i \in 1 .. 16 : level[1][i] = sha256_pair(level[0][2 * i - 1], level[0][2 * i])
           /\ \A i \in 1 .. 8 : level[2][i] = sha256_pair(level[1][2 * i - 1], level[1][2 * i])
           /\ \A i \in 1 .. 4 : level[3][i] = sha256_pair(level[2][2 * i - 1], level[2][2 * i])
           /\ \A i \in 1 .. 2 : level[4][i] = sha256_pair(level[3][2 * i - 1], level[3][2 * i])
           /\ level[5][1] = sha256_pair(level[4][1], level[4][2])
           /\ merkle_root_vec(leaves) = level[5][1]
<1> DEFINE level == merkle_levels(leaves)
<1>2. /\ level[0] = leaves
      /\ \A k \in 1 .. 5 : \A i \in 1 .. 32 \div 2 ^ k : level[k][i] = sha256_pair(level[k - 1][2 * i - 1], level[k - 1][2 * i])
  <2> DEFINE size == 32
  <2>1. size \in Nat /\ Len(leaves) = size
    OBVIOUS
  <2> HIDE DEF size
  <2>2. /\ merkle_levels(leaves)[0] = leaves
        /\ \A k \in 1 .. 5 : \A i \in 1 .. size \div 2 ^ k :
             merkle_levels(leaves)[k][i] =
                 sha256_pair(merkle_levels(leaves)[k - 1][2 * i - 1], merkle_levels(leaves)[k - 1][2 * i])
    BY <2>1, LevelsDef
  <2> QED BY <2>2 DEF size
<1>3. merkle_root_vec(leaves) = level[5][1]
  <2> DEFINE fits_in(k) == 2 ^ k = 32
             top == CHOOSE k \in 0 .. 5 : fits_in(k)
  <2>1. \A k \in 0 .. 5 : fits_in(k) <=> k = 5
    <3>1. 0 .. 5 = {0, 1, 2, 3, 4, 5}
      OBVIOUS
    <3>2. ~ fits_in(0) /\ ~ fits_in(1) /\ ~ fits_in(2) /\ ~ fits_in(3) /\ ~ fits_in(4) /\ fits_in(5)
      OBVIOUS
    <3> QED BY <3>1, <3>2
  <2>2. merkle_root_vec(leaves) = level[top][1]
    BY DEF merkle_root_vec
  <2>3. top \in 0 .. 5 /\ fits_in(top)
    <3> HIDE DEF fits_in
    <3>1. 5 \in 0 .. 5
      OBVIOUS
    <3>2. \E k \in 0 .. 5 : fits_in(k)
      BY <2>1, <3>1
    <3> QED BY <3>2
  <2> HIDE DEF top, fits_in
  <2> QED BY <2>1, <2>2, <2>3
<1> HIDE DEF level
<1>4. /\ \A i \in 1 .. 16 : level[1][i] = sha256_pair(level[0][2 * i - 1], level[0][2 * i])
      /\ \A i \in 1 .. 8 : level[2][i] = sha256_pair(level[1][2 * i - 1], level[1][2 * i])
      /\ \A i \in 1 .. 4 : level[3][i] = sha256_pair(level[2][2 * i - 1], level[2][2 * i])
      /\ \A i \in 1 .. 2 : level[4][i] = sha256_pair(level[3][2 * i - 1], level[3][2 * i])
      /\ level[5][1] = sha256_pair(level[4][1], level[4][2])
  BY <1>2
<1> QED BY <1>2, <1>3, <1>4 DEF level

LEMMA RootOf32 ==
    ASSUME NEW leaves, NEW others, Len(leaves) = 32, \A i \in 1 .. 32 : others[i] = leaves[i]
    PROVE  merkle_root_vec(leaves) = Tree(5, others)[1]
<1> DEFINE node == Tree(5, others)
           level == merkle_levels(leaves)
<1>1. /\ \A g \in 1 .. 31 : node[g] = sha256_pair(node[2 * g], node[2 * g + 1])
      /\ \A i \in 1 .. 32 : node[32 + i - 1] = others[i]
  <2> DEFINE depth == 5
             size == 32
  <2>1. size \in Nat \ {0} /\ 2 ^ depth = size /\ 2 ^ (depth + 1) = 2 * size
    OBVIOUS
  <2>2. size - 1 = 31
    OBVIOUS
  <2> HIDE DEF size, depth
  <2>3. /\ \A g \in 1 .. size - 1 :
             Tree(depth, others)[g] = sha256_pair(Tree(depth, others)[2 * g], Tree(depth, others)[2 * g + 1])
        /\ \A i \in 1 .. size : Tree(depth, others)[size + i - 1] = others[i]
    BY <2>1, TreeNodes
  <2> QED BY <2>2, <2>3 DEF size, depth
<1>2. /\ level[0] = leaves
      /\ \A i \in 1 .. 16 : level[1][i] = sha256_pair(level[0][2 * i - 1], level[0][2 * i])
      /\ \A i \in 1 .. 8 : level[2][i] = sha256_pair(level[1][2 * i - 1], level[1][2 * i])
      /\ \A i \in 1 .. 4 : level[3][i] = sha256_pair(level[2][2 * i - 1], level[2][2 * i])
      /\ \A i \in 1 .. 2 : level[4][i] = sha256_pair(level[3][2 * i - 1], level[3][2 * i])
      /\ level[5][1] = sha256_pair(level[4][1], level[4][2])
      /\ merkle_root_vec(leaves) = level[5][1]
  BY Levels32
<1> HIDE DEF node, level
<1>3. \A i \in 1 .. 32 : level[0][i] = node[31 + i]
  BY <1>1, <1>2
<1>4. \A i \in 1 .. 16 : level[1][i] = node[15 + i]
  BY <1>1, <1>2, <1>3
<1>5. \A i \in 1 .. 8 : level[2][i] = node[7 + i]
  BY <1>1, <1>2, <1>4
<1>6. \A i \in 1 .. 4 : level[3][i] = node[3 + i]
  BY <1>1, <1>2, <1>5
<1>7. \A i \in 1 .. 2 : level[4][i] = node[1 + i]
  BY <1>1, <1>2, <1>6
<1>8. level[5][1] = node[1]
  BY <1>1, <1>2, <1>7
<1> QED BY <1>2, <1>8 DEF node

LEMMA HashBranchVerifies ==
    ASSUME NEW leaves, Len(leaves) = 32
    PROVE  verify_merkle_branch(leaves[13], merkle_branch_32(leaves, 12), 5, 12, merkle_root_vec(leaves))
<1> DEFINE level == merkle_levels(leaves)
           branch == merkle_branch_32(leaves, 12)
           root == merkle_root_vec(leaves)
<1>1. /\ level[0] = leaves
      /\ level[1][7] = sha256_pair(level[0][13], level[0][14])
      /\ level[2][4] = sha256_pair(level[1][7], level[1][8])
      /\ level[3][2] = sha256_pair(level[2][3], level[2][4])
      /\ level[4][1] = sha256_pair(level[3][1], level[3][2])
      /\ root = sha256_pair(level[4][1], level[4][2])
  <2> HIDE DEF level, root
  <2>1. /\ level[0] = leaves
        /\ \A i \in 1 .. 16 : level[1][i] = sha256_pair(level[0][2 * i - 1], level[0][2 * i])
        /\ \A i \in 1 .. 8 : level[2][i] = sha256_pair(level[1][2 * i - 1], level[1][2 * i])
        /\ \A i \in 1 .. 4 : level[3][i] = sha256_pair(level[2][2 * i - 1], level[2][2 * i])
        /\ \A i \in 1 .. 2 : level[4][i] = sha256_pair(level[3][2 * i - 1], level[3][2 * i])
        /\ root = sha256_pair(level[4][1], level[4][2])
    BY Levels32 DEF level, root
  <2> QED BY <2>1
<1>2. branch = [d \in 1 .. 5 |-> level[d - 1][1 + sibling(12 \div 2 ^ (d - 1))]]
  BY DEF merkle_branch_32
<1> HIDE DEF level, branch, root
<1>3. Len(branch) = 5
  BY <1>2
<1>4. /\ branch[1] = level[0][14] /\ branch[2] = level[1][8] /\ branch[3] = level[2][3]
      /\ branch[4] = level[3][1] /\ branch[5] = level[4][2]
  BY <1>2 DEF sibling
<1>5. ASSUME NEW v, Path(v, leaves[13], branch, 12, 5) PROVE v[5] = root
  <2>1. /\ v[0] = leaves[13] /\ v[1] = sha256_pair(v[0], branch[1]) /\ v[2] = sha256_pair(v[1], branch[2])
        /\ v[3] = sha256_pair(branch[3], v[2]) /\ v[4] = sha256_pair(branch[4], v[3])
        /\ v[5] = sha256_pair(v[4], branch[5])
    BY <1>5 DEF Path
  <2> QED BY <1>1, <1>4, <2>1
<1>6. 5 \in Nat
  OBVIOUS
<1>7. verify_merkle_branch(leaves[13], branch, 5, 12, root)
  BY <1>3, <1>5, <1>6, BranchReaches
<1> QED BY <1>7 DEF branch, root

LEMMA RootHasLeaf ==
    ASSUME NEW a, NEW b, Len(a) = 32, Len(b) = 32, merkle_root_vec(a) = merkle_root_vec(b)
    PROVE  a[13] = b[13]
<1> DEFINE x == merkle_levels(a)
           y == merkle_levels(b)
<1>1. ASSUME NEW leaves, Len(leaves) = 32
      PROVE  LET level == merkle_levels(leaves) IN
             /\ level[1][7] = sha256_pair(leaves[13], leaves[14])
             /\ level[2][4] = sha256_pair(level[1][7], level[1][8])
             /\ level[3][2] = sha256_pair(level[2][3], level[2][4])
             /\ level[4][1] = sha256_pair(level[3][1], level[3][2])
             /\ merkle_root_vec(leaves) = sha256_pair(level[4][1], level[4][2])
  <2> DEFINE level == merkle_levels(leaves)
             root == merkle_root_vec(leaves)
  <2> HIDE DEF level, root
  <2>1. /\ level[0] = leaves
        /\ \A i \in 1 .. 16 : level[1][i] = sha256_pair(level[0][2 * i - 1], level[0][2 * i])
        /\ \A i \in 1 .. 8 : level[2][i] = sha256_pair(level[1][2 * i - 1], level[1][2 * i])
        /\ \A i \in 1 .. 4 : level[3][i] = sha256_pair(level[2][2 * i - 1], level[2][2 * i])
        /\ \A i \in 1 .. 2 : level[4][i] = sha256_pair(level[3][2 * i - 1], level[3][2 * i])
        /\ root = sha256_pair(level[4][1], level[4][2])
    BY <1>1, Levels32 DEF level, root
  <2>2. /\ level[1][7] = sha256_pair(leaves[13], leaves[14])
        /\ level[2][4] = sha256_pair(level[1][7], level[1][8])
        /\ level[3][2] = sha256_pair(level[2][3], level[2][4])
        /\ level[4][1] = sha256_pair(level[3][1], level[3][2])
        /\ root = sha256_pair(level[4][1], level[4][2])
    BY <2>1
  <2> QED BY <2>2 DEF level, root
<1>2. /\ x[1][7] = sha256_pair(a[13], a[14]) /\ x[2][4] = sha256_pair(x[1][7], x[1][8])
      /\ x[3][2] = sha256_pair(x[2][3], x[2][4]) /\ x[4][1] = sha256_pair(x[3][1], x[3][2])
      /\ merkle_root_vec(a) = sha256_pair(x[4][1], x[4][2])
  BY <1>1
<1>3. /\ y[1][7] = sha256_pair(b[13], b[14]) /\ y[2][4] = sha256_pair(y[1][7], y[1][8])
      /\ y[3][2] = sha256_pair(y[2][3], y[2][4]) /\ y[4][1] = sha256_pair(y[3][1], y[3][2])
      /\ merkle_root_vec(b) = sha256_pair(y[4][1], y[4][2])
  BY <1>1
<1> HIDE DEF x, y
<1>4. x[4][1] = y[4][1]
  <2>1. sha256_pair(x[4][1], x[4][2]) = sha256_pair(y[4][1], y[4][2])
    BY <1>2, <1>3
  <2> QED BY <2>1, PairInjective
<1>5. x[3][2] = y[3][2]
  <2>1. sha256_pair(x[3][1], x[3][2]) = sha256_pair(y[3][1], y[3][2])
    BY <1>2, <1>3, <1>4
  <2> QED BY <2>1, PairInjective
<1>6. x[2][4] = y[2][4]
  <2>1. sha256_pair(x[2][3], x[2][4]) = sha256_pair(y[2][3], y[2][4])
    BY <1>2, <1>3, <1>5
  <2> QED BY <2>1, PairInjective
<1>7. x[1][7] = y[1][7]
  <2>1. sha256_pair(x[1][7], x[1][8]) = sha256_pair(y[1][7], y[1][8])
    BY <1>2, <1>3, <1>6
  <2> QED BY <2>1, PairInjective
<1>8. sha256_pair(a[13], a[14]) = sha256_pair(b[13], b[14])
  BY <1>2, <1>3, <1>7
<1> QED BY <1>8, PairInjective
-----------------------------------------------------------------------------
\* The leaves the host makes of a payload are those of the specification.
LEMMA PayloadLeaves ==
    ASSUME NEW payload, Len(payload.logs_bloom.val) = 8
    PROVE  LET leaves == ssz_execution_payload_leaves(payload) IN
           /\ Len(leaves) = 32
           /\ \A i \in 1 .. 32 : leaves[i] = PayloadLeaf(payload, i)
           /\ leaves[13] = payload.block_hash.val
<1> DEFINE t == <<payload.parent_hash.val,
                   payload.fee_recipient.val,
                   payload.state_root.val,
                   payload.receipts_root.val,
                   Tree(3, payload.logs_bloom.val)[1],
                   payload.prev_randao.val,
                   uint64_leaf(payload.block_number),
                   uint64_leaf(payload.gas_limit),
                   uint64_leaf(payload.gas_used),
                   uint64_leaf(payload.timestamp),
                   sha256_pair(payload.extra_data.val, uint64_leaf(payload.extra_data.len)),
                   uint64_leaf(payload.base_fee_per_gas),
                   payload.block_hash.val,
                   payload.transactions_root.val,
                   payload.withdrawals_root.val,
                   uint64_leaf(payload.blob_gas_used),
                   uint64_leaf(payload.excess_blob_gas)>>
           z == [i \in 1 .. 15 |-> ZeroChunk]
           leaves == ssz_execution_payload_leaves(payload)
<1>1. leaves = t \o z
  <2>1. ssz_bytes_vector_root(payload.logs_bloom.val) = Tree(3, payload.logs_bloom.val)[1]
    BY RootOf8 DEF ssz_bytes_vector_root
  <2> QED BY <2>1, Zenon DEF ssz_execution_payload_leaves, parse_bytes32, parse_uint256_le, ssz_byte_list_root
<1>2. /\ Len(t) = 17 /\ Len(z) = 15
      /\ \A i \in 1 .. 15 : z[i] = ZeroChunk
  OBVIOUS
<1>3. /\ t[13] = payload.block_hash.val
      /\ \A i \in 1 .. 17 : t[i] = PayloadLeaf(payload, i)
  <2>1. t[1] = PayloadLeaf(payload, 1)
    <3>1. 1 <= Len(PayloadFields) /\ PayloadFields[1] = "parent_hash"
      BY DEF PayloadFields
    <3> QED BY <3>1 DEF PayloadLeaf, NumberFields
  <2>2. t[2] = PayloadLeaf(payload, 2)
    <3>1. 2 <= Len(PayloadFields) /\ PayloadFields[2] = "fee_recipient"
      BY DEF PayloadFields
    <3> QED BY <3>1 DEF PayloadLeaf, NumberFields
  <2>3. t[3] = PayloadLeaf(payload, 3)
    <3>1. 3 <= Len(PayloadFields) /\ PayloadFields[3] = "state_root"
      BY DEF PayloadFields
    <3> QED BY <3>1 DEF PayloadLeaf, NumberFields
  <2>4. t[4] = PayloadLeaf(payload, 4)
    <3>1. 4 <= Len(PayloadFields) /\ PayloadFields[4] = "receipts_root"
      BY DEF PayloadFields
    <3> QED BY <3>1 DEF PayloadLeaf, NumberFields
  <2>5. t[5] = PayloadLeaf(payload, 5)
    <3>1. 5 <= Len(PayloadFields) /\ PayloadFields[5] = "logs_bloom"
      BY DEF PayloadFields
    <3> QED BY <3>1 DEF PayloadLeaf, NumberFields
  <2>6. t[6] = PayloadLeaf(payload, 6)
    <3>1. 6 <= Len(PayloadFields) /\ PayloadFields[6] = "prev_randao"
      BY DEF PayloadFields
    <3> QED BY <3>1 DEF PayloadLeaf, NumberFields
  <2>7. t[7] = PayloadLeaf(payload, 7)
    <3>1. 7 <= Len(PayloadFields) /\ PayloadFields[7] = "block_number"
      BY DEF PayloadFields
    <3> QED BY <3>1 DEF PayloadLeaf, NumberFields
  <2>8. t[8] = PayloadLeaf(payload, 8)
    <3>1. 8 <= Len(PayloadFields) /\ PayloadFields[8] = "gas_limit"
      BY DEF PayloadFields
    <3> QED BY <3>1 DEF PayloadLeaf, NumberFields
  <2>9. t[9] = PayloadLeaf(payload, 9)
    <3>1. 9 <= Len(PayloadFields) /\ PayloadFields[9] = "gas_used"
      BY DEF PayloadFields
    <3> QED BY <3>1 DEF PayloadLeaf, NumberFields
  <2>10. t[10] = PayloadLeaf(payload, 10)
    <3>1. 10 <= Len(PayloadFields) /\ PayloadFields[10] = "timestamp"
      BY DEF PayloadFields
    <3> QED BY <3>1 DEF PayloadLeaf, NumberFields
  <2>11. t[11] = PayloadLeaf(payload, 11)
    <3>1. 11 <= Len(PayloadFields) /\ PayloadFields[11] = "extra_data"
      BY DEF PayloadFields
    <3> QED BY <3>1 DEF PayloadLeaf, NumberFields
  <2>12. t[12] = PayloadLeaf(payload, 12)
    <3>1. 12 <= Len(PayloadFields) /\ PayloadFields[12] = "base_fee_per_gas"
      BY DEF PayloadFields
    <3> QED BY <3>1 DEF PayloadLeaf, NumberFields
  <2>13. t[13] = PayloadLeaf(payload, 13)
    <3>1. 13 <= Len(PayloadFields) /\ PayloadFields[13] = "block_hash"
      BY DEF PayloadFields
    <3> QED BY <3>1 DEF PayloadLeaf, NumberFields
  <2>14. t[14] = PayloadLeaf(payload, 14)
    <3>1. 14 <= Len(PayloadFields) /\ PayloadFields[14] = "transactions_root"
      BY DEF PayloadFields
    <3> QED BY <3>1 DEF PayloadLeaf, NumberFields
  <2>15. t[15] = PayloadLeaf(payload, 15)
    <3>1. 15 <= Len(PayloadFields) /\ PayloadFields[15] = "withdrawals_root"
      BY DEF PayloadFields
    <3> QED BY <3>1 DEF PayloadLeaf, NumberFields
  <2>16. t[16] = PayloadLeaf(payload, 16)
    <3>1. 16 <= Len(PayloadFields) /\ PayloadFields[16] = "blob_gas_used"
      BY DEF PayloadFields
    <3> QED BY <3>1 DEF PayloadLeaf, NumberFields
  <2>17. t[17] = PayloadLeaf(payload, 17)
    <3>1. 17 <= Len(PayloadFields) /\ PayloadFields[17] = "excess_blob_gas"
      BY DEF PayloadFields
    <3> QED BY <3>1 DEF PayloadLeaf, NumberFields
  <2> HIDE DEF t
  <2>18. 1 .. 17 = {1, 2, 3, 4, 5, 6, 7, 8, 9, 10, 11, 12, 13, 14, 15, 16, 17}
    OBVIOUS
  <2>19. t[13] = payload.block_hash.val
    BY DEF t
  <2> QED BY <2>1, <2>2, <2>3, <2>4, <2>5, <2>6, <2>7, <2>8, <2>9, <2>10, <2>11, <2>12, <2>13, <2>14,
             <2>15, <2>16, <2>17, <2>18, <2>19
<1>4. \A i \in 18 .. 32 : PayloadLeaf(payload, i) = ZeroChunk
  <2>1. Len(PayloadFields) = 17
    BY DEF PayloadFields
  <2> QED BY <2>1 DEF PayloadLeaf, NumberFields
<1> DEFINE S == {t[i] : i \in 1 .. 17} \cup {ZeroChunk}
<1>5. t \in Seq(S) /\ z \in Seq(S)
  <2>1. z \in Seq(S)
    OBVIOUS
  <2>2. t = [i \in 1 .. 17 |-> t[i]]
    OBVIOUS
  <2> HIDE DEF t
  <2>3. t \in Seq(S)
    BY <2>2
  <2> QED BY <2>1, <2>3
<1> HIDE DEF t, z, leaves, S
<1>6. /\ Len(leaves) = 32 /\ \A i \in 1 .. 17 : leaves[i] = t[i]
      /\ \A i \in 18 .. 32 : leaves[i] = z[i - 17]
  <2>1. Len(t) = 17 /\ Len(z) = 15
    BY <1>2
  <2>2. /\ Len(t \o z) = Len(t) + Len(z)
        /\ \A i \in 1 .. Len(t) + Len(z) : (t \o z)[i] = IF i <= Len(t) THEN t[i] ELSE z[i - Len(t)]
    BY <1>5, ConcatProperties
  <2>3. Len(leaves) = 32 /\ \A i \in 1 .. 32 : leaves[i] = IF i <= 17 THEN t[i] ELSE z[i - 17]
    <3> DEFINE u == t \o z
    <3>1. Len(u) = Len(t) + Len(z) /\ \A i \in 1 .. Len(t) + Len(z) : u[i] = IF i <= Len(t) THEN t[i] ELSE z[i - Len(t)]
      BY <2>2
    <3>2. leaves = u
      BY <1>1
    <3> HIDE DEF u
    <3> QED BY <2>1, <3>1, <3>2
  <2> QED BY <2>3
<1>7. \A i \in 18 .. 32 : i - 17 \in 1 .. 15
  OBVIOUS
<1>8. \A i \in 1 .. 32 : i \in 1 .. 17 \/ i \in 18 .. 32
  OBVIOUS
<1>9. 13 \in 1 .. 17
  OBVIOUS
<1> QED BY <1>2, <1>3, <1>4, <1>6, <1>7, <1>8, <1>9 DEF leaves

LEMMA PayloadFacts ==
    ASSUME NEW slot
    PROVE  LET payload == PayloadJson(slot)
               leaves  == ssz_execution_payload_leaves(payload) IN
           /\ ssz_execution_payload_root(payload) = Tree(5, [i \in 1 .. 32 |-> PayloadLeaf(payload, i)])[1]
           /\ parse_bytes32(payload.block_hash) = block_hash(slot)
           /\ verify_merkle_branch(block_hash(slot), merkle_branch_32(leaves, 12), 5, 12,
                                   ssz_execution_payload_root(payload))
<1> DEFINE payload == PayloadJson(slot)
           leaves == ssz_execution_payload_leaves(payload)
           others == [i \in 1 .. 32 |-> PayloadLeaf(payload, i)]
<1>1. Len(payload.logs_bloom.val) = 8 /\ payload.block_hash.val = block_hash(slot)
  BY DEF PayloadJson, Hex
<1> HIDE DEF payload
<1>2. /\ Len(leaves) = 32 /\ leaves[13] = block_hash(slot)
      /\ \A i \in 1 .. 32 : leaves[i] = PayloadLeaf(payload, i)
  BY <1>1, PayloadLeaves
<1>3. \A i \in 1 .. 32 : others[i] = leaves[i]
  BY <1>2
<1>4. ssz_execution_payload_root(payload) = merkle_root_vec(leaves)
  BY DEF ssz_execution_payload_root
<1> HIDE DEF leaves, others
<1>5. merkle_root_vec(leaves) = Tree(5, others)[1]
  BY <1>2, <1>3, RootOf32
<1>6. verify_merkle_branch(leaves[13], merkle_branch_32(leaves, 12), 5, 12, merkle_root_vec(leaves))
  BY <1>2, HashBranchVerifies
<1>7. parse_bytes32(payload.block_hash) = block_hash(slot)
  BY <1>1 DEF parse_bytes32
<1>8. ssz_execution_payload_root(payload) = Tree(5, others)[1]
  BY <1>4, <1>5
<1>9. verify_merkle_branch(block_hash(slot), merkle_branch_32(leaves, 12), 5, 12, ssz_execution_payload_root(payload))
  BY <1>2, <1>4, <1>6
<1> QED BY <1>7, <1>8, <1>9 DEF payload, leaves, others

\* Different slots have different payloads.
LEMMA PayloadRootInjective ==
    ASSUME NEW s, NEW t,
           ssz_execution_payload_root(PayloadJson(s)) = ssz_execution_payload_root(PayloadJson(t))
    PROVE  s = t
<1> DEFINE a == ssz_execution_payload_leaves(PayloadJson(s))
           b == ssz_execution_payload_leaves(PayloadJson(t))
<1>1. ASSUME NEW slot
      PROVE  LET leaves == ssz_execution_payload_leaves(PayloadJson(slot))
             IN  Len(leaves) = 32 /\ leaves[13] = block_hash(slot)
  <2> DEFINE payload == PayloadJson(slot)
  <2>1. Len(payload.logs_bloom.val) = 8 /\ payload.block_hash.val = block_hash(slot)
    BY DEF PayloadJson, Hex
  <2> HIDE DEF payload
  <2>2. Len(ssz_execution_payload_leaves(payload)) = 32 /\ ssz_execution_payload_leaves(payload)[13] = block_hash(slot)
    BY <2>1, PayloadLeaves
  <2> QED BY <2>2 DEF payload
<1>2. Len(a) = 32 /\ a[13] = block_hash(s) /\ Len(b) = 32 /\ b[13] = block_hash(t)
  BY <1>1
<1>3. merkle_root_vec(a) = merkle_root_vec(b)
  BY DEF ssz_execution_payload_root
<1> HIDE DEF a, b
<1>4. a[13] = b[13]
  BY <1>2, <1>3, RootHasLeaf
<1>5. Opaque("block_hash", s, 0) = Opaque("block_hash", t, 0)
  BY <1>2, <1>4 DEF block_hash
<1> QED BY <1>5, OpaqueInjective
-----------------------------------------------------------------------------
\* A block of the chain: its header hashes to its root, its branches lead
\* from the finalized root and from the payload to the roots in the header.
BlockOK(b, slot, finalized_root) ==
    LET header == parse_beacon_header(b.header) IN
    /\ b.payload = PayloadJson(slot)
    /\ b.payload_root = ssz_execution_payload_root(PayloadJson(slot))
    /\ header.slot = slot
    /\ hash_tree_root_beacon_header(header) = b.root
    /\ verify_merkle_branch(finalized_root, parse_branch(b.finality_branch), 6, 41, header.state_root)
    /\ verify_merkle_branch(b.payload_root, parse_branch(b.execution_branch), 4, 9, header.body_root)
    /\ \E right : header.body_root = sha256_pair(Opaque("body", slot, 2), right)

LEMMA BlockFacts ==
    ASSUME NEW slot, NEW finalized_root
    PROVE  BlockOK(Block(slot, finalized_root), slot, finalized_root)
<1> DEFINE b == Block(slot, finalized_root)
           payload == PayloadJson(slot)
           exec == Tree(5, [i \in 1 .. 32 |-> PayloadLeaf(payload, i)])
           body == TreeAround(25, 4, exec[1], "body", slot)
           state == TreeAround(105, 6, finalized_root, "state", slot)
           parent == Opaque("parent", slot, 0)
           leaves == <<uint64_leaf(slot), uint64_leaf(slot + 7), parent, state[1], body[1],
                       ZeroChunk, ZeroChunk, ZeroChunk>>
           header == parse_beacon_header(b.header)
<1> HIDE DEF payload, exec, body, state, parent, leaves
<1>1. /\ b.payload = payload /\ b.payload_root = exec[1] /\ b.root = Tree(3, leaves)[1]
      /\ b.header = [slot |-> slot, proposer_index |-> slot + 7, parent_root |-> Hex(32, parent),
                     state_root |-> Hex(32, state[1]), body_root |-> Hex(32, body[1])]
      /\ b.execution_branch = HexList(Proof(body, 25, 4))
      /\ b.finality_branch = HexList(Proof(state, 105, 6))
  BY DEF Block, payload, exec, body, state, parent, leaves
<1> HIDE DEF b
<1>2. /\ header.slot = slot /\ header.proposer_index = slot + 7 /\ header.parent_root = parent
      /\ header.state_root = state[1] /\ header.body_root = body[1]
  BY <1>1 DEF parse_beacon_header, parse_bytes32, Hex
<1> HIDE DEF header
<1>3. exec[1] = ssz_execution_payload_root(payload)
  BY PayloadFacts, Zenon DEF exec, payload
<1>4. hash_tree_root_beacon_header(header) = b.root
  <2>1. hash_tree_root_beacon_header(header) = merkle_root_8(leaves)
    BY <1>2 DEF hash_tree_root_beacon_header, leaves
  <2>2. Len(leaves) = 8
    BY DEF leaves
  <2>3. merkle_root_8(leaves) = Tree(3, leaves)[1]
    BY <2>2, RootOf8
  <2> QED BY <1>1, <2>1, <2>3
<1>5. verify_merkle_branch(finalized_root, parse_branch(b.finality_branch), 6, 41, header.state_root)
  BY <1>1, <1>2, FinalityBranchVerifies DEF state
<1>6. verify_merkle_branch(b.payload_root, parse_branch(b.execution_branch), 4, 9, header.body_root)
  BY <1>1, <1>2, BodyBranchVerifies DEF body
<1>7. header.body_root = sha256_pair(Opaque("body", slot, 2), body[3])
  <2>1. /\ \A g \in {12, 6, 3, 1} : body[g] = sha256_pair(body[2 * g], body[2 * g + 1])
        /\ body[2] = Opaque("body", slot, 2)
    BY BodyNodes DEF body
  <2> QED BY <1>2, <2>1
<1> QED BY <1>1, <1>2, <1>3, <1>4, <1>5, <1>6, <1>7 DEF BlockOK, b, header, payload
-----------------------------------------------------------------------------
\* The invariant: every block of the chain is as BlockOK says, what a relayer
\* holds is of some update of that chain, and the head is one block.
finalized_root_of(slot) == IF slot = 0 THEN ZeroChunk ELSE block(finalized_of(slot)).root

ChainInv ==
    /\ \E S : chain \in Seq(S)
    /\ Len(chain) \in 1 .. MaxSlot + 1
    /\ \A slot \in 0 .. head_slot : BlockOK(block(slot), slot, finalized_root_of(slot))

RelayerInv(r) ==
    /\ known[r].slot \in Nat
    /\ rpc[r] \in {"get_genesis", "submit_helios_update"} =>
          /\ update[r].slot \in 1 .. head_slot /\ finalized_of(update[r].slot) > 0
          /\ update[r].flaw \in Flaws
    /\ rpc[r] = "submit_helios_update" =>
          LET answer == Answer(update[r].slot, update[r].flaw) IN
          /\ build_helios_witness_ok(answer, GenesisJson)
          /\ \E key \in {CommitteeKey, PlaceholderKey} :
                witness[r] = build_helios_witness(answer, GenesisJson, key, known[r].root)

RelayersInv ==
    /\ DOMAIN rpc = Relayers /\ DOMAIN known = Relayers /\ DOMAIN update = Relayers /\ DOMAIN witness = Relayers
    /\ \A r \in Relayers : RelayerInv(r)

HeadInv ==
    /\ trusted_slot \in Nat /\ finalized_eth_blocks \in [EthBlocks -> Nat]
    /\ HeadIsOneBlock

LightInv == ChainInv /\ RelayersInv /\ HeadInv

LEMMA FinalizedSlots ==
    ASSUME NEW slot \in Nat
    PROVE  /\ finalized_of(slot) \in 0 .. slot
           /\ slot > 0 => finalized_of(slot) < slot
           /\ \A later \in Nat : slot <= later => finalized_of(slot) <= finalized_of(later)
BY LightClientAssumption DEF finalized_of

LEMMA LightInitInv == LightInit => LightInv
<1> SUFFICES ASSUME LightInit PROVE LightInv
  OBVIOUS
<1>1. ChainInv
  <2> DEFINE genesis == Block(0, ZeroChunk)
  <2>1. chain = <<genesis>>
    BY DEF LightInit
  <2>2. BlockOK(genesis, 0, ZeroChunk)
    BY BlockFacts
  <2> HIDE DEF genesis
  <2>3. Len(chain) = 1 /\ chain[1] = genesis /\ chain \in Seq({genesis})
    BY <2>1
  <2>4. Len(chain) \in 1 .. MaxSlot + 1
    BY <2>3, LightClientAssumption
  <2>5. \A slot \in 0 .. head_slot : slot = 0
    BY <2>3 DEF head_slot
  <2>6. block(0) = genesis /\ finalized_root_of(0) = ZeroChunk
    BY <2>3 DEF block, finalized_root_of
  <2> QED BY <2>2, <2>3, <2>4, <2>5, <2>6 DEF ChainInv
<1>2. RelayersInv
  BY DEF LightInit, RelayersInv, RelayerInv, NoHead
<1>3. HeadInv
  <2>1. trusted_slot = 0 /\ finalized_eth_blocks = [b \in EthBlocks |-> 0] /\ Len(chain) = 1
    BY LightClientAssumption DEF LightInit, BridgeInit
  <2>2. trusted_slot <= finalized_of(head_slot)
    BY <2>1, LightClientAssumption DEF head_slot, finalized_of
  <2> QED BY <2>1, <2>2 DEF HeadInv, HeadIsOneBlock
<1> QED BY <1>1, <1>2, <1>3 DEF LightInv
-----------------------------------------------------------------------------
\* Along a branch, a leaf leads to one root.
LEMMA BranchRootUnique ==
    ASSUME NEW leaf, NEW branch, NEW depth, NEW leaf_index, NEW a, NEW b,
           verify_merkle_branch(leaf, branch, depth, leaf_index, a),
           verify_merkle_branch(leaf, branch, depth, leaf_index, b)
    PROVE  a = b
BY Zenon DEF verify_merkle_branch

\* What the chain says of a slot stays as it is.
LEMMA ChainGrows ==
    ASSUME ChainInv, NEW new, chain' = Append(chain, new)
    PROVE  /\ Len(chain') = Len(chain) + 1 /\ head_slot' = head_slot + 1 /\ head_slot \in Nat
           /\ \E S : chain' \in Seq(S)
           /\ chain'[Len(chain) + 1] = new
           /\ \A slot \in 0 .. head_slot : block(slot)' = block(slot)
<1>1. PICK S : chain \in Seq(S)
  BY DEF ChainInv
<1> DEFINE T == S \cup {new}
<1>2. chain \in Seq(T) /\ new \in T
  BY <1>1
<1> HIDE DEF T
<1> DEFINE longer == Append(chain, new)
<1>3. /\ longer \in Seq(T) /\ Len(longer) = Len(chain) + 1
      /\ longer[Len(chain) + 1] = new
      /\ \A i \in 1 .. Len(chain) : longer[i] = chain[i]
  BY <1>2, AppendProperties
<1>4. chain' = longer
  OBVIOUS
<1> HIDE DEF longer
<1>5. Len(chain) \in Nat /\ Len(chain) >= 1
  BY <1>1 DEF ChainInv
<1>6. head_slot' = head_slot + 1 /\ head_slot \in Nat
  BY <1>3, <1>4, <1>5 DEF head_slot
<1>7. ASSUME NEW slot \in 0 .. head_slot PROVE block(slot)' = block(slot)
  <2>1. slot + 1 \in 1 .. Len(chain)
    BY <1>5 DEF head_slot
  <2> QED BY <1>3, <1>4, <2>1 DEF block
<1> QED BY <1>3, <1>4, <1>6, <1>7

LEMMA ProposeInv == LightInv /\ Propose => LightInv'
<1> SUFFICES ASSUME LightInv, Propose PROVE LightInv'
  OBVIOUS
<1> DEFINE new == Block(head_slot + 1, block(finalized_of(head_slot + 1)).root)
<1>1. /\ chain' = Append(chain, new) /\ head_slot < MaxSlot
      /\ UNCHANGED <<trusted_slot, trusted_beacon_root, finalized_eth_blocks, rpc, known, update, witness>>
  BY DEF Propose, rollupVars, bridgeVars, withdrawVars, heliosVars, claimVars, clientVars
<1>2. ChainInv /\ RelayersInv /\ HeadInv
  BY DEF LightInv
<1>3. BlockOK(new, head_slot + 1, block(finalized_of(head_slot + 1)).root)
  BY BlockFacts
<1> HIDE DEF new
<1>4. /\ Len(chain') = Len(chain) + 1 /\ head_slot' = head_slot + 1 /\ head_slot \in Nat
      /\ \E S : chain' \in Seq(S)
      /\ chain'[Len(chain) + 1] = new
      /\ \A slot \in 0 .. head_slot : block(slot)' = block(slot)
  BY <1>1, <1>2, ChainGrows
<1>5. /\ \A slot \in 0 .. head_slot + 1 : finalized_of(slot) \in 0 .. slot
      /\ \A slot \in 1 .. head_slot + 1 : finalized_of(slot) \in 0 .. head_slot
      /\ finalized_of(head_slot) <= finalized_of(head_slot + 1)
      /\ finalized_of(head_slot) \in 0 .. head_slot
  BY <1>4, FinalizedSlots
<1>6. ChainInv'
  <2>1. (Len(chain) \in 1 .. MaxSlot + 1)'
    BY <1>1, <1>2, <1>4, LightClientAssumption DEF ChainInv, head_slot
  <2>2. ASSUME NEW slot \in 0 .. head_slot + 1
        PROVE  BlockOK(block(slot), slot, finalized_root_of(slot))'
    <3>1. CASE slot \in 0 .. head_slot
      <4>1. BlockOK(block(slot), slot, finalized_root_of(slot)) /\ block(slot)' = block(slot)
        BY <1>2, <1>4, <3>1 DEF ChainInv
      <4>2. slot # 0 => block(finalized_of(slot))' = block(finalized_of(slot))
        <5>1. slot # 0 => finalized_of(slot) \in 0 .. head_slot
          BY <1>5
        <5>2. finalized_of(slot)' = finalized_of(slot)
          BY DEF finalized_of
        <5> QED BY <1>4, <5>1
      <4>3. finalized_root_of(slot)' = finalized_root_of(slot)
        BY <4>2 DEF finalized_root_of
      <4> QED BY <4>1, <4>3 DEF BlockOK
    <3>2. CASE slot = head_slot + 1
      <4>1. block(slot)' = new
        BY <1>4, <3>2 DEF block, head_slot
      <4>2. finalized_root_of(slot)' = block(finalized_of(head_slot + 1)).root
        <5>1. slot # 0 /\ finalized_of(slot) \in 0 .. head_slot
          BY <1>4, <1>5, <3>2
        <5>2. block(finalized_of(slot))' = block(finalized_of(slot))
          BY <1>4, <5>1
        <5> QED BY <3>2, <5>1, <5>2 DEF finalized_root_of
      <4> QED BY <1>3, <3>2, <4>1, <4>2 DEF BlockOK
    <3> QED BY <1>4, <3>1, <3>2
  <2> QED BY <1>4, <2>1, <2>2 DEF ChainInv
<1>7. RelayersInv'
  <2>1. ASSUME NEW slot \in 1 .. head_slot, NEW flaw PROVE Answer(slot, flaw)' = Answer(slot, flaw)
    <3>1. block(slot)' = block(slot) /\ block(finalized_of(slot))' = block(finalized_of(slot))
      BY <1>4, <1>5
    <3>2. UpdateJson(slot)' = UpdateJson(slot)
      BY <3>1 DEF UpdateJson
    <3> QED BY <3>2 DEF Answer
  <2> SUFFICES ASSUME NEW r \in Relayers PROVE
         /\ known[r].slot \in Nat
         /\ rpc[r] \in {"get_genesis", "submit_helios_update"} =>
               /\ update[r].slot \in 1 .. head_slot + 1 /\ finalized_of(update[r].slot) > 0
               /\ update[r].flaw \in Flaws
         /\ rpc[r] = "submit_helios_update" =>
               LET answer == Answer(update[r].slot, update[r].flaw)' IN
               /\ build_helios_witness_ok(answer, GenesisJson)
               /\ \E key \in {CommitteeKey, PlaceholderKey} :
                     witness[r] = build_helios_witness(answer, GenesisJson, key, known[r].root)
    BY <1>1, <1>2, <1>4 DEF RelayersInv, RelayerInv
  <2>2. rpc[r] \in {"get_genesis", "submit_helios_update"} => update[r].slot \in 1 .. head_slot
    BY <1>2 DEF RelayersInv, RelayerInv
  <2>3. rpc[r] = "submit_helios_update"
           => Answer(update[r].slot, update[r].flaw)' = Answer(update[r].slot, update[r].flaw)
    <3>1. update' = update
      BY <1>1
    <3> QED BY <2>1, <2>2, <3>1
  <2> QED BY <1>2, <1>4, <2>2, <2>3 DEF RelayersInv, RelayerInv
<1>8. HeadInv'
  <2>1. trusted_slot \in 0 .. head_slot /\ trusted_slot <= finalized_of(head_slot + 1)
    <3>1. trusted_slot \in Nat /\ trusted_slot <= finalized_of(head_slot)
      BY <1>2 DEF HeadInv, HeadIsOneBlock
    <3> DEFINE f == finalized_of(head_slot)
               g == finalized_of(head_slot + 1)
    <3>2. f \in 0 .. head_slot /\ f <= g /\ head_slot + 1 \in 0 .. head_slot + 1 /\ g \in 0 .. head_slot + 1
      BY <1>4, <1>5
    <3> HIDE DEF f, g
    <3>3. trusted_slot <= f
      BY <3>1 DEF f
    <3>4. trusted_slot \in 0 .. head_slot /\ trusted_slot <= g
      BY <1>4, <3>1, <3>2, <3>3
    <3> QED BY <3>4 DEF g
  <2>2. block(trusted_slot)' = block(trusted_slot)
    BY <1>1, <1>4, <2>1
  <2>3. finalized_of(head_slot)' = finalized_of(head_slot + 1)
    BY <1>4 DEF finalized_of
  <2> QED BY <1>1, <1>2, <2>1, <2>2, <2>3 DEF HeadInv, HeadIsOneBlock
<1> QED BY <1>6, <1>7, <1>8 DEF LightInv
-----------------------------------------------------------------------------
\* The witness built from an update, whose finalized slot is f.
WitnessOf(w, slot, f, key, root) ==
    /\ w.prev_trusted_root = root
    /\ w.attested_header = parse_beacon_header(block(slot).header)
    /\ w.finalized_header = parse_beacon_header(block(f).header)
    /\ w.finality_branch = parse_branch(block(slot).finality_branch)
    /\ w.sync_committee_participation = 342
    /\ w.sync_aggregate_signature = Opaque("signature", slot, 0)
    /\ w.sync_committee_pubkey = key
    /\ w.execution_payload_root = block(f).payload_root
    /\ w.body_to_exec_branch = parse_branch(block(f).execution_branch)
    /\ w.execution_block_hash = block_hash(f)
    /\ w.exec_to_hash_branch = merkle_branch_32(ssz_execution_payload_leaves(PayloadJson(f)), 12)

LEMMA ChainBlocks ==
    ASSUME ChainInv
    PROVE  /\ head_slot \in Nat /\ head_slot <= MaxSlot
           /\ \A slot \in 0 .. head_slot : /\ finalized_of(slot) \in 0 .. head_slot
                                           /\ BlockOK(block(slot), slot, finalized_root_of(slot))
<1>1. head_slot \in Nat /\ head_slot <= MaxSlot
  <2>1. Len(chain) \in 1 .. MaxSlot + 1
    BY DEF ChainInv
  <2> QED BY <2>1, LightClientAssumption DEF head_slot
<1>2. \A slot \in 0 .. head_slot : finalized_of(slot) \in 0 .. head_slot
  BY <1>1, FinalizedSlots
<1> QED BY <1>1, <1>2 DEF ChainInv

LEMMA UpdateWitness ==
    ASSUME ChainInv, NEW slot \in 0 .. head_slot, NEW key, NEW root
    PROVE  WitnessOf(build_helios_witness(UpdateJson(slot), GenesisJson, key, root),
                     slot, finalized_of(slot), key, root)
<1> DEFINE u == UpdateJson(slot)
           f == finalized_of(slot)
           w == build_helios_witness(u, GenesisJson, key, root)
<1>1. BlockOK(block(f), f, finalized_root_of(f))
  BY ChainBlocks
<1>2. /\ block(f).payload = PayloadJson(f)
      /\ block(f).payload_root = ssz_execution_payload_root(PayloadJson(f))
  BY <1>1 DEF BlockOK
<1>3. parse_bytes32(PayloadJson(f).block_hash) = block_hash(f)
  BY PayloadFacts
<1> HIDE DEF f
<1>4. /\ u.attested_header.beacon = block(slot).header
      /\ u.finalized_header.beacon = block(f).header
      /\ u.finalized_header.execution = PayloadJson(f)
      /\ u.finalized_header.execution_branch = block(f).execution_branch
      /\ u.finality_branch = block(slot).finality_branch
      /\ u.sync_aggregate.sync_committee_bits.ones = 342
      /\ u.sync_aggregate.sync_committee_signature.val = Opaque("signature", slot, 0)
  BY <1>2 DEF UpdateJson, f, Hex
<1> HIDE DEF u
<1> QED BY <1>2, <1>3, <1>4 DEF WitnessOf, build_helios_witness, u, f

\* An answer that parses has the payload of the update.
LEMMA AnswerPayload ==
    ASSUME ChainInv, NEW slot \in 0 .. head_slot, NEW flaw \in Flaws, NEW key, NEW root,
           build_helios_witness_ok(Answer(slot, flaw), GenesisJson)
    PROVE  LET w == build_helios_witness(Answer(slot, flaw), GenesisJson, key, root)
               f == finalized_of(slot) IN
           w.execution_payload_root = block(f).payload_root /\ w.execution_block_hash = block_hash(f)
<1> DEFINE u == UpdateJson(slot)
           a == Answer(slot, flaw)
           f == finalized_of(slot)
           w == build_helios_witness(u, GenesisJson, key, root)
<1>1. WitnessOf(w, slot, f, key, root)
  BY UpdateWitness
<1>2. BlockOK(block(f), f, finalized_root_of(f))
  BY ChainBlocks
<1>3. ssz_execution_payload_ok(a.finalized_header.execution)
  BY DEF build_helios_witness_ok
<1>4. u.finalized_header.execution = PayloadJson(f)
  BY <1>2 DEF BlockOK, UpdateJson
<1>5. /\ flaw = "none" => a = u
      /\ flaw = "quorum" => a = [u EXCEPT !.sync_aggregate.sync_committee_bits.ones = 341]
      /\ flaw = "unsigned" => a = [u EXCEPT !.sync_aggregate.sync_committee_signature.val = ZeroChunk]
      /\ flaw = "branch" => a = [u EXCEPT !.finality_branch = Append(@, Hex(32, ZeroChunk))]
      /\ flaw = "bloom" => a = [u EXCEPT !.finalized_header.execution.logs_bloom.len = 255]
      /\ flaw = "extra" => a = [u EXCEPT !.finalized_header.execution.extra_data.len = 33]
      /\ flaw = "number" => a = [u EXCEPT !.finalized_header.execution.gas_used = U64Width]
  BY DEF Answer
<1>6. /\ DOMAIN u = {"attested_header", "finalized_header", "finality_branch", "sync_aggregate"}
      /\ u = [attested_header |-> u.attested_header, finalized_header |-> u.finalized_header,
              finality_branch |-> u.finality_branch, sync_aggregate |-> u.sync_aggregate]
      /\ u.finalized_header = [beacon |-> u.finalized_header.beacon, execution |-> u.finalized_header.execution,
                               execution_branch |-> u.finalized_header.execution_branch]
  BY DEF UpdateJson
<1>7. flaw \in {"none", "quorum", "unsigned", "branch"}
  <2> DEFINE payload == PayloadJson(f)
  <2>1. /\ "logs_bloom" \in DOMAIN payload /\ "extra_data" \in DOMAIN payload /\ "gas_used" \in DOMAIN payload
        /\ "len" \in DOMAIN payload.logs_bloom /\ "len" \in DOMAIN payload.extra_data
    BY DEF PayloadJson, Hex
  <2> HIDE DEF payload, u, a
  <2>2. u.finalized_header.execution = payload /\ "finalized_header" \in DOMAIN u
        /\ "execution" \in DOMAIN u.finalized_header
    BY <1>4, <1>6 DEF payload
  <2>3. flaw # "bloom"
    <3>1. SUFFICES ASSUME flaw = "bloom" PROVE FALSE
      OBVIOUS
    <3>2. a.finalized_header.execution.logs_bloom.len = 255
      BY <1>5, <2>1, <2>2, <3>1
    <3> QED BY <1>3, <3>2 DEF ssz_execution_payload_ok
  <2>4. flaw # "extra"
    <3>1. SUFFICES ASSUME flaw = "extra" PROVE FALSE
      OBVIOUS
    <3>2. a.finalized_header.execution.extra_data.len = 33
      BY <1>5, <2>1, <2>2, <3>1
    <3> QED BY <1>3, <3>2 DEF ssz_execution_payload_ok
  <2>5. flaw # "number"
    <3>1. SUFFICES ASSUME flaw = "number" PROVE FALSE
      OBVIOUS
    <3>2. a.finalized_header.execution.gas_used = U64Width
      BY <1>5, <2>1, <2>2, <3>1
    <3>3. a.finalized_header.execution["gas_used"] < U64Width
      BY <1>3 DEF ssz_execution_payload_ok, NumberFields
    <3> QED BY <3>2, <3>3, LightClientAssumption
  <2> QED BY <2>3, <2>4, <2>5 DEF Flaws
<1>8. a.finalized_header = u.finalized_header
  <2> HIDE DEF u, a
  <2> QED BY <1>5, <1>6, <1>7
<1> HIDE DEF u, a
<1>9. /\ build_helios_witness(a, GenesisJson, key, root).execution_payload_root = w.execution_payload_root
      /\ build_helios_witness(a, GenesisJson, key, root).execution_block_hash = w.execution_block_hash
  BY <1>8 DEF build_helios_witness
<1> QED BY <1>1, <1>9 DEF WitnessOf, a
-----------------------------------------------------------------------------
\* An update to one finalized block of the chain keeps the head one block.
LEMMA HeadMoves ==
    ASSUME ChainInv, HeadInv, NEW inputs,
           head_advances(inputs) => /\ inputs.new_slot \in 0 .. finalized_of(head_slot)
                                    /\ inputs.new_beacon_root \in {block(inputs.new_slot).root,
                                                                   block(inputs.new_slot).payload_root}
                                    /\ inputs.execution_block_hash = block_hash(inputs.new_slot),
           NEW verified \in BOOLEAN, Submitted(inputs, verified), UNCHANGED chain
    PROVE  HeadInv'
<1>1. CASE verified /\ head_advances(inputs)
  <2> DEFINE f == inputs.new_slot
  <2>1. /\ f \in 0 .. finalized_of(head_slot)
        /\ inputs.new_beacon_root \in {block(f).root, block(f).payload_root}
        /\ inputs.execution_block_hash = block_hash(f)
        /\ f > trusted_slot
    BY <1>1 DEF head_advances
  <2>2. /\ trusted_beacon_root' = inputs.new_beacon_root /\ trusted_slot' = f
        /\ finalized_eth_blocks' = [finalized_eth_blocks EXCEPT ![inputs.execution_block_hash] = f]
    BY <1>1 DEF Submitted, handle_update_helios_head
  <2>3. head_slot' = head_slot /\ (\A slot : block(slot)' = block(slot))
    BY DEF head_slot, block
  <2>4. finalized_of(head_slot)' = finalized_of(head_slot) /\ finalized_of(head_slot) \in 0 .. MaxSlot
    <3>1. head_slot \in 0 .. MaxSlot /\ finalized_of(head_slot) \in 0 .. head_slot
      BY ChainBlocks, FinalizedSlots
    <3>2. finalized_of(head_slot)' = finalized_of(head_slot)
      BY <2>3 DEF finalized_of
    <3> QED BY <3>1, <3>2, LightClientAssumption
  <2> HIDE DEF f
  <2>5. f \in Nat /\ f > 0 /\ f \in 0 .. MaxSlot
    BY <2>1, <2>4, LightClientAssumption DEF HeadInv
  <2>6. block_hash(f) \in EthBlocks
    BY <2>5, ChainAssumption
  <2>7. /\ finalized_eth_blocks' \in [EthBlocks -> Nat] /\ finalized_eth_blocks'[block_hash(f)] = f
        /\ \A b \in EthBlocks : b # block_hash(f) => finalized_eth_blocks'[b] = finalized_eth_blocks[b]
    BY <2>1, <2>2, <2>5, <2>6 DEF HeadInv
  <2>8. ASSUME NEW b \in EthBlocks, finalized_eth_blocks'[b] # 0
        PROVE  finalized_eth_blocks'[b] <= f /\ b = block_hash(finalized_eth_blocks'[b])
    <3>1. CASE b = block_hash(f)
      BY <2>5, <2>7, <3>1
    <3>2. CASE b # block_hash(f)
      <4>1. finalized_eth_blocks'[b] = finalized_eth_blocks[b] /\ finalized_eth_blocks[b] \in Nat
        BY <2>7, <3>2 DEF HeadInv
      <4>2. finalized_eth_blocks[b] <= trusted_slot /\ b = block_hash(finalized_eth_blocks[b])
        BY <2>8, <4>1 DEF HeadInv, HeadIsOneBlock
      <4> QED BY <2>1, <2>5, <4>1, <4>2 DEF HeadInv
    <3> QED BY <3>1, <3>2
  <2>9. \A slot : block_hash(slot)' = block_hash(slot)
    BY DEF block_hash, Opaque
  <2> QED BY <2>1, <2>2, <2>3, <2>4, <2>5, <2>7, <2>8, <2>9 DEF HeadInv, HeadIsOneBlock
<1>2. CASE ~(verified /\ head_advances(inputs))
  <2>1. UNCHANGED <<trusted_slot, trusted_beacon_root, finalized_eth_blocks, chain>>
    BY <1>2 DEF Submitted, rollupVars, bridgeVars, heliosVars
  <2> QED BY <2>1 DEF HeadInv, HeadIsOneBlock, block, head_slot
<1> QED BY <1>1, <1>2

\* What the circuit accepts, whatever updates it is made of, is of one block.
LEMMA MixtureIsOneBlock ==
    ASSUME ChainInv,
           NEW a \in 0 .. head_slot, NEW f \in 0 .. head_slot, NEW e \in 0 .. head_slot, NEW h \in 0 .. head_slot,
           NEW wa, NEW wf, NEW we, NEW wh, NEW key, NEW root, NEW w,
           WitnessOf(wf, f, finalized_of(f), key, root), WitnessOf(we, e, finalized_of(e), key, root),
           WitnessOf(wh, h, finalized_of(h), key, root),
           w.finalized_header = wf.finalized_header,
           w.execution_payload_root = we.execution_payload_root,
           w.body_to_exec_branch = we.body_to_exec_branch,
           w.execution_block_hash = wh.execution_block_hash,
           w.exec_to_hash_branch = wh.exec_to_hash_branch,
           helios_step(w)
    PROVE  LET outputs == helios_outputs(w) IN
           /\ outputs.new_slot = finalized_of(f)
           /\ outputs.new_beacon_root = block(finalized_of(f)).root
           /\ outputs.execution_block_hash = block_hash(finalized_of(f))
<1> DEFINE ff == finalized_of(f)
           fe == finalized_of(e)
           fh == finalized_of(h)
           header(slot) == parse_beacon_header(block(slot).header)
<1>1. /\ BlockOK(block(ff), ff, finalized_root_of(ff))
      /\ BlockOK(block(fe), fe, finalized_root_of(fe))
      /\ BlockOK(block(fh), fh, finalized_root_of(fh))
  BY ChainBlocks
<1> HIDE DEF ff, fe, fh
<1>2. /\ w.finalized_header = header(ff)
      /\ w.execution_payload_root = block(fe).payload_root
      /\ w.body_to_exec_branch = parse_branch(block(fe).execution_branch)
      /\ w.execution_block_hash = block_hash(fh)
      /\ w.exec_to_hash_branch = merkle_branch_32(ssz_execution_payload_leaves(PayloadJson(fh)), 12)
  BY DEF WitnessOf, ff, fe, fh
<1>3. fe = ff
  <2>1. /\ verify_merkle_branch(block(fe).payload_root, parse_branch(block(fe).execution_branch), 4, 9,
                                header(ff).body_root)
        /\ verify_merkle_branch(block(fe).payload_root, parse_branch(block(fe).execution_branch), 4, 9,
                                header(fe).body_root)
    <3>1. verify_merkle_branch(w.execution_payload_root, w.body_to_exec_branch, 4, 9, w.finalized_header.body_root)
      BY DEF helios_step
    <3> QED BY <1>1, <1>2, <3>1 DEF BlockOK
  <2>2. header(ff).body_root = header(fe).body_root
    <3> DEFINE depth == 4
               leaf_index == 9
               x == header(ff).body_root
               y == header(fe).body_root
               leaf == block(fe).payload_root
               branch == parse_branch(block(fe).execution_branch)
    <3>1. verify_merkle_branch(leaf, branch, depth, leaf_index, x) /\ verify_merkle_branch(leaf, branch, depth, leaf_index, y)
      BY <2>1
    <3> HIDE DEF depth, leaf_index, x, y, leaf, branch
    <3>2. x = y
      BY <3>1, BranchRootUnique
    <3> QED BY <3>2 DEF x, y
  <2>3. PICK p, q : /\ header(ff).body_root = sha256_pair(Opaque("body", ff, 2), p)
                    /\ header(fe).body_root = sha256_pair(Opaque("body", fe, 2), q)
    BY <1>1 DEF BlockOK
  <2>4. sha256_pair(Opaque("body", ff, 2), p) = sha256_pair(Opaque("body", fe, 2), q)
    BY <2>2, <2>3
  <2>5. Opaque("body", ff, 2) = Opaque("body", fe, 2)
    BY <2>4, PairInjective
  <2> QED BY <2>5, OpaqueInjective
<1>4. fh = fe
  <2> DEFINE leaves == ssz_execution_payload_leaves(PayloadJson(fh))
             x == ssz_execution_payload_root(PayloadJson(fh))
             y == ssz_execution_payload_root(PayloadJson(fe))
             depth == 5
             leaf_index == 12
             leaf == block_hash(fh)
             branch == merkle_branch_32(leaves, 12)
  <2>1. verify_merkle_branch(leaf, branch, depth, leaf_index, x)
    BY PayloadFacts
  <2>2. verify_merkle_branch(leaf, branch, depth, leaf_index, y)
    <3>1. verify_merkle_branch(w.execution_block_hash, w.exec_to_hash_branch, 5, 12, w.execution_payload_root)
      BY DEF helios_step
    <3>2. block(fe).payload_root = y
      BY <1>1 DEF BlockOK
    <3> QED BY <1>2, <3>1, <3>2
  <2> HIDE DEF leaves, x, y, depth, leaf_index, leaf, branch
  <2>3. x = y
    BY <2>1, <2>2, BranchRootUnique
  <2>4. ssz_execution_payload_root(PayloadJson(fh)) = ssz_execution_payload_root(PayloadJson(fe))
    BY <2>3 DEF x, y
  <2> QED BY <2>4, PayloadRootInjective
<1>5. header(ff).slot = ff /\ hash_tree_root_beacon_header(header(ff)) = block(ff).root
  BY <1>1 DEF BlockOK
<1> QED BY <1>2, <1>3, <1>4, <1>5 DEF helios_outputs, ff

\* While the chain stays as it is, so do its blocks and the answers about it.
LEMMA ChainUnchanged ==
    ASSUME ChainInv, UNCHANGED chain
    PROVE  /\ ChainInv' /\ head_slot' = head_slot
           /\ \A slot, flaw : Answer(slot, flaw)' = Answer(slot, flaw)
           /\ RelayersInv /\ UNCHANGED <<rpc, known, update, witness>> => RelayersInv'
<1>1. head_slot' = head_slot /\ (\A slot : block(slot)' = block(slot))
  BY DEF head_slot, block
<1>2. \A slot : finalized_root_of(slot)' = finalized_root_of(slot)
  BY <1>1 DEF finalized_root_of, finalized_of
<1>3. ChainInv'
  BY <1>1, <1>2 DEF ChainInv, BlockOK
<1>4. ASSUME NEW slot, NEW flaw PROVE Answer(slot, flaw)' = Answer(slot, flaw)
  <2>1. UpdateJson(slot)' = UpdateJson(slot)
    BY <1>1 DEF UpdateJson, finalized_of
  <2> QED BY <2>1 DEF Answer
<1>5. RelayersInv /\ UNCHANGED <<rpc, known, update, witness>> => RelayersInv'
  <2> SUFFICES ASSUME RelayersInv, UNCHANGED <<rpc, known, update, witness>>, NEW r \in Relayers
               PROVE  RelayerInv(r)'
    BY DEF RelayersInv
  <2>1. RelayerInv(r)
    BY DEF RelayersInv
  <2>2. Answer(update[r].slot, update[r].flaw)' = Answer(update[r].slot, update[r].flaw)
    BY <1>4
  <2> QED BY <1>1, <2>1, <2>2 DEF RelayerInv, finalized_of
<1> QED BY <1>1, <1>3, <1>4, <1>5

LEMMA SubmitProofInv ==
    ASSUME LightInv, NEW wa \in Witnesses, NEW wf \in Witnesses, NEW we \in Witnesses, NEW wh \in Witnesses,
           SubmitProof(Mixture(wa, wf, we, wh))
    PROVE  LightInv'
<1> DEFINE w == Mixture(wa, wf, we, wh)
           Made(x, slot) == x = build_helios_witness(UpdateJson(slot), GenesisJson, CommitteeKey, trusted_beacon_root)
<1>1. ChainInv /\ RelayersInv /\ HeadInv
  BY DEF LightInv
<1>2. \A x \in Witnesses : \E slot \in 0 .. head_slot : Made(x, slot)
  BY DEF Witnesses
<1>3. PICK a \in 0 .. head_slot, f \in 0 .. head_slot, e \in 0 .. head_slot, h \in 0 .. head_slot :
         Made(wa, a) /\ Made(wf, f) /\ Made(we, e) /\ Made(wh, h)
  BY <1>2
<1>4. /\ WitnessOf(wf, f, finalized_of(f), CommitteeKey, trusted_beacon_root)
      /\ WitnessOf(we, e, finalized_of(e), CommitteeKey, trusted_beacon_root)
      /\ WitnessOf(wh, h, finalized_of(h), CommitteeKey, trusted_beacon_root)
  <2>1. ASSUME NEW x, NEW slot \in 0 .. head_slot, Made(x, slot)
        PROVE  WitnessOf(x, slot, finalized_of(slot), CommitteeKey, trusted_beacon_root)
    BY <1>1, <2>1, UpdateWitness
  <2> QED BY <1>3, <2>1
<1>5. /\ w.finalized_header = wf.finalized_header
      /\ w.execution_payload_root = we.execution_payload_root
      /\ w.body_to_exec_branch = we.body_to_exec_branch
      /\ w.execution_block_hash = wh.execution_block_hash
      /\ w.exec_to_hash_branch = wh.exec_to_hash_branch
  <2>1. {"finalized_header", "execution_payload_root", "body_to_exec_branch", "execution_block_hash",
         "exec_to_hash_branch"} \subseteq DOMAIN wa
    BY <1>3 DEF build_helios_witness
  <2> QED BY <2>1 DEF Mixture
<1> HIDE DEF w, Made
<1>6. /\ helios_step(w) /\ Submitted(helios_outputs(w), TRUE)
      /\ UNCHANGED <<chain, failures, clientVars>>
  BY DEF SubmitProof, w
<1>7. LET outputs == helios_outputs(w) IN
      /\ outputs.new_slot = finalized_of(f)
      /\ outputs.new_beacon_root = block(finalized_of(f)).root
      /\ outputs.execution_block_hash = block_hash(finalized_of(f))
  BY <1>1, <1>4, <1>5, <1>6, MixtureIsOneBlock
<1>8. finalized_of(f) \in 0 .. finalized_of(head_slot)
  <2>1. head_slot \in Nat
    BY <1>1, ChainBlocks
  <2> QED BY <2>1, FinalizedSlots
<1>9. HeadInv'
  <2> DEFINE inputs == helios_outputs(w)
             verified == TRUE
  <2>1. /\ inputs.new_slot \in 0 .. finalized_of(head_slot)
        /\ inputs.new_beacon_root \in {block(inputs.new_slot).root, block(inputs.new_slot).payload_root}
        /\ inputs.execution_block_hash = block_hash(inputs.new_slot)
    BY <1>7, <1>8
  <2>2. Submitted(inputs, verified) /\ verified \in BOOLEAN /\ chain' = chain
    BY <1>6
  <2> HIDE DEF inputs, verified
  <2> QED BY <1>1, <2>1, <2>2, HeadMoves
<1>10. ChainInv' /\ RelayersInv'
  <2>1. UNCHANGED <<chain, rpc, known, update, witness>>
    BY <1>6 DEF clientVars
  <2> QED BY <1>1, <2>1, ChainUnchanged
<1> QED BY <1>9, <1>10 DEF LightInv
-----------------------------------------------------------------------------
\* A step of r leaves the variables of the other relayers alone.
OnlyOf(r) ==
    /\ DOMAIN rpc' = Relayers /\ DOMAIN known' = Relayers /\ DOMAIN update' = Relayers /\ DOMAIN witness' = Relayers
    /\ \A other \in Relayers \ {r} : /\ rpc'[other] = rpc[other] /\ known'[other] = known[other]
                                     /\ update'[other] = update[other] /\ witness'[other] = witness[other]

LEMMA OthersInv ==
    ASSUME ChainInv, RelayersInv, UNCHANGED chain, NEW r \in Relayers, OnlyOf(r), RelayerInv(r)'
    PROVE  RelayersInv'
<1> SUFFICES ASSUME NEW other \in Relayers \ {r} PROVE RelayerInv(other)'
  BY DEF OnlyOf, RelayersInv
<1>1. /\ rpc'[other] = rpc[other] /\ known'[other] = known[other]
      /\ update'[other] = update[other] /\ witness'[other] = witness[other]
  BY DEF OnlyOf
<1>2. head_slot' = head_slot
  BY DEF head_slot
<1>3. \A slot, flaw : Answer(slot, flaw)' = Answer(slot, flaw)
  BY ChainUnchanged
<1>4. Answer(update[other].slot, update[other].flaw)' = Answer(update[other].slot, update[other].flaw)
  BY <1>1, <1>3
<1>5. RelayerInv(other)
  BY DEF RelayersInv
<1> QED BY <1>1, <1>2, <1>4, <1>5 DEF RelayerInv, finalized_of

LEMMA ReturnInv ==
    ASSUME RelayersInv, NEW r \in Relayers, Return(r)
    PROVE  OnlyOf(r) /\ RelayerInv(r)'
BY DEF RelayersInv, Return, Goto, OnlyOf, RelayerInv, NoHead

LEMMA HeadUnchanged ==
    ASSUME HeadInv, UNCHANGED <<rollupVars, chain>>
    PROVE  HeadInv'
<1>1. UNCHANGED <<trusted_slot, trusted_beacon_root, finalized_eth_blocks, chain>>
  BY DEF rollupVars, bridgeVars, heliosVars
<1> QED BY <1>1 DEF HeadInv, HeadIsOneBlock, block, head_slot

LEMMA SubmitHeliosUpdateInv ==
    ASSUME LightInv, NEW r \in Relayers, SubmitHeliosUpdate(r)
    PROVE  LightInv'
<1>1. ChainInv /\ RelayersInv /\ HeadInv
  BY DEF LightInv
<1>2. /\ rpc[r] = "submit_helios_update" /\ UNCHANGED chain /\ Return(r)
      /\ Submitted(public_inputs(r), proof_verifies(r))
  BY DEF SubmitHeliosUpdate
<1> DEFINE slot == update[r].slot
           flaw == update[r].flaw
           root == known[r].root
           answer == Answer(slot, flaw)
           f == finalized_of(slot)
<1>3. /\ slot \in 1 .. head_slot /\ flaw \in Flaws
      /\ build_helios_witness_ok(answer, GenesisJson)
      /\ \E key \in {CommitteeKey, PlaceholderKey} :
            witness[r] = build_helios_witness(answer, GenesisJson, key, root)
  BY <1>1, <1>2 DEF RelayersInv, RelayerInv
<1>4. PICK key : witness[r] = build_helios_witness(answer, GenesisJson, key, root)
  BY <1>3
<1>5. witness[r].execution_payload_root = block(f).payload_root /\ witness[r].execution_block_hash = block_hash(f)
  <2>1. slot \in 0 .. head_slot
    BY <1>3
  <2> HIDE DEF slot, flaw, root
  <2> QED BY <1>1, <1>3, <1>4, <2>1, AnswerPayload
<1>6. f \in 0 .. finalized_of(head_slot)
  <2>1. head_slot \in Nat
    BY <1>1, ChainBlocks
  <2> QED BY <1>3, <2>1, FinalizedSlots
<1>7. HeadInv'
  <2> DEFINE inputs == public_inputs(r)
             verified == proof_verifies(r)
  <2>1. /\ inputs.new_slot = f /\ inputs.new_beacon_root = block(f).payload_root
        /\ inputs.execution_block_hash = block_hash(f)
    BY <1>5 DEF public_inputs
  <2>2. verified \in BOOLEAN
    BY DEF proof_verifies
  <2>3. Submitted(inputs, verified)
    BY <1>2
  <2> HIDE DEF inputs, verified, f
  <2> QED BY <1>1, <1>2, <1>6, <2>1, <2>2, <2>3, HeadMoves
<1>8. ChainInv' /\ RelayersInv'
  BY <1>1, <1>2, ReturnInv, OthersInv, ChainUnchanged
<1> QED BY <1>7, <1>8 DEF LightInv

LEMMA RelayerStepInv ==
    ASSUME LightInv, NEW r \in Relayers,
           \/ get_helios_state(r) \/ NoHeliosState(r)
           \/ \E slot \in 0 .. head_slot, flaw \in Flaws : GetFinalityUpdate(r, slot, flaw)
           \/ RequestFails(r)
           \/ \E key \in {CommitteeKey, PlaceholderKey} : BuildWitness(r, key)
    PROVE  LightInv'
<1>1. ChainInv /\ RelayersInv /\ HeadInv
  BY DEF LightInv
<1>2. UNCHANGED <<rollupVars, chain>>
  BY DEF get_helios_state, NoHeliosState, GetFinalityUpdate, RequestFails, BuildWitness
<1>3. OnlyOf(r) /\ RelayerInv(r)'
  <2>1. CASE get_helios_state(r)
    BY <1>1, <2>1 DEF get_helios_state, Goto, RelayersInv, RelayerInv, OnlyOf, HeadInv
  <2>2. CASE NoHeliosState(r)
    BY <1>1, <2>2 DEF NoHeliosState, Goto, RelayersInv, RelayerInv, OnlyOf
  <2>3. ASSUME NEW slot \in 0 .. head_slot, NEW flaw \in Flaws, GetFinalityUpdate(r, slot, flaw)
        PROVE  OnlyOf(r) /\ RelayerInv(r)'
    <3>1. CASE finalized_of(slot) <= known[r].slot
      BY <1>1, <2>3, <3>1, ReturnInv DEF GetFinalityUpdate
    <3>2. CASE ~(finalized_of(slot) <= known[r].slot)
      <4>1. /\ update' = [update EXCEPT ![r] = [slot |-> slot, flaw |-> flaw]]
            /\ rpc' = [rpc EXCEPT ![r] = "get_genesis"]
            /\ UNCHANGED <<known, witness>>
        BY <2>3, <3>2 DEF GetFinalityUpdate, Goto
      <4>2. finalized_of(slot) > 0 /\ slot \in 1 .. head_slot
        <5>1. head_slot \in Nat /\ known[r].slot \in Nat
          BY <1>1, ChainBlocks DEF RelayersInv, RelayerInv
        <5>2. finalized_of(slot) \in 0 .. slot
          BY <5>1, FinalizedSlots
        <5> QED BY <3>2, <5>1, <5>2
      <4>3. known[r].slot \in Nat
        BY <1>1 DEF RelayersInv, RelayerInv
      <4>4. head_slot' = head_slot /\ finalized_of(slot)' = finalized_of(slot)
        BY <1>2 DEF head_slot, finalized_of
      <4>5. OnlyOf(r) /\ update'[r] = [slot |-> slot, flaw |-> flaw] /\ rpc'[r] = "get_genesis" /\ known'[r] = known[r]
        BY <1>1, <4>1 DEF OnlyOf, RelayersInv
      <4> QED BY <4>2, <4>3, <4>4, <4>5 DEF RelayerInv, finalized_of
    <3> QED BY <3>1, <3>2
  <2>4. CASE RequestFails(r)
    BY <1>1, <2>4, ReturnInv DEF RequestFails
  <2>5. ASSUME NEW key \in {CommitteeKey, PlaceholderKey}, BuildWitness(r, key)
        PROVE  OnlyOf(r) /\ RelayerInv(r)'
    <3> DEFINE answer == Answer(update[r].slot, update[r].flaw)
               made == build_helios_witness(answer, GenesisJson, key, known[r].root)
    <3>1. CASE build_helios_witness_ok(answer, GenesisJson)
      <4>1. /\ witness' = [witness EXCEPT ![r] = made]
            /\ rpc' = [rpc EXCEPT ![r] = "submit_helios_update"]
            /\ UNCHANGED <<known, update>> /\ rpc[r] = "get_genesis"
        BY <2>5, <3>1 DEF BuildWitness, Goto
      <4>2. answer' = answer
        <5>1. \A slot, flaw : Answer(slot, flaw)' = Answer(slot, flaw)
          BY <1>1, <1>2, ChainUnchanged
        <5> QED BY <4>1, <5>1
      <4> HIDE DEF answer
      <4>3. /\ OnlyOf(r) /\ witness'[r] = made /\ rpc'[r] = "submit_helios_update"
            /\ known'[r] = known[r] /\ update'[r] = update[r]
        <5> HIDE DEF made
        <5> QED BY <1>1, <4>1 DEF OnlyOf, RelayersInv
      <4>4. /\ update[r].slot \in 1 .. head_slot /\ finalized_of(update[r].slot) > 0
            /\ update[r].flaw \in Flaws /\ known[r].slot \in Nat
        BY <1>1, <4>1 DEF RelayersInv, RelayerInv
      <4>5. head_slot' = head_slot
        BY <1>2 DEF head_slot
      <4>6. \E k \in {CommitteeKey, PlaceholderKey} :
               witness'[r] = build_helios_witness(answer', GenesisJson, k, known'[r].root)
        BY <2>5, <4>2, <4>3
      <4>7. build_helios_witness_ok(answer', GenesisJson)
        BY <3>1, <4>2
      <4> QED BY <4>3, <4>4, <4>5, <4>6, <4>7 DEF RelayerInv, finalized_of, answer
    <3>2. CASE ~build_helios_witness_ok(answer, GenesisJson)
      BY <1>1, <2>5, <3>2, ReturnInv DEF BuildWitness
    <3> QED BY <3>1, <3>2
  <2> QED BY <2>1, <2>2, <2>3, <2>4, <2>5
<1>4. ChainInv' /\ RelayersInv'
  BY <1>1, <1>2, <1>3, OthersInv, ChainUnchanged
<1>5. HeadInv'
  BY <1>1, <1>2, HeadUnchanged
<1> QED BY <1>4, <1>5 DEF LightInv

LEMMA LightStepInv == LightInv /\ [LightNext]_lightVars => LightInv'
<1> SUFFICES ASSUME LightInv, [LightNext]_lightVars PROVE LightInv'
  OBVIOUS
<1>1. CASE Propose
  BY <1>1, ProposeInv
<1>2. CASE \E a, f, e, h \in Witnesses : SubmitProof(Mixture(a, f, e, h))
  BY <1>2, SubmitProofInv
<1>3. ASSUME NEW r \in Relayers,
             \/ get_helios_state(r) \/ NoHeliosState(r)
             \/ \E slot \in 0 .. head_slot, flaw \in Flaws : GetFinalityUpdate(r, slot, flaw)
             \/ RequestFails(r)
             \/ \E key \in {CommitteeKey, PlaceholderKey} : BuildWitness(r, key)
      PROVE  LightInv'
  BY <1>3, RelayerStepInv
<1>4. ASSUME NEW r \in Relayers, SubmitHeliosUpdate(r) PROVE LightInv'
  BY <1>4, SubmitHeliosUpdateInv
<1>5. CASE UNCHANGED lightVars
  <2>1. UNCHANGED <<rollupVars, chain, rpc, known, update, witness>>
    BY <1>5 DEF lightVars, clientVars
  <2> QED BY <2>1, ChainUnchanged, HeadUnchanged DEF LightInv
<1> QED BY <1>1, <1>2, <1>3, <1>4, <1>5 DEF LightNext
-----------------------------------------------------------------------------
\* The chain's own updates are accepted by the circuit.
LEMMA LightInvAccepts == LightInv => WitnessAccepted
<1> SUFFICES ASSUME LightInv, NEW r \in Relayers, rpc[r] = "submit_helios_update", update[r].flaw = "none"
             PROVE  LET f == finalized_of(update[r].slot) IN
                    /\ helios_step(witness[r])
                    /\ helios_outputs(witness[r]) =
                          [prev_trusted_root |-> known[r].root, new_beacon_root |-> block(f).root,
                           new_slot |-> f, execution_block_hash |-> block_hash(f)]
  BY DEF WitnessAccepted
<1> DEFINE slot == update[r].slot
           f == finalized_of(slot)
           root == known[r].root
           w == witness[r]
           header(s) == parse_beacon_header(block(s).header)
<1>1. ChainInv /\ RelayersInv
  BY DEF LightInv
<1>2. PICK key \in {CommitteeKey, PlaceholderKey} :
         w = build_helios_witness(UpdateJson(slot), GenesisJson, key, root)
  <2>1. Answer(slot, update[r].flaw) = UpdateJson(slot)
    BY DEF Answer
  <2> QED BY <1>1, <2>1 DEF RelayersInv, RelayerInv
<1>3. slot \in 1 .. head_slot /\ f > 0
  BY <1>1 DEF RelayersInv, RelayerInv
<1>4. head_slot \in Nat /\ head_slot <= MaxSlot /\ f \in 0 .. head_slot /\ f < slot
  BY <1>1, <1>3, ChainBlocks, FinalizedSlots
<1> HIDE DEF slot, f, root, w
<1>5. WitnessOf(w, slot, f, key, root)
  <2>1. slot \in 0 .. head_slot
    BY <1>3, <1>4
  <2> QED BY <1>1, <1>2, <2>1, UpdateWitness DEF f
<1>6. /\ BlockOK(block(slot), slot, finalized_root_of(slot))
      /\ BlockOK(block(f), f, finalized_root_of(f))
  BY <1>1, <1>3, <1>4, ChainBlocks
<1>7. /\ w.finalized_header = header(f) /\ header(f).slot = f
      /\ w.attested_header = header(slot) /\ header(slot).slot = slot
      /\ hash_tree_root_beacon_header(header(f)) = block(f).root
  BY <1>5, <1>6 DEF WitnessOf, BlockOK
<1>8. verify_merkle_branch(hash_tree_root_beacon_header(w.finalized_header), w.finality_branch, 6, 41,
                           w.attested_header.state_root)
  <2>1. finalized_root_of(slot) = block(f).root
    BY <1>3, <1>4 DEF finalized_root_of, f
  <2>2. verify_merkle_branch(finalized_root_of(slot), parse_branch(block(slot).finality_branch), 6, 41,
                             header(slot).state_root)
    BY <1>6 DEF BlockOK
  <2>3. w.finality_branch = parse_branch(block(slot).finality_branch)
    BY <1>5 DEF WitnessOf
  <2> QED BY <1>7, <2>1, <2>2, <2>3
<1>9. w.sync_committee_participation >= MIN_SYNC_COMMITTEE_PARTICIPATION
  BY <1>5 DEF WitnessOf, MIN_SYNC_COMMITTEE_PARTICIPATION
<1>10. w.sync_aggregate_signature # ZeroChunk /\ w.sync_committee_pubkey # ZeroChunk
  <2>1. slot \in 0 .. MaxSlot
    BY <1>3, <1>4, LightClientAssumption
  <2> QED BY <1>2, <1>5, <2>1, ChainAssumption DEF WitnessOf
<1>11. verify_merkle_branch(w.execution_payload_root, w.body_to_exec_branch, 4, 9, w.finalized_header.body_root)
  BY <1>5, <1>6, <1>7 DEF WitnessOf, BlockOK
<1>12. verify_merkle_branch(w.execution_block_hash, w.exec_to_hash_branch, 5, 12, w.execution_payload_root)
  <2>1. w.execution_payload_root = ssz_execution_payload_root(PayloadJson(f))
    BY <1>5, <1>6 DEF WitnessOf, BlockOK
  <2> DEFINE leaves == ssz_execution_payload_leaves(PayloadJson(f))
             leaf == block_hash(f)
             branch == merkle_branch_32(leaves, 12)
             x == ssz_execution_payload_root(PayloadJson(f))
  <2>2. verify_merkle_branch(leaf, branch, 5, 12, x)
    BY PayloadFacts
  <2>3. w.execution_block_hash = leaf /\ w.exec_to_hash_branch = branch /\ w.execution_payload_root = x
    BY <1>5, <2>1 DEF WitnessOf
  <2> HIDE DEF leaf, branch, x
  <2> QED BY <2>2, <2>3
<1>13. helios_step(w)
  <2>1. w.finalized_header.slot > 0 /\ w.finalized_header.slot <= w.attested_header.slot
    BY <1>3, <1>4, <1>7
  <2> QED BY <1>8, <1>9, <1>10, <1>11, <1>12, <2>1 DEF helios_step
<1>14. helios_outputs(w) = [prev_trusted_root |-> root, new_beacon_root |-> block(f).root,
                            new_slot |-> f, execution_block_hash |-> block_hash(f)]
  BY <1>5, <1>7 DEF helios_outputs, WitnessOf
<1> QED BY <1>13, <1>14 DEF w, f, root, slot
-----------------------------------------------------------------------------
(***************************************************************************)
(* The trusted root, slot and every recorded block belong to one           *)
(* finalized header, for any number of relayers, slots and failures:       *)
(* the injective hash ties the payload of an accepted proof to the body    *)
(* of the finalized header (helios_step.rs) and the block to that payload. *)
(***************************************************************************)
THEOREM HeadAlwaysOneBlock == LightSpec => []HeadIsOneBlock
<1>1. LightInv => HeadIsOneBlock
  BY DEF LightInv, HeadInv
<1> QED BY <1>1, LightInitInv, LightStepInv, PTL DEF LightSpec

(***************************************************************************)
(* Every witness the relayer makes of a valid update (beacon_api.rs) is    *)
(* accepted by the circuit, which commits the finalized header's root.     *)
(***************************************************************************)
THEOREM WitnessAlwaysAccepted == LightSpec => []WitnessAccepted
BY LightInvAccepts, LightInitInv, LightStepInv, PTL DEF LightSpec
=============================================================================
