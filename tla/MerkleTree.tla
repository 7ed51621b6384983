----------------------------- MODULE MerkleTree -----------------------------
(***************************************************************************)
(* The pure functions of crates/privacy/src/merkle.rs: the zero hashes of  *)
(* an empty tree, the O(depth) insertion, the verification of an inclusion *)
(* path, and the off-chain rebuild of the whole tree from the flat list of *)
(* leaves.                                                                 *)
(*                                                                         *)
(* A node is the 32-byte output of SHA-256.  The hash is a parameter, and  *)
(* nothing is assumed of it here; the instances for TLC make it injective. *)
(***************************************************************************)
EXTENDS Integers, Sequences

CONSTANTS
    TREE_DEPTH,         \* number of levels above the leaves (20 in the code)
    Zero32,             \* the node [0u8; 32]
    hash_pair(_, _)     \* SHA256(left || right)

ASSUME DepthAssumption == TREE_DEPTH \in Nat \ {0}

Levels == 0 .. TREE_DEPTH - 1

\* 1 << n
pow2[n \in 0 .. TREE_DEPTH] == IF n = 0 THEN 1 ELSE 2 * pow2[n - 1]

Capacity == pow2[TREE_DEPTH]

\* Is the node on the path of leaf `index' a left child at this level?
\* (`index & 1 == 0' after `level' right shifts.)
is_left(index, level) == (index \div pow2[level]) % 2 = 0

zero_value[level \in 0 .. TREE_DEPTH] ==
    IF level = 0
      THEN Zero32
      ELSE LET below == zero_value[level - 1] IN hash_pair(below, below)

empty_root == zero_value[TREE_DEPTH]

\* Mutant: a filled subtree is overwritten when the path is on its right, too.
compute_insert_overwrites(leaf, next_index, filled) ==
    LET current[level \in 0 .. TREE_DEPTH] ==
            IF level = 0
              THEN leaf
              ELSE IF is_left(next_index, level - 1)
                     THEN hash_pair(current[level - 1], zero_value[level - 1])
                     ELSE hash_pair(filled[level - 1], current[level - 1])
    IN  [root |-> current[TREE_DEPTH], filled |-> [level \in Levels |-> current[level]]]

(***************************************************************************)
(* Insertion of `leaf' at position `next_index', given the left siblings   *)
(* `filled' stored so far: the new root, and the filled subtrees after it. *)
(***************************************************************************)
compute_insert(leaf, next_index, filled) ==
    LET current[level \in 0 .. TREE_DEPTH] ==
            IF level = 0
              THEN leaf
              ELSE IF is_left(next_index, level - 1)
                     THEN hash_pair(current[level - 1], zero_value[level - 1])
                     ELSE hash_pair(filled[level - 1], current[level - 1])
    IN  [root   |-> current[TREE_DEPTH],
         filled |-> [level \in Levels |->
                       IF is_left(next_index, level) THEN current[level]
                                                     ELSE filled[level]]]

\* Mutant: the index is not shifted from level to level.
climb_unshifted(leaf, leaf_index, siblings) ==
    LET current[level \in 0 .. Len(siblings)] ==
            IF level = 0
              THEN leaf
              ELSE IF is_left(leaf_index, 0)
                     THEN hash_pair(current[level - 1], siblings[level])
                     ELSE hash_pair(siblings[level], current[level - 1])
    IN  current[Len(siblings)]

(***************************************************************************)
(* The node reached from `leaf' by hashing with the given siblings, the    *)
(* loop shared by MerkleProof::verify and by the transfer circuit.         *)
(***************************************************************************)
climb(leaf, leaf_index, siblings) ==
    LET current[level \in 0 .. Len(siblings)] ==
            IF level = 0
              THEN leaf
              ELSE IF is_left(leaf_index, level - 1)
                     THEN hash_pair(current[level - 1], siblings[level])
                     ELSE hash_pair(siblings[level], current[level - 1])
    IN  current[Len(siblings)]

\* MerkleProof::verify; a proof is a record [leaf_index, siblings, root].
verify(proof, leaf) ==
    /\ Len(proof.siblings) = TREE_DEPTH
    /\ climb(leaf, proof.leaf_index, proof.siblings) = proof.root

(***************************************************************************)
(* The off-chain rebuild: the complete tree over the leaves, laid out as a *)
(* heap whose root is node 1, and the sibling path of each leaf.           *)
(***************************************************************************)
heap_nodes(leaves) ==
    LET nodes[pos \in 1 .. 2 * Capacity - 1] ==
            IF pos >= Capacity
              THEN IF pos - Capacity < Len(leaves) THEN leaves[pos - Capacity + 1]
                                                   ELSE zero_value[0]
              ELSE hash_pair(nodes[2 * pos], nodes[2 * pos + 1])
    IN  nodes

build_proof_paths(leaves) ==
    LET nodes == heap_nodes(leaves)
        sibling(pos) == IF pos % 2 = 0 THEN nodes[pos + 1] ELSE nodes[pos - 1]
    IN  [i \in 1 .. Len(leaves) |->
            [level \in 1 .. TREE_DEPTH |->
                sibling((Capacity + i - 1) \div pow2[level - 1])]]

\* The root the rebuild arrives at: the reference for the incremental one.
rebuilt_root(leaves) == heap_nodes(leaves)[1]
=============================================================================
