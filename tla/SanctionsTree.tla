---------------------------- MODULE SanctionsTree ----------------------------
(***************************************************************************)
(* The sorted Merkle tree over the sanctions list                          *)
(* (crates/sanctions-oracle/src/lib.rs), and the circuit that proves with  *)
(* a witness from it that an address is not on the list                    *)
(* (crates/provers/sp1/guest-privacy/src/bin/sanctions.rs).                *)
(*                                                                         *)
(* A key, the hash of an address, is a number: only its order matters.     *)
(* The hashes of leaves and of inner nodes have prefixes of their own and  *)
(* no collisions, so they are records.                                     *)
(***************************************************************************)
EXTENDS Integers, Sequences, FiniteSets

CONSTANTS
    Addresses,
    hash_addr(_),           \* SHA256("addr" || address)
    MAX_KEY,                \* the sentinel [0xff; 32]; [0x00; 32] is 0
    INDEX_WIDTH             \* 2^64 in the code: the width of a leaf index

ASSUME KeysAssumption ==
    /\ MAX_KEY \in Nat \ {0}
    /\ \A a \in Addresses : hash_addr(a) \in 1 .. MAX_KEY - 1
    /\ \A a, b \in Addresses : hash_addr(a) = hash_addr(b) => a = b

hash_leaf(key)    == [leaf |-> key]
hash_node(l, r)   == [left |-> l, right |-> r]
-----------------------------------------------------------------------------
pow2[n \in Nat] == IF n = 0 THEN 1 ELSE 2 * pow2[n - 1]

next_power_of_two(n) == pow2[CHOOSE k \in 0 .. n : pow2[k] >= n /\ \A j \in 0 .. k - 1 : pow2[j] < n]

\* sort and dedup: the members of a set in ascending order.
ascending(S) == [n \in 1 .. Cardinality(S) |-> CHOOSE x \in S : Cardinality({y \in S : y < x}) = n - 1]

\* resize: filled up with the upper sentinel to the next power of two.
padded(keys) ==
    [i \in 0 .. next_power_of_two(Len(keys)) - 1 |-> IF i < Len(keys) THEN keys[i + 1] ELSE MAX_KEY]

keys_of(addresses) == {hash_addr(addresses[i]) : i \in 1 .. Len(addresses)} \cup {0, MAX_KEY}

\* Mutant: the keys are neither sorted nor are duplicates removed.
sorted_addr_hashes_as_listed(addresses) ==
    padded([i \in 1 .. Len(addresses) |-> hash_addr(addresses[i])] \o <<0, MAX_KEY>>)

\* The leaves for a list of addresses, with both sentinels.
sorted_addr_hashes(addresses) == padded(ascending(keys_of(addresses)))

tree_depth(size) == CHOOSE d \in 0 .. size : pow2[d] = size

\* SanctionsMerkleTree::build; level 0 holds the leaves, the last one the root.
build(addresses) ==
    LET sorted == sorted_addr_hashes(addresses)
        depth  == tree_depth(Cardinality(DOMAIN sorted))
        level[k \in 0 .. depth] ==
            [i \in 0 .. pow2[depth - k] - 1 |->
                IF k = 0 THEN hash_leaf(sorted[i])
                         ELSE hash_node(level[k - 1][2 * i], level[k - 1][2 * i + 1])]
    IN  [sorted_addr_hashes |-> sorted, levels |-> level, depth |-> depth]

root(tree) == tree.levels[tree.depth][0]

\* Mutant: the sibling is the next node, also from a right child.
inclusion_proof_next(tree, index) ==
    [k \in 1 .. tree.depth |->
        LET idx == index \div pow2[k - 1]
        IN  tree.levels[k - 1][IF idx % 2 = 0 THEN idx + 1 ELSE idx]]

\* The siblings on the way from leaf `index' to the root.
inclusion_proof(tree, index) ==
    [k \in 1 .. tree.depth |->
        LET idx == index \div pow2[k - 1]
        IN  tree.levels[k - 1][IF idx % 2 = 0 THEN idx + 1 ELSE idx - 1]]

partition_point(keys, key) == Cardinality({i \in DOMAIN keys : keys[i] < key})

is_sanctioned(tree, address) == \E i \in DOMAIN tree.sorted_addr_hashes :
                                    tree.sorted_addr_hashes[i] = hash_addr(address)

NoWitness == [error |-> "Address is in the sanctions list"]

non_membership_witness(tree, address) ==
    LET keys == tree.sorted_addr_hashes
        pos  == partition_point(keys, hash_addr(address))
    IN  IF (pos \in DOMAIN keys /\ keys[pos] = hash_addr(address)) \/ pos = 0
          THEN NoWitness
          ELSE [sanctions_root |-> root(tree),
                left_leaf  |-> keys[pos - 1], right_leaf  |-> keys[pos],
                left_proof |-> inclusion_proof(tree, pos - 1),
                right_proof |-> inclusion_proof(tree, pos),
                left_index |-> pos - 1, right_index |-> pos,
                tree_depth |-> tree.depth]
-----------------------------------------------------------------------------
\* The circuit's check that a leaf is at `index' under the root.
verify_merkle_proof(leaf_hash, index, proof, wanted, depth) ==
    LET current[k \in 0 .. Len(proof)] ==
            IF k = 0 THEN leaf_hash
            ELSE IF (index \div pow2[k - 1]) % 2 = 0
                   THEN hash_node(current[k - 1], proof[k])
                   ELSE hash_node(proof[k], current[k - 1])
    IN  Len(proof) = depth /\ current[Len(proof)] = wanted

\* Mutant: an address may be one of its two neighbours.
between_inclusive(left, key, right) == left <= key /\ key <= right

between(left, key, right) == left < key /\ key < right

\* main of the circuit: a witness for which every assertion holds.  The
\* guest is built in release mode, so the addition of indices wraps.
sanctions_circuit(recipient, w) ==
    /\ (w.left_index + 1) % INDEX_WIDTH = w.right_index
    /\ between(w.left_leaf, hash_addr(recipient), w.right_leaf)
    /\ verify_merkle_proof(hash_leaf(w.left_leaf), w.left_index, w.left_proof,
                           w.sanctions_root, w.tree_depth)
    /\ verify_merkle_proof(hash_leaf(w.right_leaf), w.right_index, w.right_proof,
                           w.sanctions_root, w.tree_depth)
=============================================================================
