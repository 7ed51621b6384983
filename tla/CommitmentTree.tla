--------------------------- MODULE CommitmentTree ---------------------------
(***************************************************************************)
(* The commitment tree the privacy module keeps in its state               *)
(* (crates/privacy/src/lib.rs): the flat list of commitments, the          *)
(* incremental Merkle tree over it, and the ring buffer of recent roots.   *)
(* The tree is one record, so that a transaction that inserts several      *)
(* commitments, in this module or through the bridge, is one step:         *)
(*                                                                         *)
(*   commitments   the flat list, in insertion order                       *)
(*   filled        merkle_filled_subtrees, level -> node                   *)
(*   root          merkle_root                                             *)
(*   next_index    merkle_next_index                                       *)
(*   roots         merkle_roots, the slots written so far -> root          *)
(*   roots_count   merkle_roots_count                                      *)
(***************************************************************************)
EXTENDS MerkleTree

CONSTANT ROOTS_HISTORY_SIZE     \* slots of the ring buffer (100 in the code)

ASSUME HistoryAssumption == ROOTS_HISTORY_SIZE \in Nat \ {0}

genesis_tree ==
    [commitments |-> << >>,
     filled      |-> [level \in Levels |-> zero_value[level]],
     root        |-> empty_root,
     next_index  |-> 0,
     roots       |-> [slot \in {} |-> Zero32],
     roots_count |-> 0]

\* Mutant: the tree is taken to be full one leaf too late.
fits_one_more(tree, n) == tree.next_index + n <= Capacity + 1

\* insert_commitment bails out when the tree is full, and the transaction
\* that called it is reverted: all of its insertions fit, or none happens.
fits(tree, n) == tree.next_index + n <= Capacity

\* commitments.push followed by insert_commitment, as every caller does it.
insert_commitment(tree, commitment) ==
    LET inserted == compute_insert(commitment, tree.next_index, tree.filled)
        slot     == tree.roots_count % ROOTS_HISTORY_SIZE
    IN  [commitments |-> Append(tree.commitments, commitment),
         filled      |-> inserted.filled,
         root        |-> inserted.root,
         next_index  |-> tree.next_index + 1,
         roots       |-> [s \in DOMAIN tree.roots \cup {slot} |->
                            IF s = slot THEN inserted.root ELSE tree.roots[s]],
         roots_count |-> tree.roots_count + 1]

\* The trees a transaction goes through when it inserts `outputs' in order.
insertions(tree, outputs) ==
    LET after[i \in 0 .. Len(outputs)] ==
            IF i = 0 THEN tree ELSE insert_commitment(after[i - 1], outputs[i])
    IN  after

insert_all(tree, outputs) == insertions(tree, outputs)[Len(outputs)]

\* Mutant: the last slot of the ring is never looked at.
is_known_root_short(tree, root) ==
    \E i \in 0 .. tree.roots_count - 1 :
        /\ i < ROOTS_HISTORY_SIZE - 1
        /\ i % ROOTS_HISTORY_SIZE \in DOMAIN tree.roots
        /\ tree.roots[i % ROOTS_HISTORY_SIZE] = root

is_known_root(tree, root) ==
    \E i \in 0 .. tree.roots_count - 1 :
        /\ i < ROOTS_HISTORY_SIZE
        /\ i % ROOTS_HISTORY_SIZE \in DOMAIN tree.roots
        /\ tree.roots[i % ROOTS_HISTORY_SIZE] = root
-----------------------------------------------------------------------------
(***************************************************************************)
(* What the record looks like after any number of insertions of leaves     *)
(* from the set Leaf.  Nodes are uninterpreted.                            *)
(***************************************************************************)
TreeShape(tree, Leaf) ==
    /\ tree.next_index \in 0 .. Capacity
    /\ tree.roots_count = tree.next_index
    /\ tree.commitments \in Seq(Leaf)
    /\ Len(tree.commitments) = tree.next_index
    /\ DOMAIN tree.filled = Levels
    /\ DOMAIN tree.roots = {s \in 0 .. ROOTS_HISTORY_SIZE - 1 : s < tree.roots_count}

\* The insertions whose roots the ring buffer should still hold.
recent(tree) == {j \in 1 .. tree.roots_count : j > tree.roots_count - ROOTS_HISTORY_SIZE}

(***************************************************************************)
(* The ring against the log of all roots: each recent root is in its slot, *)
(* and each slot in use is the slot of a recent root.                      *)
(***************************************************************************)
RingHoldsRecent(tree, log) ==
    /\ \A j \in recent(tree) : tree.roots[(j - 1) % ROOTS_HISTORY_SIZE] = log[j]
    /\ \A s \in DOMAIN tree.roots : \E j \in recent(tree) : (j - 1) % ROOTS_HISTORY_SIZE = s
=============================================================================
