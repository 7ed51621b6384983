---------------------------- MODULE HeliosCircuit ----------------------------
(***************************************************************************)
(* One step of the beacon chain light client: the guest program            *)
(* helios_step.rs with its SSZ helpers (crates/provers/sp1/guest-helios),  *)
(* and the host's comparison of what a proof commits with what is          *)
(* submitted (crates/zk-bridge/src/helios.rs).  SHA-256 is injective; the  *)
(* BLS signature is only looked at for being non-zero, as in the program.  *)
(***************************************************************************)
EXTENDS Integers, Sequences

CONSTANT ZeroChunk      \* 32 zero bytes

MIN_SYNC_COMMITTEE_PARTICIPATION == 342

sha256_pair(left, right) == [left |-> left, right |-> right]

\* A u64, little endian, in 32 bytes.
uint64_leaf(v) == IF v = 0 THEN ZeroChunk ELSE [u64 |-> v]

merkle_root_8(leaves) ==
    LET n(i) == sha256_pair(leaves[2 * i - 1], leaves[2 * i])
    IN  sha256_pair(sha256_pair(n(1), n(2)), sha256_pair(n(3), n(4)))

hash_tree_root_beacon_header(h) ==
    merkle_root_8(<<uint64_leaf(h.slot), uint64_leaf(h.proposer_index),
                    h.parent_root, h.state_root, h.body_root,
                    ZeroChunk, ZeroChunk, ZeroChunk>>)

\* Bit i of the index tells the side of the i-th sibling.
verify_merkle_branch(leaf, branch, depth, leaf_index, root) ==
    LET value[i \in 0 .. Len(branch)] ==
            IF i = 0 THEN leaf
            ELSE IF (leaf_index \div 2 ^ (i - 1)) % 2 = 1
                   THEN sha256_pair(branch[i], value[i - 1])
                   ELSE sha256_pair(value[i - 1], branch[i])
    IN  Len(branch) = depth /\ value[Len(branch)] = root

\* Mutant: the payload is not tied to the body of the finalized block.
helios_step_any_body(witness) ==
    /\ witness.finalized_header.slot > 0
    /\ witness.finalized_header.slot <= witness.attested_header.slot
    /\ verify_merkle_branch(hash_tree_root_beacon_header(witness.finalized_header),
                            witness.finality_branch, 6, 41, witness.attested_header.state_root)
    /\ witness.sync_committee_participation >= MIN_SYNC_COMMITTEE_PARTICIPATION
    /\ witness.sync_aggregate_signature # ZeroChunk
    /\ witness.sync_committee_pubkey # ZeroChunk
    /\ verify_merkle_branch(witness.execution_block_hash,
                            witness.exec_to_hash_branch, 5, 12, witness.execution_payload_root)

\* The program commits its outputs when none of its assertions fails.
helios_step(witness) ==
    /\ witness.finalized_header.slot > 0
    /\ witness.finalized_header.slot <= witness.attested_header.slot
    /\ verify_merkle_branch(hash_tree_root_beacon_header(witness.finalized_header),
                            witness.finality_branch, 6, 41, witness.attested_header.state_root)
    /\ witness.sync_committee_participation >= MIN_SYNC_COMMITTEE_PARTICIPATION
    /\ witness.sync_aggregate_signature # ZeroChunk
    /\ witness.sync_committee_pubkey # ZeroChunk
    /\ verify_merkle_branch(witness.execution_payload_root,
                            witness.body_to_exec_branch, 4, 9, witness.finalized_header.body_root)
    /\ verify_merkle_branch(witness.execution_block_hash,
                            witness.exec_to_hash_branch, 5, 12, witness.execution_payload_root)

helios_outputs(witness) ==
    [prev_trusted_root    |-> witness.prev_trusted_root,
     new_beacon_root      |-> hash_tree_root_beacon_header(witness.finalized_header),
     new_slot             |-> witness.finalized_header.slot,
     execution_block_hash |-> witness.execution_block_hash]

\* A proof is what it commits: the proof system is sound and the key is that
\* of the program.
verify_helios_sp1_proof(proof, inputs) == \A field \in DOMAIN inputs : proof[field] = inputs[field]
=============================================================================
