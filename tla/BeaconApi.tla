------------------------------ MODULE BeaconApi ------------------------------
(***************************************************************************)
(* From an answer of the beacon API to the witness of the light client     *)
(* circuit: crates/zk-bridge/src/beacon_api.rs.                            *)
(*                                                                         *)
(* A byte string of the JSON is [len, val], its length and what it holds;  *)
(* a decimal string is a number.  Widths are U64 and U128.  A list of      *)
(* bytes (extra_data) is [len, val] too, val being its zero-padded chunk.  *)
(***************************************************************************)
EXTENDS HeliosCircuit

CONSTANTS U64Width, U128Width

\* The fields of an execution payload header, in the order of their leaves.
BytesFields   == {"parent_hash", "state_root", "receipts_root", "prev_randao",
                  "block_hash", "transactions_root", "withdrawals_root"}
NumberFields  == {"block_number", "gas_limit", "gas_used", "timestamp",
                  "blob_gas_used", "excess_blob_gas"}
-----------------------------------------------------------------------------
\* Each parser, and the inputs it does not refuse.
parse_bytes32_ok(s) == s.len = 32
parse_bytes32(s)    == s.val

parse_uint256_ok(v) == v < U128Width
parse_uint256_le(v) == uint64_leaf(v)

parse_branch_ok(nodes, n) == Len(nodes) = n /\ \A i \in DOMAIN nodes : parse_bytes32_ok(nodes[i])
parse_branch(nodes) == [i \in DOMAIN nodes |-> parse_bytes32(nodes[i])]

parse_beacon_header_ok(h) ==
    /\ h.slot < U64Width /\ h.proposer_index < U64Width
    /\ parse_bytes32_ok(h.parent_root) /\ parse_bytes32_ok(h.state_root) /\ parse_bytes32_ok(h.body_root)

parse_beacon_header(h) ==
    [slot |-> h.slot, proposer_index |-> h.proposer_index,
     parent_root |-> parse_bytes32(h.parent_root), state_root |-> parse_bytes32(h.state_root),
     body_root |-> parse_bytes32(h.body_root)]
-----------------------------------------------------------------------------
\* The levels of the tree over the leaves: pairs are hashed from level to level.
merkle_levels(leaves) ==
    LET level[k \in 0 .. 5] ==
            IF k = 0 THEN leaves
            ELSE [i \in 1 .. Len(leaves) \div 2 ^ k |->
                    sha256_pair(level[k - 1][2 * i - 1], level[k - 1][2 * i])]
    IN  level

merkle_root_vec(leaves) == merkle_levels(leaves)[CHOOSE k \in 0 .. 5 : 2 ^ k = Len(leaves)][1]

sibling(idx) == IF idx % 2 = 0 THEN idx + 1 ELSE idx - 1

\* Mutant: the sibling's index is halved instead of the node's own.
merkle_branch_32_halved(leaves, leaf_index) ==
    [depth \in 1 .. 5 |-> merkle_levels(leaves)[depth - 1][1 + sibling(leaf_index) \div 2 ^ (depth - 1)]]

\* The siblings of leaf_index, a 0-based position, from the leaves upwards.
merkle_branch_32(leaves, leaf_index) ==
    [depth \in 1 .. 5 |-> merkle_levels(leaves)[depth - 1][1 + sibling(leaf_index \div 2 ^ (depth - 1))]]

\* 256 bytes are eight chunks; a list of bytes is mixed with its length.
ssz_bytes_vector_root(chunks) == merkle_root_vec(chunks)
ssz_byte_list_root(data)      == sha256_pair(data.val, uint64_leaf(data.len))

ssz_execution_payload_ok(exec) ==
    /\ \A field \in BytesFields : parse_bytes32_ok(exec[field])
    /\ exec.fee_recipient.len = 20
    /\ exec.logs_bloom.len = 256
    /\ \A field \in NumberFields : exec[field] < U64Width
    /\ exec.extra_data.len <= 32
    /\ parse_uint256_ok(exec.base_fee_per_gas)

\* The 17 fields and the padding up to 32 leaves.
ssz_execution_payload_leaves(exec) ==
    <<parse_bytes32(exec.parent_hash), exec.fee_recipient.val,
      parse_bytes32(exec.state_root), parse_bytes32(exec.receipts_root),
      ssz_bytes_vector_root(exec.logs_bloom.val), parse_bytes32(exec.prev_randao),
      uint64_leaf(exec.block_number), uint64_leaf(exec.gas_limit),
      uint64_leaf(exec.gas_used), uint64_leaf(exec.timestamp),
      ssz_byte_list_root(exec.extra_data), parse_uint256_le(exec.base_fee_per_gas),
      parse_bytes32(exec.block_hash), parse_bytes32(exec.transactions_root),
      parse_bytes32(exec.withdrawals_root), uint64_leaf(exec.blob_gas_used),
      uint64_leaf(exec.excess_blob_gas)>>
    \o [i \in 1 .. 15 |-> ZeroChunk]

ssz_execution_payload_root(exec) == merkle_root_vec(ssz_execution_payload_leaves(exec))
-----------------------------------------------------------------------------
build_helios_witness_ok(update, genesis) ==
    /\ parse_beacon_header_ok(update.attested_header.beacon)
    /\ parse_beacon_header_ok(update.finalized_header.beacon)
    /\ parse_branch_ok(update.finality_branch, 6)
    /\ update.sync_aggregate.sync_committee_signature.len = 96
    /\ genesis.genesis_fork_version.len = 4
    /\ parse_bytes32_ok(genesis.genesis_validators_root)
    /\ parse_branch_ok(update.finalized_header.execution_branch, 4)
    /\ ssz_execution_payload_ok(update.finalized_header.execution)

build_helios_witness(update, genesis, sync_committee_pubkey, prev_trusted_root) ==
    LET exec == update.finalized_header.execution IN
    [prev_trusted_root            |-> prev_trusted_root,
     attested_header              |-> parse_beacon_header(update.attested_header.beacon),
     finalized_header             |-> parse_beacon_header(update.finalized_header.beacon),
     finality_branch              |-> parse_branch(update.finality_branch),
     sync_committee_participation |-> update.sync_aggregate.sync_committee_bits.ones,
     sync_aggregate_signature     |-> update.sync_aggregate.sync_committee_signature.val,
     sync_committee_pubkey        |-> sync_committee_pubkey,
     fork_version                 |-> genesis.genesis_fork_version.val,
     genesis_validators_root      |-> parse_bytes32(genesis.genesis_validators_root),
     execution_payload_root       |-> ssz_execution_payload_root(exec),
     body_to_exec_branch          |-> parse_branch(update.finalized_header.execution_branch),
     execution_block_hash         |-> parse_bytes32(exec.block_hash),
     exec_to_hash_branch          |-> merkle_branch_32(ssz_execution_payload_leaves(exec), 12)]
=============================================================================
