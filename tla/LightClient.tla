----------------------------- MODULE LightClient -----------------------------
(***************************************************************************)
(* The trusted beacon head of the rollup, as relayers move it              *)
(* (submit_helios_update of crates/zk-bridge/src/relayer.rs): each asks    *)
(* the rollup for its head and a beacon node for the latest finality       *)
(* update, builds the witness, and submits the update, with a mock proof   *)
(* or with a proof of the circuit (a native build); anyone else may submit *)
(* a proof of the circuit too.                                             *)
(*                                                                         *)
(* External: the beacon chain, a chain of headers whose states name the    *)
(* header FinalityLag slots before as finalized, its trees written down    *)
(* by generalized index as in the consensus specification; its API, which  *)
(* may answer with an older update, with a malformed one, or not at all,   *)
(* a bounded number of times; and the provers.                             *)
(***************************************************************************)
EXTENDS ObscuraBridge, BeaconApi

CONSTANTS
    Relayers, MockRelayers,     \* the relayers, and those with config.mock_proofs
    FinalityLag,
    MaxSlot, MaxFailures        \* bounds of the model

ASSUME LightClientAssumption ==
    /\ MockRelayers \subseteq Relayers
    /\ FinalityLag \in Nat \ {0} /\ MaxSlot \in Nat /\ MaxFailures \in Nat
    /\ ZeroChunk = Zero32 /\ U64Width \in Nat
    /\ InitialSlot = 0      \* configs/mock/genesis.json

VARIABLES
    chain,          \* the beacon blocks, from genesis
    failures,       \* what went wrong so far
    rpc, known, update, witness     \* of each relayer: the await it is at, and
                                    \* the variables of submit_helios_update

clientVars == <<rpc, known, update, witness>>
lightVars  == <<rollupVars, chain, failures, clientVars>>
-----------------------------------------------------------------------------
Opaque(what, slot, i) == [bytes |-> <<what, slot, i>>]

\* The nodes of a Merkle tree by generalized index; those of a tree in which
\* only one node is of interest, the others being opaque; and a proof.
Tree(depth, leaves) ==
    LET node[g \in 1 .. 2 ^ (depth + 1) - 1] ==
            IF g >= 2 ^ depth THEN leaves[1 + g - 2 ^ depth] ELSE sha256_pair(node[2 * g], node[2 * g + 1])
    IN  node

TreeAround(gindex, depth, value, what, slot) ==
    LET above == {gindex \div 2 ^ k : k \in 1 .. depth}
        node[g \in 1 .. 2 ^ (depth + 1) - 1] ==
            IF g \in above THEN sha256_pair(node[2 * g], node[2 * g + 1])
                           ELSE IF g = gindex THEN value ELSE Opaque(what, slot, g)
    IN  node

Proof(nodes, gindex, depth) ==
    [i \in 1 .. depth |->
        LET g == gindex \div 2 ^ (i - 1) IN IF g % 2 = 0 THEN nodes[g + 1] ELSE nodes[g - 1]]

finalized_of(slot) == IF slot > FinalityLag THEN slot - FinalityLag ELSE 0
block_hash(slot)   == Opaque("block_hash", slot, 0)

\* Bytes and numbers as the API sends them.
Hex(len, val)  == [len |-> len, val |-> val]
HexList(nodes) == [i \in DOMAIN nodes |-> Hex(32, nodes[i])]

PayloadJson(slot) ==
    LET bytes32(what) == Hex(32, Opaque(what, slot, 0)) IN
    [parent_hash       |-> bytes32("parent_hash"),
     fee_recipient     |-> Hex(20, Opaque("fee_recipient", slot, 0)),
     state_root        |-> bytes32("state_root"),
     receipts_root     |-> bytes32("receipts_root"),
     logs_bloom        |-> Hex(256, [i \in 1 .. 8 |-> Opaque("logs_bloom", slot, i)]),
     prev_randao       |-> bytes32("prev_randao"),
     block_number      |-> 100 + slot,
     gas_limit         |-> 200,
     gas_used          |-> 300 + slot,
     timestamp         |-> 400 + slot,
     extra_data        |-> Hex(slot, Opaque("extra_data", slot, 0)),
     base_fee_per_gas  |-> 500 + slot,
     block_hash        |-> Hex(32, block_hash(slot)),
     transactions_root |-> bytes32("transactions_root"),
     withdrawals_root  |-> bytes32("withdrawals_root"),
     blob_gas_used     |-> 600 + slot,
     excess_blob_gas   |-> 0]

\* The fields of a payload header in the specification's order, as leaves.
PayloadFields ==
    <<"parent_hash", "fee_recipient", "state_root", "receipts_root", "logs_bloom", "prev_randao",
      "block_number", "gas_limit", "gas_used", "timestamp", "extra_data", "base_fee_per_gas",
      "block_hash", "transactions_root", "withdrawals_root", "blob_gas_used", "excess_blob_gas">>

PayloadLeaf(payload, i) ==
    LET field == IF i <= Len(PayloadFields) THEN PayloadFields[i] ELSE "padding" IN
    CASE field = "padding" -> ZeroChunk
      [] field = "logs_bloom" -> Tree(3, payload.logs_bloom.val)[1]
      [] field = "extra_data" -> sha256_pair(payload.extra_data.val, uint64_leaf(payload.extra_data.len))
      [] field \in NumberFields \cup {"base_fee_per_gas"} -> uint64_leaf(payload[field])
      [] OTHER -> payload[field].val

\* A block, given the root of the header its state calls finalized.
Block(slot, finalized_root) ==
    LET payload == PayloadJson(slot)
        exec    == Tree(5, [i \in 1 .. 32 |-> PayloadLeaf(payload, i)])
        body    == TreeAround(25, 4, exec[1], "body", slot)
        state   == TreeAround(105, 6, finalized_root, "state", slot)
        parent  == Opaque("parent", slot, 0)
    IN  [header           |-> [slot |-> slot, proposer_index |-> slot + 7, parent_root |-> Hex(32, parent),
                               state_root |-> Hex(32, state[1]), body_root |-> Hex(32, body[1])],
         root             |-> Tree(3, <<uint64_leaf(slot), uint64_leaf(slot + 7), parent, state[1], body[1],
                                        ZeroChunk, ZeroChunk, ZeroChunk>>)[1],
         payload          |-> payload,
         payload_root     |-> exec[1],
         execution_branch |-> HexList(Proof(body, 25, 4)),
         finality_branch  |-> HexList(Proof(state, 105, 6))]

block(slot) == chain[slot + 1]
head_slot   == Len(chain) - 1

UpdateJson(slot) ==
    LET f == finalized_of(slot) IN
    [attested_header  |-> [beacon |-> block(slot).header],
     finalized_header |-> [beacon |-> block(f).header, execution |-> block(f).payload,
                           execution_branch |-> block(f).execution_branch],
     finality_branch  |-> block(slot).finality_branch,
     sync_aggregate   |-> [sync_committee_bits |-> [len |-> 64, ones |-> 342],
                           sync_committee_signature |-> Hex(96, Opaque("signature", slot, 0))]]

\* The ways in which an answer may be of no use.
Flaws == {"none", "quorum", "unsigned", "branch", "bloom", "extra", "number"}

Answer(slot, flaw) ==
    LET u == UpdateJson(slot) IN
    CASE flaw = "none"     -> u
      [] flaw = "quorum"   -> [u EXCEPT !.sync_aggregate.sync_committee_bits.ones = 341]
      [] flaw = "unsigned" -> [u EXCEPT !.sync_aggregate.sync_committee_signature.val = ZeroChunk]
      [] flaw = "branch"   -> [u EXCEPT !.finality_branch = Append(@, Hex(32, ZeroChunk))]
      [] flaw = "bloom"    -> [u EXCEPT !.finalized_header.execution.logs_bloom.len = 255]
      [] flaw = "extra"    -> [u EXCEPT !.finalized_header.execution.extra_data.len = 33]
      [] flaw = "number"   -> [u EXCEPT !.finalized_header.execution.gas_used = U64Width]

GenesisJson == [genesis_validators_root |-> Hex(32, Opaque("genesis", 0, 0)),
                genesis_fork_version |-> Hex(4, Opaque("fork", 0, 0))]
CommitteeKey   == Opaque("committee", 0, 0)
PlaceholderKey == Opaque("ones", 0, 0)          \* [1u8; 48]

\* The rollup's map takes any block; keys and signatures are not all zeroes.
ASSUME ChainAssumption ==
    /\ {block_hash(slot) : slot \in 0 .. MaxSlot} \subseteq EthBlocks
    /\ ZeroChunk \notin {CommitteeKey, PlaceholderKey} \cup {Opaque("signature", slot, 0) : slot \in 0 .. MaxSlot}
-----------------------------------------------------------------------------
Awaits   == {"get_helios_state", "get_finality_update", "get_genesis", "submit_helios_update"}
NoHead   == [root |-> Zero32, slot |-> 0]
NoUpdate == [slot |-> 0, flaw |-> "none"]
NoWitness == << >>

LightInit ==
    /\ BridgeInit
    /\ chain = <<Block(0, ZeroChunk)>> /\ failures = 0
    /\ rpc = [r \in Relayers |-> "get_helios_state"]
    /\ known = [r \in Relayers |-> NoHead]
    /\ update = [r \in Relayers |-> NoUpdate]
    /\ witness = [r \in Relayers |-> NoWitness]

\* A block is added to the beacon chain.
Propose ==
    /\ head_slot < MaxSlot
    /\ chain' = Append(chain, Block(head_slot + 1, block(finalized_of(head_slot + 1)).root))
    /\ UNCHANGED <<rollupVars, failures, clientVars>>

Goto(r, next) == rpc' = [rpc EXCEPT ![r] = next]

\* submit_helios_update returned: called again when deposits come in.
Return(r) ==
    /\ Goto(r, "get_helios_state")
    /\ known' = [known EXCEPT ![r] = NoHead]
    /\ update' = [update EXCEPT ![r] = NoUpdate]
    /\ witness' = [witness EXCEPT ![r] = NoWitness]

Fails == failures < MaxFailures /\ failures' = failures + 1

get_helios_state(r) ==
    /\ rpc[r] = "get_helios_state"
    /\ known' = [known EXCEPT ![r] = [root |-> trusted_beacon_root, slot |-> trusted_slot]]
    /\ Goto(r, "get_finality_update")
    /\ UNCHANGED <<rollupVars, chain, failures, update, witness>>

\* The rollup does not answer: zeroes are taken for its head.
NoHeliosState(r) ==
    /\ rpc[r] = "get_helios_state"
    /\ Fails
    /\ Goto(r, "get_finality_update")
    /\ UNCHANGED <<rollupVars, chain, known, update, witness>>

\* The update is for the latest block or, as a failure, an older or flawed one.
GetFinalityUpdate(r, slot, flaw) ==
    /\ rpc[r] = "get_finality_update"
    /\ IF slot = head_slot /\ flaw = "none" THEN UNCHANGED failures ELSE Fails
    /\ IF finalized_of(slot) <= known[r].slot
         THEN Return(r)
         ELSE /\ update' = [update EXCEPT ![r] = [slot |-> slot, flaw |-> flaw]]
              /\ Goto(r, "get_genesis")
              /\ UNCHANGED <<known, witness>>
    /\ UNCHANGED <<rollupVars, chain>>

\* A request that must succeed did not (for the update, the genesis or the
\* submission), or the process died there.
RequestFails(r) ==
    /\ rpc[r] # "get_helios_state"
    /\ Fails
    /\ Return(r)
    /\ UNCHANGED <<rollupVars, chain>>

\* The genesis, then the committee's key, or a placeholder when there is no
\* answer for it; what does not parse ends the attempt.
BuildWitness(r, key) ==
    /\ rpc[r] = "get_genesis"
    /\ IF build_helios_witness_ok(Answer(update[r].slot, update[r].flaw), GenesisJson)
         THEN /\ witness' = [witness EXCEPT ![r] =
                    build_helios_witness(Answer(update[r].slot, update[r].flaw), GenesisJson, key, known[r].root)]
              /\ Goto(r, "submit_helios_update")
              /\ UNCHANGED <<known, update>>
         ELSE Return(r)
    /\ IF key = CommitteeKey THEN UNCHANGED failures ELSE Fails
    /\ UNCHANGED <<rollupVars, chain>>

\* The root submitted is that of the execution payload.
public_inputs(r) ==
    [prev_trusted_root |-> known[r].root, new_beacon_root |-> witness[r].execution_payload_root,
     new_slot |-> finalized_of(update[r].slot),
     execution_block_hash |-> witness[r].execution_block_hash]

\* The rollup takes an update whose proof verifies, by the header of a mock
\* proof or as a proof of the circuit, or refuses it.
Submitted(inputs, verified) ==
    IF verified /\ head_advances(inputs)
      THEN handle_update_helios_head("OBShelios", inputs)
      ELSE UNCHANGED rollupVars

\* With mock proofs the circuit is not run at all.
proof_verifies(r) ==
    \/ r \in MockRelayers
    \/ /\ helios_step(witness[r])
       /\ verify_helios_sp1_proof(helios_outputs(witness[r]), public_inputs(r))

SubmitHeliosUpdate(r) ==
    /\ rpc[r] = "submit_helios_update"
    /\ Submitted(public_inputs(r), proof_verifies(r))
    /\ Return(r)
    /\ UNCHANGED <<chain, failures>>

-----------------------------------------------------------------------------
\* Anyone submits a proof of the circuit, with what it commits, the witness
\* being put together from those of several updates.
Mixture(attested, finalized, exec, hash) ==
    [attested EXCEPT
        !.finalized_header = finalized.finalized_header,
        !.execution_payload_root = exec.execution_payload_root,
        !.body_to_exec_branch = exec.body_to_exec_branch,
        !.execution_block_hash = hash.execution_block_hash,
        !.exec_to_hash_branch = hash.exec_to_hash_branch]

SubmitProof(w) ==
    /\ helios_step(w)
    /\ head_advances(helios_outputs(w))
    /\ Submitted(helios_outputs(w), TRUE)
    /\ UNCHANGED <<chain, failures, clientVars>>

Witnesses == {build_helios_witness(UpdateJson(slot), GenesisJson, CommitteeKey, trusted_beacon_root) :
                slot \in 1 .. head_slot}
-----------------------------------------------------------------------------
LightNext ==
    \/ Propose
    \/ \E a, f, e, h \in Witnesses : SubmitProof(Mixture(a, f, e, h))
    \/ \E r \in Relayers :
          \/ get_helios_state(r) \/ NoHeliosState(r)
          \/ \E slot \in 0 .. head_slot, flaw \in Flaws : GetFinalityUpdate(r, slot, flaw)
          \/ RequestFails(r)
          \/ \E key \in {CommitteeKey, PlaceholderKey} : BuildWitness(r, key)
          \/ SubmitHeliosUpdate(r)

\* Deposits keep coming, so each relayer keeps calling submit_helios_update,
\* and the awaits of a call come back: r goes from one to the next, with
\* nothing failing.  Of every state there is such a step.
Works(r) ==
    /\ \E next \in Awaits \ {rpc[r]} : Goto(r, next)
    /\ UNCHANGED failures

LightSpec == LightInit /\ [][LightNext]_lightVars /\ \A r \in MockRelayers : WF_rpc(Works(r))
-----------------------------------------------------------------------------
(***************************************************************************)
(* Completeness: what build_helios_witness makes of an update of the       *)
(* beacon chain with a quorum, the payload's root and branch it computes   *)
(* itself included, is accepted by the circuit, which commits the root,    *)
(* slot and execution block of the finalized header.  No test runs the     *)
(* host's SSZ code against the guest's.                                    *)
(***************************************************************************)
WitnessAccepted ==
    \A r \in Relayers : rpc[r] = "submit_helios_update" /\ update[r].flaw = "none" =>
        LET f == finalized_of(update[r].slot) IN
        /\ helios_step(witness[r])
        /\ helios_outputs(witness[r]) =
              [prev_trusted_root |-> known[r].root, new_beacon_root |-> block(f).root,
               new_slot |-> f, execution_block_hash |-> block_hash(f)]

(***************************************************************************)
(* Soundness: the trusted root, slot and every block recorded as final     *)
(* belong to one finalized header, whatever parts of different updates a   *)
(* submitted proof was made from, and whatever head a relayer read before  *)
(* it submitted.                                                           *)
(***************************************************************************)
HeadIsOneBlock ==
    /\ trusted_slot <= finalized_of(head_slot)
    /\ trusted_slot > 0 => /\ trusted_beacon_root \in {block(trusted_slot).root, block(trusted_slot).payload_root}
                           /\ finalized_eth_blocks[block_hash(trusted_slot)] = trusted_slot
    /\ \A b \in EthBlocks : LET slot == finalized_eth_blocks[b] IN
          slot # 0 => slot <= trusted_slot /\ b = block_hash(slot)

\* The head is further behind than one update may bring it.
Outage == trusted_slot > 0 /\ finalized_of(head_slot) - trusted_slot > MaxSlotGap

(***************************************************************************)
(* Once blocks and failures stop, the rollup's head reaches the finalized  *)
(* one, unless the beacon chain got more than max_slot_gap slots ahead:    *)
(* the API only serves the latest update, so nothing gets the head past    *)
(* such a gap (handle_update_helios_head asks for intermediate updates).   *)
(***************************************************************************)
HeadCatchesUp == <>[](Outage \/ trusted_slot = finalized_of(head_slot))
=============================================================================
