--------------------------- MODULE PrivacyCircuits ---------------------------
(***************************************************************************)
(* What a proof attests: the guest programs transfer.rs, unshield.rs,      *)
(* compliance.rs and transfer_sanctions.rs of crates/provers/sp1, and the  *)
(* host code that builds their witnesses (sp1_prover.rs) and checks the    *)
(* aggregated proof (combined_prover.rs).  For each program the predicate  *)
(* that none of its assertions fails, and the public values it commits.    *)
(* (The sanctions program is in module SanctionsTree.)                     *)
(***************************************************************************)
EXTENDS Integers, Sequences, Sums

CONSTANTS
    hash_pair(_, _),    \* SHA256(left || right)
    HashNote(_),        \* SHA256(amount || asset_id || owner_pubkey || salt)
    U64,                \* 2^64 in the code
    U32                 \* 2^32 in the code

\* The sum of the amounts of a list of notes, without a width.
Total(notes) == SumOver([i \in DOMAIN notes |-> notes[i].amount], DOMAIN notes)

\* The pubkey of a note is cut or padded to 32 bytes on its way to the guest.
note_to_data(note) == [note EXCEPT !.pubkey_len = 32]
notes_to_data(notes) == [i \in DOMAIN notes |-> note_to_data(notes[i])]

\* SHA256(spending_key || commitment)
hash_nullifier(spending_key, commitment) == [key |-> spending_key, of |-> commitment]

\* The guest's own copy of the climb from a leaf to the root.
verify_merkle_inclusion(leaf, leaf_index, siblings, root) ==
    LET at[level \in 0 .. Len(siblings)] ==
            IF level = 0 THEN [node |-> leaf, index |-> leaf_index]
            ELSE LET below == at[level - 1] IN
                 [node  |-> IF below.index % 2 = 0 THEN hash_pair(below.node, siblings[level])
                                                   ELSE hash_pair(siblings[level], below.node),
                  index |-> below.index \div 2]
    IN  at[Len(siblings)].node = root

\* Mutant: constraint 3 lets the outputs be smaller than the inputs.
balanced_loosely(witness) ==
    /\ Total(witness.inputs) < U64
    /\ Total(witness.outputs) <= Total(witness.inputs)

\* Constraint 3: both sums are computed with checked_add, and equal.
balanced(witness) ==
    /\ Total(witness.inputs) < U64 /\ Total(witness.outputs) < U64
    /\ Total(witness.inputs) = Total(witness.outputs)

(***************************************************************************)
(* The transfer program.  The spending keys are not compared with the      *)
(* owners' pubkeys, and the inputs not with each other.                    *)
(***************************************************************************)
transfer_circuit(witness) ==
    /\ witness.inputs # << >> /\ witness.outputs # << >>
    /\ Len(witness.spending_keys) = Len(witness.inputs)
    /\ \A note \in {witness.inputs[i] : i \in DOMAIN witness.inputs}
                   \cup {witness.outputs[i] : i \in DOMAIN witness.outputs} :
          note.asset_id = witness.inputs[1].asset_id
    /\ balanced(witness)
    /\ Len(witness.leaf_indices) = Len(witness.inputs)
    /\ Len(witness.merkle_paths) = Len(witness.inputs)
    /\ \A i \in DOMAIN witness.inputs :
          verify_merkle_inclusion(HashNote(witness.inputs[i]), witness.leaf_indices[i],
                                  witness.merkle_paths[i], witness.merkle_root)
    /\ \A i \in DOMAIN witness.outputs : witness.outputs[i].amount > 0

\* Mutant: the amount committed is that of the first output, without the change.
transfer_outputs_no_change(witness) ==
    [nullifiers         |-> [i \in DOMAIN witness.inputs |->
                               hash_nullifier(witness.spending_keys[i], HashNote(witness.inputs[i]))],
     output_commitments |-> [i \in DOMAIN witness.outputs |-> HashNote(witness.outputs[i])],
     transfer_amount    |-> witness.outputs[1].amount,
     asset_id           |-> witness.inputs[1].asset_id,
     merkle_root        |-> witness.merkle_root]

transfer_outputs(witness) ==
    [nullifiers         |-> [i \in DOMAIN witness.inputs |->
                               hash_nullifier(witness.spending_keys[i], HashNote(witness.inputs[i]))],
     output_commitments |-> [i \in DOMAIN witness.outputs |-> HashNote(witness.outputs[i])],
     transfer_amount    |-> Total(witness.inputs),
     asset_id           |-> witness.inputs[1].asset_id,
     merkle_root        |-> witness.merkle_root]

\* prove_transfer refuses lists of different lengths before it proves.
prove_transfer_accepts(input_notes, leaf_indices, merkle_paths) ==
    /\ Len(leaf_indices) = Len(input_notes)
    /\ Len(merkle_paths) = Len(input_notes)

transfer_witness(spending_keys, input_notes, output_notes, merkle_root, leaf_indices, merkle_paths) ==
    [spending_keys |-> spending_keys,
     inputs        |-> notes_to_data(input_notes),
     outputs       |-> notes_to_data(output_notes),
     merkle_root   |-> merkle_root,
     leaf_indices  |-> leaf_indices,
     merkle_paths  |-> merkle_paths]

\* The unshield program: the note need not be in the tree.
unshield_circuit(witness) == witness.note.amount > 0 /\ witness.note.pubkey_len = 32

unshield_outputs(witness) ==
    [nullifier |-> hash_nullifier(witness.spending_key, HashNote(witness.note)),
     amount    |-> witness.note.amount,
     asset_id  |-> witness.note.asset_id]

unshield_witness(spending_key, note) == [spending_key |-> spending_key, note |-> note_to_data(note)]

(***************************************************************************)
(* The compliance program: a list of amounts, none of which is revealed.   *)
(* prove_compliance refuses the empty list.                                *)
(***************************************************************************)
Volume(amounts) == SumOver(amounts, DOMAIN amounts)

compliance_circuit(amounts) == amounts # << >> /\ Volume(amounts) < U64

compliance_outputs(amounts, regulatory_limit) ==
    [total_volume     |-> Volume(amounts),
     regulatory_limit |-> regulatory_limit,
     within_limit     |-> Volume(amounts) <= regulatory_limit,
     tx_count         |-> Len(amounts) % U32]

(***************************************************************************)
(* Aggregation.  A compressed sub-proof is [vk, values]: the program that  *)
(* made it and the values it committed.  The aggregator takes the keys     *)
(* from its input and only records them; the verifier compares them with   *)
(* the keys registered in the rollup, where one is registered.             *)
(***************************************************************************)
combined_circuit(transfer, sanctions) ==
    /\ sanctions.values.is_clean
    /\ sanctions.values.proof_timestamp > 0
    /\ transfer.values.transfer_amount > 0
    /\ transfer.values.nullifiers # << >>
    /\ transfer.values.output_commitments # << >>

combined_outputs(transfer, sanctions) ==
    [transfer          |-> transfer.values,
     sanctions         |-> sanctions.values,
     transfer_vk_hash  |-> transfer.vk,
     sanctions_vk_hash |-> sanctions.vk]

NoKey == "none"

\* Mutant: only the key of the transfer program is compared.
verify_combined_sp1_one_key(outputs, expected_transfer_vk, expected_sanctions_vk) ==
    expected_transfer_vk # NoKey => outputs.transfer_vk_hash = expected_transfer_vk

verify_combined_sp1(outputs, expected_transfer_vk, expected_sanctions_vk) ==
    /\ expected_transfer_vk # NoKey => outputs.transfer_vk_hash = expected_transfer_vk
    /\ expected_sanctions_vk # NoKey => outputs.sanctions_vk_hash = expected_sanctions_vk
=============================================================================
