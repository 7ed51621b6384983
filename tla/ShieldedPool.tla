---------------------------- MODULE ShieldedPool ----------------------------
(***************************************************************************)
(* The privacy module of the rollup, ObscuraPrivacy in                     *)
(* crates/privacy/src/lib.rs: notes are shielded into the commitment tree, *)
(* transferred by revealing nullifiers and inserting new commitments, and  *)
(* unshielded.  One action is one accepted transaction: a handler that     *)
(* returns an error is reverted by the rollup runtime and changes nothing. *)
(*                                                                         *)
(* Proofs are checked by the verifier of the default build (zk/mod.rs):    *)
(* the four-byte header, and nothing of the public inputs.  Amounts are    *)
(* u64 and plain additions wrap, as in the release build.                  *)
(***************************************************************************)
EXTENDS CommitmentTree

CONSTANTS
    Assets, Nullifiers, Ciphertexts, Senders,
    Commitments,        \* 32-byte output commitments of transfers
    Notes,              \* notes users shield: [amount, asset_id, pubkey_len, salt]
    HashNote(_),        \* SHA256(amount || asset_id || owner_pubkey || salt)
    Amounts,            \* amounts named in transfer and unshield messages
    NullifierLists, OutputLists, EncryptedLists,
    SanctionsRoots, Timestamps,
    Clock,              \* readings of SystemTime::now at the executing node
    SANCTIONS_PROOF_MAX_AGE_SECS,
    U64                 \* 2^64 in the code: the width of a balance

ASSUME PoolAssumption ==
    /\ U64 \in Nat \ {0}
    /\ Amounts \subseteq 0 .. U64 - 1
    /\ \A note \in Notes : note.amount \in 0 .. U64 - 1 /\ note.asset_id \in Assets
    /\ Timestamps \subseteq Nat /\ Clock \subseteq Nat
    /\ SANCTIONS_PROOF_MAX_AGE_SECS \in Nat
    /\ \A list \in NullifierLists : list \in Seq(Nullifiers)
    /\ \A list \in OutputLists : list \in Seq(Commitments)
    /\ \A list \in EncryptedLists : list \in Seq(Ciphertexts \cup {<< >>})

VARIABLES
    tree,                       \* the record of module CommitmentTree
    nullifiers,                 \* the keys mapped to true
    shielded_supply,
    compliance_tx_count, compliance_total_volume,
    sanctions_root,
    encrypted_notes             \* commitment -> ciphertext

\* History of the accepted transactions, read by no action.
VARIABLES
    root_log,                   \* every root the tree has had, oldest first
    minted, burned,             \* per asset: what was added to and taken from the supply
    reveals                     \* per nullifier: the transactions that revealed it

treeVars == <<tree, root_log>>
supplyVars == <<shielded_supply, minted, burned>>
spendVars == <<nullifiers, reveals>>
complianceVars == <<compliance_tx_count, compliance_total_volume>>
poolVars == <<treeVars, supplyVars, spendVars, complianceVars, sanctions_root, encrypted_notes>>

Proofs == {"OBSv", "other"}
Empty  == << >>                 \* an empty encrypted note

\* Mutants of the u64 addition: none of its width, and one that saturates.
wrap_wider(n) == n
wrap_saturating(n) == IF n < U64 THEN n ELSE U64 - 1

\* u64 addition in a release build.
wrap(n) == n % U64

\* No genesis and no message sets the oracle's address.
sanctions_oracle == << >>
-----------------------------------------------------------------------------
PoolInit ==
    /\ tree = genesis_tree
    /\ nullifiers = {}
    /\ shielded_supply = [asset \in Assets |-> 0]
    /\ compliance_tx_count = 0
    /\ compliance_total_volume = 0
    /\ sanctions_root = Zero32
    /\ encrypted_notes = [commitment \in {} |-> Empty]
    /\ root_log = << >>
    /\ minted = [asset \in Assets |-> 0]
    /\ burned = [asset \in Assets |-> 0]
    /\ reveals = [n \in Nullifiers |-> 0]

verify_transfer_proof(proof)  == proof = "OBSv"
verify_unshield_proof(proof)  == proof = "OBSv"
verify_sanctions_proof(proof) == proof = "OBSv"

\* Commitment::from_note accepts this note.
well_formed(note) == note.amount # 0 /\ note.pubkey_len = 32

\* Insert the outputs of a transaction, in order, recording each root.
Insert(outputs) ==
    /\ fits(tree, Len(outputs))
    /\ tree' = insert_all(tree, outputs)
    /\ root_log' = [j \in 1 .. tree.roots_count + Len(outputs) |->
                      IF j <= tree.roots_count THEN root_log[j]
                      ELSE insertions(tree, outputs)[j - tree.roots_count].root]

\* Store the ciphertexts that come with the outputs; the last one wins.
StoreEncrypted(outputs, encrypted) ==
    LET given(c) == {i \in 1 .. Len(outputs) : /\ outputs[i] = c
                                               /\ i <= Len(encrypted)
                                               /\ encrypted[i] # Empty}
        stored == {c \in {outputs[i] : i \in 1 .. Len(outputs)} : given(c) # {}}
        last(c) == CHOOSE i \in given(c) : \A j \in given(c) : j <= i
    IN  encrypted_notes' = [c \in DOMAIN encrypted_notes \cup stored |->
                              IF c \in stored THEN encrypted[last(c)] ELSE encrypted_notes[c]]

Credit(asset, amount) ==
    /\ shielded_supply' = [shielded_supply EXCEPT ![asset] = wrap(@ + amount)]
    /\ minted' = [minted EXCEPT ![asset] = @ + amount]
    /\ UNCHANGED burned

\* Mutant: the subtraction wraps.
Debit_wrapping(asset, amount) ==
    /\ shielded_supply' = [shielded_supply EXCEPT ![asset] = (@ - amount) % U64]
    /\ burned' = [burned EXCEPT ![asset] = @ + amount]
    /\ UNCHANGED minted

\* u64::saturating_sub
Debit(asset, amount) ==
    /\ shielded_supply' = [shielded_supply EXCEPT ![asset] = IF amount <= @ THEN @ - amount ELSE 0]
    /\ burned' = [burned EXCEPT ![asset] = @ + amount]
    /\ UNCHANGED minted

\* Mutant: nullifiers are marked without being checked.
Spend_unchecked(list) ==
    LET spent == {list[i] : i \in 1 .. Len(list)} IN
    /\ nullifiers' = nullifiers \cup spent
    /\ reveals' = [n \in Nullifiers |-> IF n \in spent THEN reveals[n] + 1 ELSE reveals[n]]

\* The whole list is checked first and marked afterwards.
Spend(list) ==
    LET spent == {list[i] : i \in 1 .. Len(list)} IN
    /\ spent \cap nullifiers = {}
    /\ nullifiers' = nullifiers \cup spent
    /\ reveals' = [n \in Nullifiers |-> IF n \in spent THEN reveals[n] + 1 ELSE reveals[n]]

handle_shield(note, encrypted) ==
    /\ well_formed(note)
    /\ Insert(<<HashNote(note)>>)
    /\ StoreEncrypted(<<HashNote(note)>>, <<encrypted>>)
    /\ Credit(note.asset_id, note.amount)
    /\ UNCHANGED <<spendVars, complianceVars, sanctions_root>>

\* Mutant: a proof of exactly the greatest age is refused.
sanctions_accepted_strict(root, timestamp, now) ==
    /\ sanctions_root # Zero32 => root = sanctions_root
    /\ timestamp > 0 => now - timestamp < SANCTIONS_PROOF_MAX_AGE_SECS

\* The sanctions proof is made against the root in force, once one is set,
\* and is at most a day old on the clock of the node; 0 is never too old.
sanctions_accepted(root, timestamp, now) ==
    /\ sanctions_root # Zero32 => root = sanctions_root
    /\ timestamp > 0 => now - timestamp <= SANCTIONS_PROOF_MAX_AGE_SECS

handle_transfer(msg, now) ==
    /\ msg.merkle_root # Zero32 => is_known_root(tree, msg.merkle_root)
    /\ verify_transfer_proof(msg.proof)
    /\ sanctions_accepted(msg.sanctions_root, msg.proof_timestamp, now)
    /\ verify_sanctions_proof(msg.sanctions_proof)
    /\ Spend(msg.nullifiers)
    /\ Insert(msg.output_commitments)
    /\ StoreEncrypted(msg.output_commitments, msg.encrypted_outputs)
    /\ compliance_tx_count' = wrap(compliance_tx_count + 1)
    /\ compliance_total_volume' = wrap(compliance_total_volume + msg.transfer_amount)
    /\ UNCHANGED <<supplyVars, sanctions_root>>

handle_unshield(proof, nullifier, asset, amount) ==
    /\ verify_unshield_proof(proof)
    /\ Spend(<<nullifier>>)
    /\ Debit(asset, amount)
    /\ UNCHANGED <<treeVars, complianceVars, sanctions_root, encrypted_notes>>

handle_update_sanctions_root(sender, new_root) ==
    /\ sanctions_oracle # << >> => sender = sanctions_oracle
    /\ sanctions_root' = new_root
    /\ UNCHANGED <<treeVars, supplyVars, spendVars, complianceVars, encrypted_notes>>
-----------------------------------------------------------------------------
(***************************************************************************)
(* What users submit.  A transfer claims some root: one the tree has had,  *)
(* the root of the empty tree, or none ([0; 32], accepted unchecked).      *)
(***************************************************************************)
ClaimedRoots == {root_log[j] : j \in 1 .. tree.roots_count} \cup {empty_root, Zero32}

TransferMessages ==
    [merkle_root : ClaimedRoots, proof : Proofs, sanctions_root : SanctionsRoots,
     proof_timestamp : Timestamps, sanctions_proof : Proofs,
     nullifiers : NullifierLists, output_commitments : OutputLists,
     encrypted_outputs : EncryptedLists, transfer_amount : Amounts]

Shield == \E note \in Notes, encrypted \in Ciphertexts \cup {Empty} : handle_shield(note, encrypted)

Transfer == \E msg \in TransferMessages, now \in Clock : handle_transfer(msg, now)

Unshield == \E proof \in Proofs, nullifier \in Nullifiers, asset \in Assets, amount \in Amounts :
                handle_unshield(proof, nullifier, asset, amount)

UpdateSanctionsRoot == \E sender \in Senders, new_root \in SanctionsRoots :
                           handle_update_sanctions_root(sender, new_root)

PoolNext == Shield \/ Transfer \/ Unshield \/ UpdateSanctionsRoot

PoolSpec == PoolInit /\ [][PoolNext]_poolVars
-----------------------------------------------------------------------------
\* Everything that can become a leaf.
Leaves == Commitments \cup {HashNote(note) : note \in Notes}

\* Type invariant: the shape of the tree, of the maps, and u64 counters.
PoolTypeOK ==
    /\ TreeShape(tree, Leaves)
    /\ DOMAIN root_log = 1 .. tree.roots_count
    /\ nullifiers \subseteq Nullifiers
    /\ shielded_supply \in [Assets -> 0 .. U64 - 1]
    /\ compliance_tx_count \in 0 .. U64 - 1
    /\ compliance_total_volume \in 0 .. U64 - 1
    /\ minted \in [Assets -> Nat] /\ burned \in [Assets -> Nat]
    /\ reveals \in [Nullifiers -> Nat]

(***************************************************************************)
(* The incremental tree of insert_commitment agrees with the off-chain     *)
(* rebuild of build_proof_paths at every leaf count: the roots recorded    *)
(* one by one are those of the prefixes of the flat list of commitments.   *)
(***************************************************************************)
RootsMatchRebuild ==
    /\ tree.root = rebuilt_root(tree.commitments)
    /\ \A j \in 1 .. tree.roots_count : root_log[j] = rebuilt_root(SubSeq(tree.commitments, 1, j))

(***************************************************************************)
(* A path a wallet rebuilds from the flat list is accepted by              *)
(* MerkleProof::verify against the on-chain root for the leaf it was built *)
(* for, and for no other leaf.                                             *)
(***************************************************************************)
PathsVerify ==
    LET paths  == build_proof_paths(tree.commitments)
    IN  \A i \in 1 .. tree.next_index, leaf \in Leaves \cup {Zero32} :
            verify([leaf_index |-> i - 1, siblings |-> paths[i], root |-> tree.root], leaf)
                <=> leaf = tree.commitments[i]

(***************************************************************************)
(* The ring buffer behind is_known_root holds exactly the last             *)
(* ROOTS_HISTORY_SIZE roots: a transfer proved against one of them is not  *)
(* turned away, one proved against an older root, or against the empty     *)
(* tree, is.                                                               *)
(***************************************************************************)
KnownRootsAreRecent ==
    \A root \in ClaimedRoots :
        is_known_root(tree, root) <=> \E j \in recent(tree) : root_log[j] = root

\* The inductive form of KnownRootsAreRecent.
RingInv == RingHoldsRecent(tree, root_log)

(***************************************************************************)
(* A nullifier is revealed by at most one accepted transaction, transfer   *)
(* or unshield, and the nullifier set is exactly what was revealed.        *)
(***************************************************************************)
RevealedAtMostOnce ==
    \A n \in Nullifiers : reveals[n] = IF n \in nullifiers THEN 1 ELSE 0

(***************************************************************************)
(* The published supply of an asset never exceeds what was shielded, and,  *)
(* until the u64 overflows, never understates what is still outstanding,   *)
(* however unshields saturate at zero in between.                          *)
(***************************************************************************)
SupplyAccounting ==
    \A asset \in Assets :
        /\ shielded_supply[asset] <= minted[asset]
        /\ minted[asset] < U64 => minted[asset] - burned[asset] <= shielded_supply[asset]
=============================================================================
