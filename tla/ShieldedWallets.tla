--------------------------- MODULE ShieldedWallets ---------------------------
(***************************************************************************)
(* The shielded pool as its users meet it: wallets that shield notes, find *)
(* the notes sent to them by decrypting what is on chain, prove transfers  *)
(* and unshields with the circuits, and have the messages executed later,  *)
(* in any order, again after a retry, or never.                            *)
(*                                                                         *)
(* A wallet has one spending key, uses a fresh salt per note and names no  *)
(* note twice in one transfer; the circuits check none of that.  Messages  *)
(* carry the public values of their proofs (the default verifier does not  *)
(* compare them, see ShieldedPool).  The repository has no wallet: the     *)
(* actions of one are how its library functions are meant to be called.    *)
(*                                                                         *)
(* A transfer also carries a sanctions proof, against the root in force    *)
(* when it was made and with the time of that moment.  The root changes    *)
(* and the proof ages while the message waits, so its sender may have to   *)
(* make that proof again.  One clock serves wallets and nodes.             *)
(***************************************************************************)
EXTENDS ShieldedPool, Sums

CONSTANTS
    Wallets,            \* a wallet is named by its spending key
    Shielders,          \* bound: the wallets that shield; all of them receive
    ShieldAmounts, PayAmounts,
    ProofSlots,         \* proofs a test of the model keeps in flight
    MaxSalt,            \* bound: notes made
    MaxTime,            \* bound: seconds the clock counts
    U16, U32

NoteOf(owner, amount, asset, salt) ==
    [amount |-> amount, asset_id |-> asset, owner |-> owner, pubkey_len |-> 32, salt |-> salt]

\* The notes of the wallets, whatever their amount.
WalletNotes == [amount : 0 .. U64 - 1, asset_id : Assets, owner : Wallets,
                pubkey_len : {32}, salt : 1 .. MaxSalt]

\* Amounts are u64, every note of a wallet is one of Notes, two encrypted
\* copies fit their length prefixes, and the leaves of the tree fit a u32.
ASSUME WalletAssumption ==
    /\ ProofSlots \subseteq Nat /\ Shielders \subseteq Wallets
    /\ MaxSalt \in Nat /\ MaxTime \in Nat
    /\ ShieldAmounts \subseteq 0 .. U64 - 1 /\ PayAmounts \subseteq 0 .. U64 - 1
    /\ WalletNotes \subseteq Notes
    /\ U16 \in Nat /\ U16 > 200
    /\ U32 \in Nat /\ U32 > Capacity

Circuits == INSTANCE PrivacyCircuits
Enc == INSTANCE NoteEncryption

VARIABLES
    inflight,           \* per slot: a proved message, or Nothing
    next_salt,
    now,                \* the clock, in seconds; 0 in a proof stands for no time
    transferred         \* history: the output commitments of each executed transfer

walletVars == <<inflight, next_salt, now, transferred>>
wVars == <<walletVars, poolVars>>

Nothing == [kind |-> "nothing"]

\* The encrypted note that goes with a note, under fresh ephemeral keys.
Encrypted(note) ==
    Enc!to_bytes(Enc!create([amount |-> note.amount, asset_id |-> note.asset_id, salt |-> note.salt],
                            Enc!public_key(Enc!from_spending_key(note.owner)),
                            Enc!COMPLIANCE_ORACLE_PUBKEY, note.salt))

\* What a key finds in the entry of a commitment.
Read(commitment, viewing_sk) ==
    IF commitment \notin DOMAIN encrypted_notes THEN {}
    ELSE UNION {Enc!try_decrypt(e, viewing_sk) : e \in Enc!from_bytes(encrypted_notes[commitment])}

(***************************************************************************)
(* The notes a wallet finds on chain: [note, leaf_index], the content      *)
(* completed with its own pubkey, where that hashes to the commitment.     *)
(***************************************************************************)
Scan(w) ==
    LET own(content) == NoteOf(w, content.amount, content.asset_id, content.salt)
        found(i) == {own(content) : content \in Read(tree.commitments[i], Enc!from_spending_key(w))}
    IN  UNION {{[note |-> note, leaf_index |-> i - 1] :
                   note \in {n \in found(i) : HashNote(n) = tree.commitments[i]}} :
               i \in 1 .. tree.next_index}

Unspent(w) == {found \in Scan(w) :
                  Circuits!hash_nullifier(w, HashNote(found.note)) \notin nullifiers}

\* What a wallet rebuilds from the flat list of commitments.
Snapshot == [paths |-> build_proof_paths(tree.commitments), root |-> rebuilt_root(tree.commitments)]

Witness(w, inputs, outputs, snapshot) ==
    Circuits!transfer_witness([i \in DOMAIN inputs |-> w],
                              [i \in DOMAIN inputs |-> inputs[i].note], outputs,
                              snapshot.root,
                              [i \in DOMAIN inputs |-> inputs[i].leaf_index],
                              [i \in DOMAIN inputs |-> snapshot.paths[inputs[i].leaf_index + 1]])
-----------------------------------------------------------------------------
WalletsInit ==
    /\ PoolInit
    /\ inflight = [s \in ProofSlots |-> Nothing]
    /\ next_salt = 1
    /\ now = 1
    /\ transferred = << >>

ShieldNote(w, asset, amount) ==
    LET note == NoteOf(w, amount, asset, next_salt) IN
    /\ next_salt <= MaxSalt
    /\ handle_shield(note, Encrypted(note))
    /\ next_salt' = next_salt + 1
    /\ UNCHANGED <<inflight, now, transferred>>

\* The slots are alike: the lowest free one is used.
Free(slot) == inflight[slot] = Nothing /\ \A s \in ProofSlots : s < slot => inflight[s] # Nothing

\* A transfer's message: the public values of its proof, the encrypted
\* outputs, and a sanctions proof made now.
Message(values, encrypted) ==
    [kind |-> "transfer", merkle_root |-> values.merkle_root, proof |-> "OBSv",
     sanctions_root |-> sanctions_root, proof_timestamp |-> now, sanctions_proof |-> "OBSv",
     nullifiers |-> values.nullifiers, output_commitments |-> values.output_commitments,
     encrypted_outputs |-> encrypted, transfer_amount |-> values.transfer_amount]

\* One or two notes in, one or two out; the circuit says which choices can be proved.
ProveTransfer(w, slot) ==
  LET snapshot == Snapshot
      unspent  == Unspent(w)
  IN
    \E f \in unspent, g \in unspent, recipient \in Wallets \ {w}, paid, change \in PayAmounts :
        LET inputs  == IF f = g THEN <<f>> ELSE <<f, g>>
            asset   == f.note.asset_id
            outputs == IF change = 0
                         THEN <<NoteOf(recipient, paid, asset, next_salt)>>
                         ELSE <<NoteOf(recipient, paid, asset, next_salt),
                                NoteOf(w, change, asset, next_salt + 1)>>
            witness == Witness(w, inputs, outputs, snapshot)
            values  == Circuits!transfer_outputs(witness)
        IN  /\ f.leaf_index <= g.leaf_index
            /\ Free(slot)
            /\ next_salt + Len(outputs) - 1 <= MaxSalt
            /\ Circuits!prove_transfer_accepts(inputs, witness.leaf_indices, witness.merkle_paths)
            /\ Circuits!transfer_circuit(witness)
            /\ inflight' = [inflight EXCEPT ![slot] =
                 Message(values, [i \in DOMAIN outputs |-> Encrypted(outputs[i])])]
            /\ next_salt' = next_salt + Len(outputs)
            /\ UNCHANGED <<poolVars, now, transferred>>

ProveUnshield(w, slot) ==
    \E found \in Unspent(w) :
        LET witness == Circuits!unshield_witness(w, found.note)
            values  == Circuits!unshield_outputs(witness)
        IN  /\ Free(slot)
            /\ Circuits!unshield_circuit(witness)
            /\ inflight' = [inflight EXCEPT ![slot] =
                 [kind |-> "unshield", proof |-> "OBSv", nullifiers |-> <<values.nullifier>>,
                  asset_id |-> values.asset_id, amount |-> values.amount]]
            /\ UNCHANGED <<poolVars, next_salt, now, transferred>>

\* The rollup executes a message; it stays with its sender, who may send it again.
ExecuteTransfer(slot) ==
    /\ inflight[slot].kind = "transfer"
    /\ UNCHANGED <<inflight, next_salt, now>>
    /\ transferred' = Append(transferred, inflight[slot].output_commitments)
    /\ handle_transfer(inflight[slot], now)

ExecuteUnshield(slot) ==
    /\ inflight[slot].kind = "unshield"
    /\ UNCHANGED walletVars
    /\ handle_unshield(inflight[slot].proof, inflight[slot].nullifiers[1],
                       inflight[slot].asset_id, inflight[slot].amount)

(***************************************************************************)
(* The three reasons to give up on a message: an input is spent (by this   *)
(* message or another), the tree has grown by the length of the ring since *)
(* it was proved, or it has no room left.                                  *)
(***************************************************************************)
SpentInput(msg) == \E i \in DOMAIN msg.nullifiers : msg.nullifiers[i] \in nullifiers
RootTooOld(msg) == \A j \in recent(tree) : root_log[j] # msg.merkle_root
NoRoom(msg)     == tree.next_index + Len(msg.output_commitments) > Capacity

Retire(slot) ==
    /\ inflight[slot] # Nothing
    /\ \/ SpentInput(inflight[slot])
       \/ inflight[slot].kind = "transfer" /\ (RootTooOld(inflight[slot]) \/ NoRoom(inflight[slot]))
    /\ inflight' = [inflight EXCEPT ![slot] = Nothing]
    /\ UNCHANGED <<poolVars, next_salt, now, transferred>>

(***************************************************************************)
(* The two reasons to make the sanctions proof again: the oracle has       *)
(* published another root, or the proof is too old.                        *)
(***************************************************************************)
OtherList(msg)   == sanctions_root # Zero32 /\ msg.sanctions_root # sanctions_root
ProofTooOld(msg) == now - msg.proof_timestamp > SANCTIONS_PROOF_MAX_AGE_SECS

Renew(slot) ==
    /\ inflight[slot].kind = "transfer"
    /\ OtherList(inflight[slot]) \/ ProofTooOld(inflight[slot])
    /\ inflight' = [inflight EXCEPT ![slot] = Message(@, @.encrypted_outputs)]
    /\ UNCHANGED <<poolVars, next_salt, now, transferred>>

Settle(slot) == Retire(slot) \/ Renew(slot) \/ ExecuteUnshield(slot) \/ ExecuteTransfer(slot)

\* Time passes, and the oracle publishes a root, whatever is in flight.
Tick ==
    /\ now < MaxTime
    /\ now' = now + 1
    /\ UNCHANGED <<poolVars, inflight, next_salt, transferred>>

ListUpdated == UpdateSanctionsRoot /\ UNCHANGED walletVars

WalletsNext ==
    \/ \E w \in Shielders, asset \in Assets, amount \in ShieldAmounts : ShieldNote(w, asset, amount)
    \/ \E w \in Wallets, slot \in ProofSlots : ProveTransfer(w, slot) \/ ProveUnshield(w, slot)
    \/ \E slot \in ProofSlots : Settle(slot)
    \/ Tick \/ ListUpdated

\* The sequencer includes what is submitted, the sender watches its messages.
WalletsFairness == \A slot \in ProofSlots : WF_wVars(Settle(slot))

WalletsSpec == WalletsInit /\ [][WalletsNext]_wVars /\ WalletsFairness
-----------------------------------------------------------------------------
NoteBehind(commitment) == CHOOSE note \in Notes : HashNote(note) = commitment

\* Leaves whose note no accepted transaction has spent with its owner's key.
Live == {i \in 1 .. tree.next_index :
            LET c == tree.commitments[i]
            IN  Circuits!hash_nullifier(NoteBehind(c).owner, c) \notin nullifiers}

(***************************************************************************)
(* Conservation: what is in unspent notes and what was paid out is what    *)
(* was shielded, asset by asset, however proofs made from old states are   *)
(* executed late, twice, or after another spend of the same note.          *)
(***************************************************************************)
ValueConserved ==
    \A asset \in Assets :
        SumOver([i \in Live |-> NoteBehind(tree.commitments[i]).amount],
                {i \in Live : NoteBehind(tree.commitments[i]).asset_id = asset})
          = minted[asset] - burned[asset]

(***************************************************************************)
(* No note is stranded: from what is on chain alone its owner finds it,    *)
(* and the witness rebuilt from the flat list satisfies the circuits; the  *)
(* oracle reads it too, and no other wallet does.                          *)
(***************************************************************************)
NotesReachOwners ==
  LET snapshot == Snapshot
      unspent  == [w \in Wallets |-> Unspent(w)]
  IN
    \A i \in Live :
        LET c    == tree.commitments[i]
            note == NoteBehind(c)
            mine == [note |-> note, leaf_index |-> i - 1]
        IN  /\ mine \in unspent[note.owner]
            /\ Circuits!transfer_circuit(Witness(note.owner, <<mine>>, <<note>>, snapshot))
            /\ Circuits!unshield_circuit(Circuits!unshield_witness(note.owner, note))
            /\ \A e \in Enc!from_bytes(encrypted_notes[c]) :
                  Enc!decrypt_as_oracle(e, Enc!compliance_oracle_secret)
                    = Enc!try_decrypt(e, Enc!from_spending_key(note.owner))
            /\ \A other \in Wallets \ {note.owner} : Read(c, Enc!from_spending_key(other)) = {}

(***************************************************************************)
(* The auditor's view: the volumes the oracle decrypts, given to the       *)
(* compliance circuit, prove the totals the pool publishes, until a total  *)
(* no longer fits a u64 (the circuit refuses, the pool wraps).             *)
(***************************************************************************)
AuditAgrees ==
    LET decrypted(c) == UNION {Enc!decrypt_as_oracle(e, Enc!compliance_oracle_secret) :
                                  e \in Enc!from_bytes(encrypted_notes[c])}
        volume(outputs) == SumOver([i \in DOMAIN outputs |-> (CHOOSE x \in decrypted(outputs[i]) : TRUE).amount],
                                   DOMAIN outputs)
        amounts == [t \in DOMAIN transferred |-> volume(transferred[t])]
        proved  == Circuits!compliance_outputs(amounts, U64 - 1)
    IN  /\ Circuits!compliance_circuit(amounts) =>
              /\ proved.total_volume = compliance_total_volume
              /\ proved.tx_count = compliance_tx_count
        /\ proved.total_volume % U64 = compliance_total_volume

\* The sub-proofs to aggregate: by a registered program, or by an older one
\* that may commit anything.
PublicValues(msg) == [nullifiers         |-> msg.nullifiers,
                      output_commitments |-> msg.output_commitments,
                      transfer_amount    |-> msg.transfer_amount]

TransferSubProofs(values) ==
    {[vk |-> "transfer", values |-> values],
     [vk |-> "older", values |-> [values EXCEPT !.transfer_amount = U64]]}

SanctionsSubProofs ==
    [vk : {"sanctions", "older"}, values : [is_clean : {TRUE}, proof_timestamp : 0 .. 1]]

(***************************************************************************)
(* An aggregated proof that passes the verifier with both keys registered  *)
(* was made by the two registered programs: whatever another version of a  *)
(* program may commit, what the pool gets is a balanced transfer, with a   *)
(* timestamp that does not switch the age check off.                       *)
(***************************************************************************)
AggregateBinds ==
    \A slot \in {s \in ProofSlots : inflight[s].kind = "transfer"} :
        \A t \in TransferSubProofs(PublicValues(inflight[slot])), s \in SanctionsSubProofs :
            LET proof == Circuits!combined_outputs(t, s) IN
            Circuits!combined_circuit(t, s) /\ Circuits!verify_combined_sp1(proof, "transfer", "sanctions")
              => /\ proof.transfer = PublicValues(inflight[slot])
                 /\ s.vk = "sanctions"
                 /\ ~ sanctions_accepted(sanctions_root, proof.sanctions.proof_timestamp,
                                         2 + SANCTIONS_PROOF_MAX_AGE_SECS)

(***************************************************************************)
(* Every proof gets settled: a message the wallets made is executed, or    *)
(* one of the three reasons to give up holds, once its sanctions proof was *)
(* made again as often as the list and the clock asked for it; the pool    *)
(* refuses for no other reason.  (The list changes finitely often here.)   *)
(***************************************************************************)
ProofsSettle == \A slot \in ProofSlots : inflight[slot] # Nothing ~> inflight[slot] = Nothing
=============================================================================
