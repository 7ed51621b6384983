----------------------- MODULE ShieldedWallets_proofs -----------------------
(***************************************************************************)
(* What the wallets and the pool keep together, for any number of wallets, *)
(* assets, notes and proofs in flight and for a tree of any depth: value   *)
(* is conserved, no note is stranded, the auditor's totals are the pool's, *)
(* and an aggregated proof binds both statements.                          *)
(*                                                                         *)
(* The invariant speaks of the note behind each commitment, so it needs    *)
(* that no two notes have the same hash.  The circuits compare neither a   *)
(* spending key with an owner nor the inputs with each other: what they    *)
(* attest becomes conservation only with what the wallets do, one key, one *)
(* salt per note, no input twice, and with the nullifiers of the pool.     *)
(***************************************************************************)
EXTENDS ShieldedWallets, ObscuraBridge_proofs
-----------------------------------------------------------------------------

\* What a note tells its reader.
ContentOf(note) == [amount |-> note.amount, asset_id |-> note.asset_id, salt |-> note.salt]

\* What travels with a note: the two copies.
Copies(note) == Enc!create(ContentOf(note), Enc!public_key(Enc!from_spending_key(note.owner)),
                           Enc!COMPLIANCE_ORACLE_PUBKEY, note.salt)

\* One key, masked and unmasked: the keystream cancels.
LEMMA XorTwice ==
    ASSUME NEW content, NEW k
    PROVE  Enc!stream_xor(Enc!stream_xor(Enc!content_to_bytes(content), k), k)
             = Enc!content_to_bytes(content)
<1> DEFINE d == Enc!content_to_bytes(content)
<1>1. d = [body |-> content, masks |-> {}, len |-> Enc!NOTE_CONTENT_SIZE]
  BY DEF Enc!content_to_bytes
<1>2. Enc!stream_xor(d, k) = [d EXCEPT !.masks = {k}]
  BY <1>1 DEF Enc!stream_xor
<1>3. Enc!stream_xor([d EXCEPT !.masks = {k}], k) = [d EXCEPT !.masks = {}]
  BY <1>1 DEF Enc!stream_xor
<1>4. [d EXCEPT !.masks = {}] = d
  BY <1>1
<1> QED BY <1>2, <1>3, <1>4

\* A blob opens with the secret it was made for.
LEMMA BlobOpens ==
    ASSUME NEW content, NEW sk, NEW eph
    PROVE  LET blob == Enc!encrypt_note(Enc!content_to_bytes(content), Enc!public_key(sk), eph)
           IN  Enc!Contents(blob, sk) = {content} /\ blob.len = 200
<1> DEFINE d == Enc!content_to_bytes(content)
           e == Enc!public_key(eph)
           k == Enc!derive_key(Enc!diffie_hellman(eph, Enc!public_key(sk)), e)
           ct == Enc!stream_xor(d, k)
           blob == Enc!encrypt_note(d, Enc!public_key(sk), eph)
<1>1. d = [body |-> content, masks |-> {}, len |-> 136]
  BY DEF Enc!content_to_bytes, Enc!NOTE_CONTENT_SIZE
<1>2. blob = [eph_pk |-> e, mac |-> Enc!compute_mac(k, ct), ciphertext |-> ct, len |-> 64 + d.len]
  BY DEF Enc!encrypt_note, Enc!ENCRYPTION_OVERHEAD
<1>3. blob.len = 200
  BY <1>1, <1>2
<1>4. Enc!diffie_hellman(sk, e) = Enc!diffie_hellman(eph, Enc!public_key(sk))
  BY DEF Enc!diffie_hellman, Enc!public_key
<1>5. Enc!derive_key(Enc!diffie_hellman(sk, blob.eph_pk), blob.eph_pk) = k
  BY <1>2, <1>4
<1>6. Enc!decrypt_note(blob, sk) = {Enc!stream_xor(ct, k)}
  <2>1. blob.mac = Enc!compute_mac(k, blob.ciphertext) /\ blob.ciphertext = ct
    BY <1>2
  <2>2. blob.len >= Enc!ENCRYPTION_OVERHEAD
    BY <1>3 DEF Enc!ENCRYPTION_OVERHEAD
  <2> HIDE DEF k, ct, blob
  <2> QED BY <1>5, <2>1, <2>2 DEF Enc!decrypt_note
<1>7. Enc!stream_xor(ct, k) = d
  BY XorTwice
<1>8. Enc!content_from_bytes(d) = {content}
  BY <1>1 DEF Enc!content_from_bytes, Enc!NOTE_CONTENT_SIZE
<1>9. Enc!Contents(blob, sk) = {content}
  <2> HIDE DEF d, blob
  <2> QED BY <1>6, <1>7, <1>8 DEF Enc!Contents
<1> QED BY <1>3, <1>9

\* A blob stays shut for every other secret.
LEMMA BlobShut ==
    ASSUME NEW plaintext, NEW sk, NEW other, NEW eph, other # sk, eph # sk, other # eph
    PROVE  Enc!Contents(Enc!encrypt_note(plaintext, Enc!public_key(sk), eph), other) = {}
<1> DEFINE e == Enc!public_key(eph)
           dh == {eph, sk}  dx == {other, eph}
           k == Enc!derive_key(dh, e)
           x == Enc!derive_key(dx, e)
           ct == Enc!stream_xor(plaintext, k)
           blob == Enc!encrypt_note(plaintext, Enc!public_key(sk), eph)
<1>1. Enc!diffie_hellman(eph, Enc!public_key(sk)) = dh /\ Enc!diffie_hellman(other, e) = dx
  BY DEF Enc!diffie_hellman, Enc!public_key
<1>2. blob.eph_pk = e /\ blob.mac = Enc!compute_mac(k, ct) /\ blob.ciphertext = ct
  BY <1>1 DEF Enc!encrypt_note
<1>3. dh # dx
  OBVIOUS
<1>4. k # x
  BY <1>3 DEF Enc!derive_key
<1>5. Enc!compute_mac(k, ct) # Enc!compute_mac(x, ct)
  BY <1>4 DEF Enc!compute_mac
<1>6. Enc!decrypt_note(blob, other) = {}
  <2> HIDE DEF blob, k, x, ct, dx, e
  <2> QED BY <1>1, <1>2, <1>5 DEF Enc!decrypt_note, x
<1> QED BY <1>6 DEF Enc!Contents

\* No secret of one sort is one of another.
LEMMA KeySorts ==
    /\ \A k : Enc!from_spending_key(k) # Enc!compliance_oracle_secret
    /\ \A k, l : Enc!from_spending_key(k) = Enc!from_spending_key(l) => k = l
    /\ \A k, s, i : <<"ephemeral", s, i>> # Enc!from_spending_key(k)
    /\ \A s, i : <<"ephemeral", s, i>> # Enc!compliance_oracle_secret
BY DEF Enc!from_spending_key, Enc!compliance_oracle_secret

(***************************************************************************)
(* The encrypted note of a note: from its bytes the owner and the oracle   *)
(* read its content, and no other spending key does.                       *)
(***************************************************************************)
LEMMA CipherFacts ==
    ASSUME NEW note
    PROVE  /\ Enc!from_bytes(Encrypted(note)) = {Copies(note)}
           /\ Encrypted(note) # Empty
           /\ Enc!try_decrypt(Copies(note), Enc!from_spending_key(note.owner)) = {ContentOf(note)}
           /\ Enc!decrypt_as_oracle(Copies(note), Enc!compliance_oracle_secret) = {ContentOf(note)}
           /\ \A w : w # note.owner => Enc!try_decrypt(Copies(note), Enc!from_spending_key(w)) = {}
<1> DEFINE content == ContentOf(note)
           vk == Enc!from_spending_key(note.owner)
           ok == Enc!compliance_oracle_secret
           own == Enc!encrypt_note(Enc!content_to_bytes(content), Enc!public_key(vk), <<"ephemeral", note.salt, 1>>)
           his == Enc!encrypt_note(Enc!content_to_bytes(content), Enc!public_key(ok), <<"ephemeral", note.salt, 2>>)
<1>1. Copies(note) = [enc_for_recipient |-> own, enc_for_compliance |-> his]
  BY DEF Copies, Enc!create, Enc!COMPLIANCE_ORACLE_PUBKEY
<1>2. Enc!Contents(own, vk) = {content} /\ own.len = 200
  BY BlobOpens
<1>3. Enc!Contents(his, ok) = {content} /\ his.len = 200
  BY BlobOpens
<1>4. ASSUME NEW w, w # note.owner
      PROVE  Enc!Contents(own, Enc!from_spending_key(w)) = {}
  <2>1. Enc!from_spending_key(w) # vk
    BY <1>4, KeySorts
  <2>2. <<"ephemeral", note.salt, 1>> # vk /\ Enc!from_spending_key(w) # <<"ephemeral", note.salt, 1>>
    BY KeySorts
  <2> QED BY <2>1, <2>2, BlobShut, Zenon
<1>5. ASSUME NEW w
      PROVE  Enc!Contents(his, Enc!from_spending_key(w)) = {}
  <2>1. Enc!from_spending_key(w) # ok
    BY KeySorts
  <2>2. <<"ephemeral", note.salt, 2>> # ok /\ Enc!from_spending_key(w) # <<"ephemeral", note.salt, 2>>
    BY KeySorts
  <2> QED BY <2>1, <2>2, BlobShut, Zenon
<1>6. Encrypted(note) = <<own.len % U16, own, his.len % U16, his>>
  BY <1>1 DEF Encrypted, Copies, ContentOf, Enc!to_bytes
<1>7. 200 % U16 = 200
  BY WalletAssumption, SMTT(20)
<1> HIDE DEF content, vk, ok, own, his
<1>8. Encrypted(note) = <<200, own, 200, his>>
  BY <1>2, <1>3, <1>6, <1>7
<1>9. Enc!from_bytes(Encrypted(note)) = {Copies(note)} /\ Encrypted(note) # Empty
  BY <1>1, <1>2, <1>3, <1>8 DEF Enc!from_bytes, Empty
<1>10. Enc!try_decrypt(Copies(note), vk) = {content}
  BY <1>1, <1>2 DEF Enc!try_decrypt
<1>11. Enc!decrypt_as_oracle(Copies(note), ok) = {content}
  BY <1>1, <1>3 DEF Enc!decrypt_as_oracle
<1>12. \A w : w # note.owner => Enc!try_decrypt(Copies(note), Enc!from_spending_key(w)) = {}
  BY <1>1, <1>4, <1>5 DEF Enc!try_decrypt
<1> QED BY <1>9, <1>10, <1>11, <1>12 DEF content, vk, ok
-----------------------------------------------------------------------------
\* The circuits sum as the properties do.
LEMMA CircuitSums == \A F, S : Circuits!SumOver(F, S) = SumOver(F, S)
BY DEF Circuits!SumOver, Circuits!MapThenSumSet, Circuits!MapThenFoldSet,
       SumOver, MapThenSumSet, MapThenFoldSet

\* The sum over two disjoint sets.
LEMMA SumUnion ==
    ASSUME NEW S, NEW T, NEW F, IsFiniteSet(S), IsFiniteSet(T), S \cap T = {},
           \A x \in S \cup T : F[x] \in Nat
    PROVE  SumOver(F, S \cup T) = SumOver(F, S) + SumOver(F, T)
<1> DEFINE Ok(t) == SumOver(F, S \cup t) = SumOver(F, S) + SumOver(F, t)
           N == {n \in Nat : \A t \in SUBSET T : Cardinality(t) = n => Ok(t)}
<1>0. SumOver(F, S) \in Nat
  <2>1. \A x \in S : F[x] \in Nat
    OBVIOUS
  <2> QED BY <2>1, SumNat
<1>1. 0 \in N
  <2> SUFFICES ASSUME NEW t \in SUBSET T, Cardinality(t) = 0 PROVE Ok(t)
    OBVIOUS
  <2>1. IsFiniteSet(t)
    BY FS_Subset
  <2>2. t = {}
    BY <2>1, FS_EmptySet
  <2>3. SumOver(F, t) = 0 /\ S \cup t = S
    BY <2>2, SumEmpty
  <2> QED BY <1>0, <2>3
<1>2. ASSUME NEW n \in N PROVE n + 1 \in N
  <2> SUFFICES ASSUME NEW t \in SUBSET T, Cardinality(t) = n + 1 PROVE Ok(t)
    OBVIOUS
  <2>1. IsFiniteSet(t) /\ n \in Nat
    BY FS_Subset
  <2>2. t # {}
    BY <2>1, FS_EmptySet
  <2>3. PICK x \in t : TRUE
    BY <2>2
  <2> DEFINE u == t \ {x}
  <2>4. IsFiniteSet(u) /\ Cardinality(u) = n
    <3>1. IsFiniteSet(u) /\ Cardinality(u) = Cardinality(t) - 1
      BY <2>1, <2>3, TakeOne
    <3> QED BY <3>1, <2>1
  <2>5. u \in SUBSET T /\ Ok(u)
    BY <2>4
  <2>6. SumOver(F, t) = F[x] + SumOver(F, u)
    <3>1. \A y \in t : F[y] \in Nat
      OBVIOUS
    <3> QED BY <3>1, <2>1, <2>3, SumRemove
  <2>7. SumOver(F, S \cup t) = F[x] + SumOver(F, S \cup u)
    <3>1. IsFiniteSet(S \cup t) /\ x \in S \cup t /\ (S \cup t) \ {x} = S \cup u
      BY <2>1, <2>3, FS_Union
    <3>2. \A y \in S \cup t : F[y] \in Nat
      OBVIOUS
    <3> QED BY <3>1, <3>2, SumRemove
  <2>8. SumOver(F, u) \in Nat /\ SumOver(F, S \cup u) \in Nat /\ F[x] \in Nat
    <3>1. \A y \in u : F[y] \in Nat
      OBVIOUS
    <3>2. SumOver(F, u) \in Nat
      BY <3>1, <2>4, SumNat
    <3> QED BY <3>2, <2>3, <2>5, <1>0
  <2> HIDE DEF u
  <2> QED BY <2>5, <2>6, <2>7, <2>8, <1>0
<1> HIDE DEF N
<1>3. Cardinality(T) \in Nat
  BY FS_CardinalityType
<1>4. Cardinality(T) \in N
  BY <1>1, <1>2, <1>3, SetInduction DEF N
<1> QED BY <1>4 DEF N

\* A sum is the same under other names of its elements.
LEMMA SumBijection ==
    ASSUME NEW S, NEW T, NEW F, NEW G, NEW at \in [S -> T], IsFiniteSet(S), IsFiniteSet(T),
           \A x \in S : F[x] \in Nat /\ G[at[x]] = F[x],
           \A x, z \in S : at[x] = at[z] => x = z,
           \A y \in T : \E x \in S : at[x] = y
    PROVE  SumOver(F, S) = SumOver(G, T)
<1> DEFINE back == [y \in T |-> CHOOSE x \in S : at[x] = y]
<1>1. \A y \in T : back[y] \in S /\ at[back[y]] = y
  OBVIOUS
<1>2. \A y \in T : G[y] \in Nat /\ F[back[y]] = G[y]
  BY <1>1
<1>3. SumOver(F, S) <= SumOver(G, T)
  <2>1. \A x \in S : F[x] \in Nat /\ F[x] <= G[at[x]]
    OBVIOUS
  <2> QED BY <1>2, <2>1, SumInjection
<1>4. SumOver(G, T) <= SumOver(F, S)
  <2>1. back \in [T -> S]
    BY <1>1
  <2>2. \A y \in T : G[y] \in Nat /\ G[y] <= F[back[y]]
    BY <1>2
  <2>3. \A y, z \in T : back[y] = back[z] => y = z
    BY <1>1
  <2>4. \A x \in S : F[x] \in Nat
    OBVIOUS
  <2> HIDE DEF back
  <2> QED BY <2>1, <2>2, <2>3, <2>4, SumInjection
<1>5. SumOver(F, S) \in Nat /\ SumOver(G, T) \in Nat
  <2>1. \A x \in S : F[x] \in Nat
    OBVIOUS
  <2>2. \A y \in T : G[y] \in Nat
    BY <1>2
  <2> QED BY <2>1, <2>2, SumNat
<1> QED BY <1>3, <1>4, <1>5
-----------------------------------------------------------------------------
\* No two notes have the same hash: the ideal SHA-256 stands for.
NotesCollisionFree == \A m, n \in Notes : HashNote(m) = HashNote(n) => m = n

\* The nullifier the owner of a note reveals for it.
Nf(c) == Circuits!hash_nullifier(NoteBehind(c).owner, c)

Committed == {tree.commitments[i] : i \in 1 .. tree.next_index}

\* The commitment of a note some wallet has made so far.
Known(c) == /\ NoteBehind(c) \in WalletNotes /\ HashNote(NoteBehind(c)) = c
            /\ NoteBehind(c).amount > 0 /\ NoteBehind(c).salt < next_salt

\* The leaves are notes of the wallets, no salt in two of them.
LeafPart ==
    /\ next_salt \in Nat \ {0}
    /\ \A i \in 1 .. tree.next_index : Known(tree.commitments[i])
    /\ \A i, j \in 1 .. tree.next_index :
          NoteBehind(tree.commitments[i]).salt = NoteBehind(tree.commitments[j]).salt => i = j

\* Each leaf has its ciphertext.
CipherPart ==
    \A c \in Committed : c \in DOMAIN encrypted_notes /\ encrypted_notes[c] = Encrypted(NoteBehind(c))

\* Only nullifiers of leaves have been revealed.
SpentPart == \A n \in nullifiers : n.of \in Committed

\* The sum of the notes behind a list of commitments.
Vol(outputs) == SumOver([k \in DOMAIN outputs |-> NoteBehind(outputs[k]).amount], DOMAIN outputs)

Inputs(msg) == [k \in DOMAIN msg.nullifiers |-> msg.nullifiers[k].of]

\* The inputs of a proved message are leaves, no two the same.
InputsOk(msg) ==
    /\ msg.nullifiers \in Seq({Nf(c) : c \in Leaves}) /\ msg.nullifiers # << >>
    /\ \A k \in DOMAIN msg.nullifiers :
          msg.nullifiers[k].of \in Committed /\ msg.nullifiers[k] = Nf(msg.nullifiers[k].of)
    /\ \A k, l \in DOMAIN msg.nullifiers : msg.nullifiers[k] = msg.nullifiers[l] => k = l

\* Its outputs are notes of the wallets, with their ciphertexts.
OutputsOk(msg) ==
    /\ msg.output_commitments \in Seq(Leaves) /\ msg.output_commitments # << >>
    /\ \A k \in DOMAIN msg.output_commitments : Known(msg.output_commitments[k])
    /\ \A k, l \in DOMAIN msg.output_commitments :
          NoteBehind(msg.output_commitments[k]).salt = NoteBehind(msg.output_commitments[l]).salt => k = l
    /\ Len(msg.encrypted_outputs) = Len(msg.output_commitments)
    /\ \A k \in DOMAIN msg.output_commitments :
          msg.encrypted_outputs[k] = Encrypted(NoteBehind(msg.output_commitments[k]))

\* One asset, and as much of it out as in.
BalanceOk(msg) ==
    /\ \A k \in DOMAIN msg.nullifiers, l \in DOMAIN msg.output_commitments :
          NoteBehind(msg.nullifiers[k].of).asset_id = NoteBehind(msg.output_commitments[l]).asset_id
    /\ Vol(Inputs(msg)) = Vol(msg.output_commitments)
    /\ msg.transfer_amount = Vol(msg.output_commitments)

\* A transfer none of whose inputs is spent has not been executed.
Unused(msg) ==
    SpentInput(msg) \/ \A k \in DOMAIN msg.output_commitments, i \in 1 .. tree.next_index :
                          NoteBehind(msg.output_commitments[k]).salt # NoteBehind(tree.commitments[i]).salt

TransferOk(msg) == InputsOk(msg) /\ OutputsOk(msg) /\ BalanceOk(msg)

UnshieldOk(msg) ==
    /\ InputsOk(msg) /\ Len(msg.nullifiers) = 1
    /\ msg.asset_id = NoteBehind(msg.nullifiers[1].of).asset_id
    /\ msg.amount = NoteBehind(msg.nullifiers[1].of).amount

IsTransfer(slot) == inflight[slot].kind = "transfer"

MsgPart ==
    /\ DOMAIN inflight = ProofSlots
    /\ \A slot \in ProofSlots :
          \/ inflight[slot] = Nothing
          \/ IsTransfer(slot) /\ TransferOk(inflight[slot]) /\ Unused(inflight[slot])
          \/ inflight[slot].kind = "unshield" /\ UnshieldOk(inflight[slot])

\* Two transfers in flight have no output salt in common.
ApartPart ==
    \A s, t \in ProofSlots : s # t /\ IsTransfer(s) /\ IsTransfer(t) =>
        \A k \in DOMAIN inflight[s].output_commitments, l \in DOMAIN inflight[t].output_commitments :
            NoteBehind(inflight[s].output_commitments[k]).salt
              # NoteBehind(inflight[t].output_commitments[l]).salt

Amt == [i \in 1 .. tree.next_index |-> NoteBehind(tree.commitments[i]).amount]
LiveOf(asset) == {i \in Live : NoteBehind(tree.commitments[i]).asset_id = asset}
Value(asset) == SumOver(Amt, LiveOf(asset))

ValuePart ==
    /\ minted \in [Assets -> Nat] /\ burned \in [Assets -> Nat]
    /\ \A asset \in Assets : Value(asset) + burned[asset] = minted[asset]

Vols == [t \in DOMAIN transferred |-> Vol(transferred[t])]

AuditPart ==
    /\ transferred \in Seq(Seq(Leaves)) /\ Len(transferred) <= tree.next_index
    /\ \A t \in DOMAIN transferred : \A k \in DOMAIN transferred[t] : transferred[t][k] \in Committed
    /\ Len(transferred) <= SumOver(Vols, DOMAIN Vols)
    /\ compliance_tx_count = Len(transferred) % U64
    /\ compliance_total_volume = SumOver(Vols, DOMAIN Vols) % U64

WalletInv ==
    /\ TreePart /\ LeafPart /\ CipherPart /\ SpentPart /\ MsgPart /\ ApartPart
    /\ ValuePart /\ AuditPart
-----------------------------------------------------------------------------

\* The constants, as the proofs use them.
LEMMA WalletFacts ==
    /\ U64 \in Nat \ {0} /\ MaxSalt \in Nat /\ WalletNotes \subseteq Notes
    /\ \A n \in WalletNotes : HashNote(n) \in Leaves
    /\ \A n \in WalletNotes : /\ n.amount \in Nat /\ n.amount < U64 /\ n.asset_id \in Assets
                              /\ n.owner \in Wallets /\ n.salt \in Nat /\ n.pubkey_len = 32
<1>1. U64 \in Nat \ {0} /\ MaxSalt \in Nat /\ WalletNotes \subseteq Notes
  BY PoolAssumption, WalletAssumption
<1>2. \A n \in WalletNotes : HashNote(n) \in Leaves
  BY <1>1 DEF Leaves
<1>3. \A n \in WalletNotes : /\ n.amount \in Nat /\ n.amount < U64 /\ n.asset_id \in Assets
                             /\ n.owner \in Wallets /\ n.salt \in Nat /\ n.pubkey_len = 32
  BY <1>1 DEF WalletNotes
<1> QED BY <1>1, <1>2, <1>3

\* The note behind the commitment of a note is that note.
LEMMA NoteOfHash ==
    ASSUME NotesCollisionFree, NEW n \in Notes
    PROVE  NoteBehind(HashNote(n)) = n
<1>1. NoteBehind(HashNote(n)) \in Notes /\ HashNote(NoteBehind(HashNote(n))) = HashNote(n)
  BY DEF NoteBehind
<1> QED BY <1>1 DEF NotesCollisionFree

\* A note a wallet makes is one of WalletNotes.
LEMMA NoteMade ==
    ASSUME NEW w \in Wallets, NEW amount \in 0 .. U64 - 1, NEW asset \in Assets, NEW salt \in 1 .. MaxSalt
    PROVE  NoteOf(w, amount, asset, salt) \in WalletNotes
BY DEF NoteOf, WalletNotes

\* A note is what its owner and its content say.
LEMMA NoteRebuilt ==
    ASSUME NEW n \in WalletNotes
    PROVE  NoteOf(n.owner, ContentOf(n).amount, ContentOf(n).asset_id, ContentOf(n).salt) = n
BY DEF NoteOf, ContentOf, WalletNotes

\* A nullifier names its commitment.
LEMMA NfFacts ==
    /\ \A c : Nf(c).of = c
    /\ \A c, d : Nf(c) = Nf(d) => c = d
BY DEF Nf, Circuits!hash_nullifier

\* The owner reads the note of a leaf, and no other wallet does.
LEMMA ReadFacts ==
    ASSUME CipherPart, NEW i \in 1 .. tree.next_index, NEW w
    PROVE  LET c == tree.commitments[i]  note == NoteBehind(c)
           IN  Read(c, Enc!from_spending_key(w)) = IF w = note.owner THEN {ContentOf(note)} ELSE {}
<1> DEFINE c == tree.commitments[i]  note == NoteBehind(c)
<1>1. c \in DOMAIN encrypted_notes /\ encrypted_notes[c] = Encrypted(note)
  BY DEF CipherPart, Committed
<1>2. Enc!from_bytes(Encrypted(note)) = {Copies(note)}
  BY CipherFacts
<1>3. Read(c, Enc!from_spending_key(w)) = Enc!try_decrypt(Copies(note), Enc!from_spending_key(w))
  <2> HIDE DEF c, note
  <2> QED BY <1>1, <1>2 DEF Read
<1>4. CASE w = note.owner
  BY <1>3, <1>4, CipherFacts
<1>5. CASE w # note.owner
  BY <1>3, <1>5, CipherFacts
<1> QED BY <1>4, <1>5

\* A wallet finds its own notes, and nothing else.
LEMMA ScanFacts ==
    ASSUME LeafPart, CipherPart, NEW w
    PROVE  \A found : found \in Scan(w) <=>
              \E i \in 1 .. tree.next_index :
                  /\ found = [note |-> NoteBehind(tree.commitments[i]), leaf_index |-> i - 1]
                  /\ NoteBehind(tree.commitments[i]).owner = w
<1> DEFINE note(i) == NoteBehind(tree.commitments[i])
           own(content) == NoteOf(w, content.amount, content.asset_id, content.salt)
           found(i) == {own(content) : content \in Read(tree.commitments[i], Enc!from_spending_key(w))}
           good(i) == {n \in found(i) : HashNote(n) = tree.commitments[i]}
<1>1. Scan(w) = UNION {{[note |-> n, leaf_index |-> i - 1] : n \in good(i)} : i \in 1 .. tree.next_index}
  BY DEF Scan
<1>2. ASSUME NEW i \in 1 .. tree.next_index
      PROVE  good(i) = IF w = note(i).owner THEN {note(i)} ELSE {}
  <2>1. note(i) \in WalletNotes /\ HashNote(note(i)) = tree.commitments[i]
    BY DEF LeafPart, Known
  <2>2. own(ContentOf(note(i))) = note(i) \/ w # note(i).owner
    BY <2>1, NoteRebuilt
  <2>3. Read(tree.commitments[i], Enc!from_spending_key(w))
          = IF w = note(i).owner THEN {ContentOf(note(i))} ELSE {}
    BY ReadFacts
  <2> HIDE DEF note, own
  <2>4. CASE w = note(i).owner
    BY <2>1, <2>2, <2>3, <2>4
  <2>5. CASE w # note(i).owner
    BY <2>3, <2>5
  <2> QED BY <2>4, <2>5
<1> HIDE DEF good, note
<1>3. \A f : f \in Scan(w) <=>
         \E i \in 1 .. tree.next_index : \E n \in good(i) : f = [note |-> n, leaf_index |-> i - 1]
  BY <1>1
<1>4. \A f : f \in Scan(w) <=>
         \E i \in 1 .. tree.next_index : f = [note |-> note(i), leaf_index |-> i - 1] /\ note(i).owner = w
  BY <1>2, <1>3
<1> QED BY <1>4 DEF note

\* What a wallet can spend is an unspent leaf of its own.
LEMMA UnspentFacts ==
    ASSUME LeafPart, CipherPart, NEW w, NEW found \in Unspent(w)
    PROVE  \E i \in 1 .. tree.next_index :
              /\ found = [note |-> NoteBehind(tree.commitments[i]), leaf_index |-> i - 1]
              /\ found.note \in WalletNotes /\ found.note.owner = w
              /\ HashNote(found.note) = tree.commitments[i]
              /\ Circuits!hash_nullifier(w, HashNote(found.note)) = Nf(tree.commitments[i])
<1>1. found \in Scan(w)
  BY DEF Unspent
<1>2. PICK i \in 1 .. tree.next_index :
         /\ found = [note |-> NoteBehind(tree.commitments[i]), leaf_index |-> i - 1]
         /\ NoteBehind(tree.commitments[i]).owner = w
  BY <1>1, ScanFacts
<1>3. found.note = NoteBehind(tree.commitments[i])
  BY <1>2
<1>4. found.note \in WalletNotes /\ HashNote(found.note) = tree.commitments[i]
  BY <1>3 DEF LeafPart, Known
<1> QED BY <1>2, <1>3, <1>4 DEF Nf

\* The sum of the amounts of a list of notes.
Sum(notes) == SumOver([k \in DOMAIN notes |-> notes[k].amount], DOMAIN notes)

\* The host hands the guest the notes of the wallets as they are.
LEMMA NotesToData ==
    ASSUME NEW notes \in Seq(WalletNotes)
    PROVE  Circuits!notes_to_data(notes) = notes
<1>1. ASSUME NEW k \in DOMAIN notes PROVE Circuits!note_to_data(notes[k]) = notes[k]
  <2>1. notes[k] \in WalletNotes
    OBVIOUS
  <2> QED BY <2>1 DEF Circuits!note_to_data, WalletNotes
<1>2. Circuits!notes_to_data(notes) = [k \in DOMAIN notes |-> notes[k]]
  BY <1>1 DEF Circuits!notes_to_data
<1> QED BY <1>2

(***************************************************************************)
(* What the transfer program attests of the notes in a witness.            *)
(***************************************************************************)
LEMMA TransferAttests ==
    ASSUME NEW keys, NEW ins \in Seq(WalletNotes), NEW outs \in Seq(WalletNotes),
           NEW root, NEW indices, NEW paths,
           Circuits!transfer_circuit(Circuits!transfer_witness(keys, ins, outs, root, indices, paths))
    PROVE  /\ \A l \in DOMAIN outs : outs[l].amount > 0
           /\ \A k \in DOMAIN ins, l \in DOMAIN outs : ins[k].asset_id = outs[l].asset_id
           /\ Sum(ins) = Sum(outs)
<1> DEFINE wit == Circuits!transfer_witness(keys, ins, outs, root, indices, paths)
<1>1. /\ wit.inputs = ins /\ wit.outputs = outs /\ wit.spending_keys = keys
  BY NotesToData DEF Circuits!transfer_witness
<1> HIDE DEF wit
<1>2. /\ \A l \in DOMAIN outs : outs[l].amount > 0
      /\ \A note \in {ins[k] : k \in DOMAIN ins} \cup {outs[l] : l \in DOMAIN outs} :
            note.asset_id = ins[1].asset_id
      /\ Circuits!Total(ins) = Circuits!Total(outs)
  <2>1. Circuits!transfer_circuit(wit)
    BY DEF wit
  <2> QED BY <2>1, <1>1 DEF Circuits!transfer_circuit, Circuits!balanced
<1>3. Circuits!Total(ins) = Sum(ins) /\ Circuits!Total(outs) = Sum(outs)
  BY CircuitSums DEF Circuits!Total, Sum
<1>4. \A k \in DOMAIN ins, l \in DOMAIN outs : ins[k].asset_id = outs[l].asset_id
  BY <1>2
<1> QED BY <1>2, <1>3, <1>4

\* The two commitment lists of a message, and what is behind them.
LEMMA VolOfNotes ==
    ASSUME NotesCollisionFree, NEW notes \in Seq(WalletNotes), NEW cs,
           cs = [k \in DOMAIN notes |-> HashNote(notes[k])]
    PROVE  /\ \A k \in DOMAIN notes : NoteBehind(cs[k]) = notes[k]
           /\ DOMAIN cs = DOMAIN notes /\ cs \in Seq(Leaves) /\ Len(cs) = Len(notes)
           /\ Vol(cs) = Sum(notes)
<1>1. \A k \in DOMAIN notes : notes[k] \in WalletNotes /\ notes[k] \in Notes /\ HashNote(notes[k]) \in Leaves
  BY WalletFacts
<1>2. \A k \in DOMAIN notes : NoteBehind(cs[k]) = notes[k]
  BY <1>1, NoteOfHash
<1>3. DOMAIN cs = DOMAIN notes /\ cs \in Seq(Leaves) /\ Len(cs) = Len(notes)
  BY <1>1
<1>4. [k \in DOMAIN cs |-> NoteBehind(cs[k]).amount] = [k \in DOMAIN notes |-> notes[k].amount]
  BY <1>2, <1>3
<1> QED BY <1>2, <1>3, <1>4 DEF Vol, Sum

(***************************************************************************)
(* A transfer a wallet has proved: inputs that are leaves of its own, new  *)
(* notes of the same asset and total out, and salts nobody has used.       *)
(***************************************************************************)
LEMMA TransferMade ==
    ASSUME NotesCollisionFree, LeafPart, CipherPart,
           NEW w \in Wallets, NEW slot \in ProofSlots, ProveTransfer(w, slot)
    PROVE  /\ UNCHANGED <<poolVars, transferred>>
           /\ next_salt' \in Nat /\ next_salt < next_salt' /\ Free(slot)
           /\ \E msg : /\ inflight' = [inflight EXCEPT ![slot] = msg]
                       /\ msg.kind = "transfer" /\ InputsOk(msg) /\ BalanceOk(msg)
                       /\ OutputsOk(msg)'
                       /\ \A k \in DOMAIN msg.output_commitments :
                             NoteBehind(msg.output_commitments[k]).salt >= next_salt
<1> DEFINE snapshot == Snapshot
<1>1. PICK f \in Unspent(w), g \in Unspent(w), recipient \in Wallets \ {w}, paid \in PayAmounts, change \in PayAmounts :
        LET inputs  == IF f = g THEN <<f>> ELSE <<f, g>>
            asset   == f.note.asset_id
            outputs == IF change = 0
                         THEN <<NoteOf(recipient, paid, asset, next_salt)>>
                         ELSE <<NoteOf(recipient, paid, asset, next_salt),
                                NoteOf(w, change, asset, next_salt + 1)>>
            witness == Witness(w, inputs, outputs, snapshot)
            values  == Circuits!transfer_outputs(witness)
        IN  /\ f.leaf_index <= g.leaf_index
            /\ Free(slot)
            /\ next_salt + Len(outputs) - 1 <= MaxSalt
            /\ Circuits!prove_transfer_accepts(inputs, witness.leaf_indices, witness.merkle_paths)
            /\ Circuits!transfer_circuit(witness)
            /\ inflight' = [inflight EXCEPT ![slot] =
                 Message(values, [i \in DOMAIN outputs |-> Encrypted(outputs[i])])]
            /\ next_salt' = next_salt + Len(outputs)
            /\ UNCHANGED <<poolVars, now, transferred>>
  BY Zenon DEF ProveTransfer
<1> DEFINE inputs  == IF f = g THEN <<f>> ELSE <<f, g>>
           asset   == f.note.asset_id
           outs == IF change = 0
                     THEN <<NoteOf(recipient, paid, asset, next_salt)>>
                     ELSE <<NoteOf(recipient, paid, asset, next_salt),
                            NoteOf(w, change, asset, next_salt + 1)>>
           wit == Witness(w, inputs, outs, snapshot)
           values  == Circuits!transfer_outputs(wit)
           ins == [k \in DOMAIN inputs |-> inputs[k].note]
           msg == Message(values, [i \in DOMAIN outs |-> Encrypted(outs[i])])
<1>2. /\ Free(slot) /\ next_salt + Len(outs) - 1 <= MaxSalt
      /\ Circuits!transfer_circuit(wit)
      /\ inflight' = [inflight EXCEPT ![slot] = msg]
      /\ next_salt' = next_salt + Len(outs)
      /\ UNCHANGED <<poolVars, transferred>>
  BY <1>1, Zenon
<1> HIDE <1>1 DEF snapshot
<1>3. next_salt \in Nat \ {0} /\ MaxSalt \in Nat
  BY WalletFacts DEF LeafPart
<1>4. PICK i \in 1 .. tree.next_index :
         /\ f = [note |-> NoteBehind(tree.commitments[i]), leaf_index |-> i - 1]
         /\ f.note \in WalletNotes /\ f.note.owner = w /\ HashNote(f.note) = tree.commitments[i]
         /\ Circuits!hash_nullifier(w, HashNote(f.note)) = Nf(tree.commitments[i])
  BY UnspentFacts, Zenon
<1>5. PICK j \in 1 .. tree.next_index :
         /\ g = [note |-> NoteBehind(tree.commitments[j]), leaf_index |-> j - 1]
         /\ g.note \in WalletNotes /\ g.note.owner = w /\ HashNote(g.note) = tree.commitments[j]
         /\ Circuits!hash_nullifier(w, HashNote(g.note)) = Nf(tree.commitments[j])
  BY UnspentFacts, Zenon
\* The inputs, one or two.
<1>6. /\ ins \in Seq(WalletNotes) /\ ins # << >> /\ DOMAIN ins = DOMAIN inputs
      /\ \A k \in DOMAIN ins : /\ HashNote(ins[k]) \in Committed
                               /\ Circuits!hash_nullifier(w, HashNote(ins[k])) = Nf(HashNote(ins[k]))
      /\ \A k, l \in DOMAIN ins : HashNote(ins[k]) = HashNote(ins[l]) => k = l
  <2>1. CASE f = g
    <3>1. ins = <<f.note>>
      BY <2>1
    <3> HIDE DEF ins
    <3> QED BY <2>1, <3>1, <1>4 DEF Committed
  <2>2. CASE f # g
    <3>1. ins = <<f.note, g.note>>
      BY <2>2
    <3>2. HashNote(f.note) # HashNote(g.note)
      <4>1. SUFFICES ASSUME tree.commitments[i] = tree.commitments[j] PROVE FALSE
        BY <1>4, <1>5
      <4>2. i = j
        BY <4>1 DEF LeafPart
      <4> QED BY <4>2, <2>2, <1>4, <1>5
    <3> HIDE DEF ins
    <3> QED BY <2>2, <3>1, <3>2, <1>4, <1>5 DEF Committed
  <2> QED BY <2>1, <2>2
\* The outputs, one or two.
<1>7. /\ outs \in Seq(WalletNotes) /\ outs # << >> /\ Len(outs) \in {1, 2}
      /\ \A k \in DOMAIN outs : outs[k].salt = next_salt + k - 1
  <2>1. \A p \in PayAmounts : p \in 0 .. U64 - 1
    BY WalletAssumption
  <2>2. asset \in Assets
    BY <1>4, WalletFacts
  <2>3. NoteOf(recipient, paid, asset, next_salt) \in WalletNotes
    <3>1. next_salt \in 1 .. MaxSalt
      BY <1>2, <1>3
    <3> QED BY <2>1, <2>2, <3>1, NoteMade, Zenon
  <2>4. CASE change = 0
    <3>1. outs = <<NoteOf(recipient, paid, asset, next_salt)>>
      BY <2>4
    <3>2. NoteOf(recipient, paid, asset, next_salt).salt = next_salt
      BY DEF NoteOf
    <3> HIDE DEF outs, asset
    <3> QED BY <3>1, <3>2, <2>3, <1>3
  <2>5. CASE change # 0
    <3>1. outs = <<NoteOf(recipient, paid, asset, next_salt), NoteOf(w, change, asset, next_salt + 1)>>
      BY <2>5
    <3>2. Len(outs) = 2
      BY <3>1
    <3>3. next_salt + 1 \in 1 .. MaxSalt
      BY <3>2, <1>2, <1>3
    <3>4. NoteOf(w, change, asset, next_salt + 1) \in WalletNotes
      BY <2>1, <2>2, <3>3, NoteMade, Zenon
    <3>5. /\ NoteOf(recipient, paid, asset, next_salt).salt = next_salt
          /\ NoteOf(w, change, asset, next_salt + 1).salt = next_salt + 1
      BY DEF NoteOf
    <3> HIDE DEF outs, asset
    <3> QED BY <3>1, <3>4, <3>5, <2>3, <1>3
  <2> QED BY <2>4, <2>5
<1> HIDE DEF inputs, outs, asset
\* What the program attests.
<1> DEFINE keys == [k \in DOMAIN inputs |-> w]
<1>8. /\ \A l \in DOMAIN outs : outs[l].amount > 0
      /\ \A k \in DOMAIN ins, l \in DOMAIN outs : ins[k].asset_id = outs[l].asset_id
      /\ Sum(ins) = Sum(outs) /\ values.transfer_amount = Sum(outs)
      /\ values.nullifiers = [k \in DOMAIN ins |-> Circuits!hash_nullifier(keys[k], HashNote(ins[k]))]
      /\ values.output_commitments = [l \in DOMAIN outs |-> HashNote(outs[l])]
  <2> DEFINE indices == [k \in DOMAIN inputs |-> inputs[k].leaf_index]
             paths == [k \in DOMAIN inputs |-> snapshot.paths[inputs[k].leaf_index + 1]]
  <2>1. wit = Circuits!transfer_witness(keys, ins, outs, snapshot.root, indices, paths)
    BY DEF Witness
  <2> HIDE DEF indices, paths, keys, ins, wit
  <2>2. Circuits!transfer_circuit(Circuits!transfer_witness(keys, ins, outs, snapshot.root, indices, paths))
    BY <1>2, <2>1
  <2>3. /\ \A l \in DOMAIN outs : outs[l].amount > 0
        /\ \A k \in DOMAIN ins, l \in DOMAIN outs : ins[k].asset_id = outs[l].asset_id
        /\ Sum(ins) = Sum(outs)
    BY <1>6, <1>7, <2>2, TransferAttests
  <2>4. wit.inputs = ins /\ wit.outputs = outs /\ wit.spending_keys = keys
    BY <1>6, <1>7, <2>1, NotesToData DEF Circuits!transfer_witness
  <2>5. values.transfer_amount = Sum(outs)
    <3>1. values.transfer_amount = Circuits!Total(ins)
      BY <2>4 DEF Circuits!transfer_outputs
    <3> QED BY <3>1, <2>3, CircuitSums DEF Circuits!Total, Sum
  <2>6. /\ values.nullifiers = [k \in DOMAIN ins |-> Circuits!hash_nullifier(keys[k], HashNote(ins[k]))]
        /\ values.output_commitments = [l \in DOMAIN outs |-> HashNote(outs[l])]
    BY <2>4 DEF Circuits!transfer_outputs
  <2> QED BY <2>3, <2>5, <2>6
<1>9. values.nullifiers = [k \in DOMAIN ins |-> Nf(HashNote(ins[k]))]
  BY <1>6, <1>8
<1>10. /\ msg.nullifiers = values.nullifiers /\ msg.output_commitments = values.output_commitments
       /\ msg.transfer_amount = values.transfer_amount /\ msg.kind = "transfer"
       /\ msg.encrypted_outputs = [k \in DOMAIN outs |-> Encrypted(outs[k])]
  BY DEF Message
<1> HIDE DEF ins, wit, values, msg, keys
<1>10a. PICK m : m = msg
  OBVIOUS
<1> DEFINE cs == [k \in DOMAIN ins |-> HashNote(ins[k])]
           ds == m.output_commitments
<1>11. /\ \A k \in DOMAIN ins : NoteBehind(cs[k]) = ins[k]
       /\ DOMAIN cs = DOMAIN ins /\ cs \in Seq(Leaves)
       /\ Vol(cs) = Sum(ins)
  BY <1>6, VolOfNotes
<1>12. /\ \A k \in DOMAIN outs : NoteBehind(ds[k]) = outs[k]
       /\ DOMAIN ds = DOMAIN outs /\ ds \in Seq(Leaves) /\ Len(ds) = Len(outs)
       /\ Vol(ds) = Sum(outs)
  BY <1>7, <1>8, <1>10, <1>10a, VolOfNotes
<1>13. InputsOk(m)
  <2>1. \A k \in DOMAIN ins : cs[k] = HashNote(ins[k]) /\ cs[k] \in Leaves
    BY <1>11
  <2>2. m.nullifiers = [k \in DOMAIN ins |-> Nf(cs[k])]
    BY <1>9, <1>10, <1>10a
  <2>3. m.nullifiers \in Seq({Nf(c) : c \in Leaves}) /\ m.nullifiers # << >>
    <3>1. \E n \in Nat : DOMAIN ins = 1 .. n
      BY <1>6
    <3>2. \A k \in DOMAIN ins : Nf(cs[k]) \in {Nf(c) : c \in Leaves}
      BY <2>1
    <3>3. DOMAIN ins # {}
      BY <1>6
    <3> HIDE DEF cs
    <3> QED BY <2>2, <3>1, <3>2, <3>3
  <2>4. \A k \in DOMAIN m.nullifiers : /\ k \in DOMAIN ins
                                         /\ m.nullifiers[k] = Nf(HashNote(ins[k]))
                                         /\ m.nullifiers[k].of = HashNote(ins[k])
    BY <2>2, NfFacts
  <2>5. \A k \in DOMAIN m.nullifiers :
           m.nullifiers[k].of \in Committed /\ m.nullifiers[k] = Nf(m.nullifiers[k].of)
    BY <2>4, <1>6
  <2>6. \A k, l \in DOMAIN m.nullifiers : m.nullifiers[k] = m.nullifiers[l] => k = l
    BY <2>4, <1>6
  <2> QED BY <2>3, <2>5, <2>6 DEF InputsOk
<1>14. BalanceOk(m)
  <2>1. Inputs(m) = cs
    <3>1. DOMAIN m.nullifiers = DOMAIN ins
      BY <1>9, <1>10, <1>10a
    <3>2. \A k \in DOMAIN ins : m.nullifiers[k].of = HashNote(ins[k])
      BY <1>9, <1>10, <1>10a, NfFacts
    <3> QED BY <3>1, <3>2 DEF Inputs
  <2>2. ASSUME NEW k \in DOMAIN m.nullifiers, NEW l \in DOMAIN ds
        PROVE  NoteBehind(m.nullifiers[k].of).asset_id = NoteBehind(ds[l]).asset_id
    <3>1. m.nullifiers[k].of = cs[k] /\ k \in DOMAIN ins
      BY <1>9, <1>10, <1>10a, NfFacts
    <3>2. NoteBehind(cs[k]) = ins[k] /\ NoteBehind(ds[l]) = outs[l] /\ l \in DOMAIN outs
      BY <3>1, <1>11, <1>12
    <3> QED BY <3>1, <3>2, <1>8
  <2>3. Vol(Inputs(m)) = Vol(ds) /\ m.transfer_amount = Vol(ds)
    BY <2>1, <1>8, <1>10, <1>10a, <1>11, <1>12
  <2> HIDE DEF cs
  <2> QED BY <2>2, <2>3 DEF BalanceOk
<1>15. next_salt' \in Nat /\ next_salt < next_salt'
  BY <1>2, <1>3, <1>7
<1>16. \A k \in DOMAIN ds : NoteBehind(ds[k]).salt = next_salt + k - 1 /\ k \in 1 .. Len(outs)
  BY <1>7, <1>12
<1>17. OutputsOk(m)'
  <2>1. ds \in Seq(Leaves) /\ ds # << >>
    BY <1>7, <1>12
  <2>2. ASSUME NEW k \in DOMAIN ds PROVE Known(ds[k])'
    <3>1. k \in DOMAIN outs /\ NoteBehind(ds[k]) = outs[k] /\ ds[k] = HashNote(outs[k])
      BY <1>8, <1>10, <1>10a, <1>12
    <3>2. outs[k] \in WalletNotes /\ outs[k].amount > 0
      BY <3>1, <1>7, <1>8
    <3>3. outs[k].salt < next_salt'
      BY <3>1, <1>2, <1>3, <1>7
    <3> QED BY <3>1, <3>2, <3>3 DEF Known
  <2>3. \A k, l \in DOMAIN ds : NoteBehind(ds[k]).salt = NoteBehind(ds[l]).salt => k = l
    BY <1>16, <1>3
  <2>4. /\ Len(m.encrypted_outputs) = Len(ds)
        /\ \A k \in DOMAIN ds : m.encrypted_outputs[k] = Encrypted(NoteBehind(ds[k]))
    BY <1>7, <1>10, <1>10a, <1>12
  <2> QED BY <2>1, <2>2, <2>3, <2>4 DEF OutputsOk
<1>18. \A k \in DOMAIN ds : NoteBehind(ds[k]).salt >= next_salt
  BY <1>3, <1>16
<1> QED BY <1>2, <1>10, <1>10a, <1>13, <1>14, <1>15, <1>17, <1>18

\* An unshield a wallet has proved: one leaf of its own, and what is behind it.
LEMMA UnshieldMade ==
    ASSUME LeafPart, CipherPart, NEW w \in Wallets, NEW slot \in ProofSlots, ProveUnshield(w, slot)
    PROVE  /\ UNCHANGED <<poolVars, next_salt, transferred>>
           /\ \E msg : /\ inflight' = [inflight EXCEPT ![slot] = msg]
                       /\ msg.kind = "unshield" /\ UnshieldOk(msg)
<1>1. PICK found \in Unspent(w) :
        LET values == Circuits!unshield_outputs(Circuits!unshield_witness(w, found.note))
        IN  /\ inflight' = [inflight EXCEPT ![slot] =
                 [kind |-> "unshield", proof |-> "OBSv", nullifiers |-> <<values.nullifier>>,
                  asset_id |-> values.asset_id, amount |-> values.amount]]
            /\ UNCHANGED <<poolVars, next_salt, now, transferred>>
  BY DEF ProveUnshield
<1>2. PICK i \in 1 .. tree.next_index :
         /\ found = [note |-> NoteBehind(tree.commitments[i]), leaf_index |-> i - 1]
         /\ found.note \in WalletNotes /\ found.note.owner = w
         /\ HashNote(found.note) = tree.commitments[i]
         /\ Circuits!hash_nullifier(w, HashNote(found.note)) = Nf(tree.commitments[i])
  BY UnspentFacts, Zenon
<1> DEFINE c == tree.commitments[i]
           values == Circuits!unshield_outputs(Circuits!unshield_witness(w, found.note))
<1>3. found.note = NoteBehind(c) /\ c \in Committed /\ c \in Leaves
  BY <1>2, WalletFacts DEF Committed
<1>4. Circuits!note_to_data(found.note) = found.note
  BY <1>2 DEF Circuits!note_to_data, WalletNotes
<1>5. /\ values.nullifier = Nf(c) /\ values.amount = NoteBehind(c).amount
      /\ values.asset_id = NoteBehind(c).asset_id
  BY <1>2, <1>3, <1>4 DEF Circuits!unshield_outputs, Circuits!unshield_witness
<1>6. PICK msg : msg = [kind |-> "unshield", proof |-> "OBSv", nullifiers |-> <<values.nullifier>>,
                        asset_id |-> values.asset_id, amount |-> values.amount]
  OBVIOUS
<1>7. inflight' = [inflight EXCEPT ![slot] = msg] /\ UNCHANGED <<poolVars, next_salt, transferred>>
  BY <1>1, <1>6
<1> HIDE DEF values
<1>8. /\ msg.kind = "unshield" /\ msg.nullifiers = <<Nf(c)>>
      /\ msg.asset_id = NoteBehind(c).asset_id /\ msg.amount = NoteBehind(c).amount
  BY <1>5, <1>6
<1> HIDE DEF c
<1>9. Nf(c).of = c /\ Nf(c) \in {Nf(d) : d \in Leaves}
  BY <1>3, NfFacts
<1>10. InputsOk(msg) /\ Len(msg.nullifiers) = 1 /\ msg.nullifiers[1] = Nf(c)
  BY <1>3, <1>8, <1>9 DEF InputsOk
<1> QED BY <1>7, <1>8, <1>9, <1>10 DEF UnshieldOk

\* Whatever has been made stays made.
LEMMA Steady ==
    ASSUME LeavesStay, tree.next_index \in Nat,
           next_salt \in Nat, next_salt' \in Nat, next_salt <= next_salt'
    PROVE  /\ Committed \subseteq Committed'
           /\ \A c : Known(c) => Known(c)'
           /\ \A msg : InputsOk(msg) => InputsOk(msg)'
           /\ \A msg : OutputsOk(msg) => OutputsOk(msg)'
           /\ \A msg : BalanceOk(msg) => BalanceOk(msg)'
           /\ \A msg : UnshieldOk(msg) => UnshieldOk(msg)'
<1>1. Committed \subseteq Committed'
  BY DEF LeavesStay, Committed
<1>2. ASSUME NEW c, Known(c) PROVE Known(c)'
  <2>1. NoteBehind(c).salt \in Nat
    BY <1>2, WalletFacts DEF Known
  <2> QED BY <1>2, <2>1 DEF Known
<1>3. ASSUME NEW msg, InputsOk(msg) PROVE InputsOk(msg)'
  BY <1>1, <1>3 DEF InputsOk
<1>4. ASSUME NEW msg, OutputsOk(msg) PROVE OutputsOk(msg)'
  BY <1>2, <1>4 DEF OutputsOk
<1>5. ASSUME NEW msg, BalanceOk(msg) PROVE BalanceOk(msg)'
  BY <1>5 DEF BalanceOk
<1>6. ASSUME NEW msg, UnshieldOk(msg) PROVE UnshieldOk(msg)'
  <2>1. InputsOk(msg)'
    BY <1>3, <1>6 DEF UnshieldOk
  <2> QED BY <1>6, <2>1 DEF UnshieldOk
<1> QED BY <1>1, <1>2, <1>3, <1>4, <1>5, <1>6

\* A message stays unused, unless one of its inputs is spent or one of its
\* salts is inserted.
LEMMA StaysUnused ==
    ASSUME LeavesStay, tree.next_index \in Nat, nullifiers \subseteq nullifiers',
           NEW msg, Unused(msg),
           SpentInput(msg)' \/
             \A k \in DOMAIN msg.output_commitments, i \in tree.next_index + 1 .. tree'.next_index :
                NoteBehind(msg.output_commitments[k]).salt # NoteBehind(tree'.commitments[i]).salt
    PROVE  Unused(msg)'
<1>1. SpentInput(msg) => SpentInput(msg)'
  BY DEF SpentInput
<1>2. SUFFICES ASSUME ~ SpentInput(msg)', NEW k \in DOMAIN msg.output_commitments,
                      NEW i \in 1 .. tree'.next_index
               PROVE  NoteBehind(msg.output_commitments[k]).salt # NoteBehind(tree'.commitments[i]).salt
  BY DEF Unused
<1>3. CASE i <= tree.next_index
  <2>1. tree'.commitments[i] = tree.commitments[i] /\ i \in 1 .. tree.next_index
    BY <1>3 DEF LeavesStay
  <2> QED BY <1>1, <1>2, <2>1 DEF Unused
<1>4. CASE ~ (i <= tree.next_index)
  <2>1. i \in tree.next_index + 1 .. tree'.next_index
    BY <1>4 DEF LeavesStay
  <2> QED BY <1>2, <2>1
<1> QED BY <1>3, <1>4

\* Messages in flight while the pool moves.
LEMMA MessagesKept ==
    ASSUME MsgPart, ApartPart, LeavesStay, tree.next_index \in Nat,
           next_salt \in Nat, next_salt' \in Nat, next_salt <= next_salt',
           inflight' = inflight,
           \A slot \in ProofSlots : IsTransfer(slot) => Unused(inflight[slot])'
    PROVE  MsgPart' /\ ApartPart'
<1>1. ApartPart'
  BY DEF ApartPart, IsTransfer
<1>2. ASSUME NEW slot \in ProofSlots
      PROVE  \/ inflight[slot] = Nothing
             \/ IsTransfer(slot) /\ TransferOk(inflight[slot])' /\ Unused(inflight[slot])'
             \/ inflight[slot].kind = "unshield" /\ UnshieldOk(inflight[slot])'
  <2>1. PICK msg : msg = inflight[slot]
    OBVIOUS
  <2>2. inflight'[slot] = msg
    BY <2>1
  <2>3. CASE msg = Nothing
    BY <2>1, <2>3
  <2>4. CASE IsTransfer(slot) /\ TransferOk(msg)
    <3>1. TransferOk(msg)'
      BY <2>4, Steady DEF TransferOk
    <3>2. TransferOk(inflight[slot])'
      BY <3>1, <2>2
    <3> QED BY <2>4, <3>2
  <2>5. CASE msg.kind = "unshield" /\ UnshieldOk(msg)
    <3>1. UnshieldOk(msg)'
      BY <2>5, Steady
    <3>2. UnshieldOk(inflight[slot])'
      BY <3>1, <2>2
    <3> QED BY <2>1, <2>5, <3>2
  <2> QED BY <2>1, <2>3, <2>4, <2>5 DEF MsgPart
<1>3. DOMAIN inflight' = ProofSlots
  BY DEF MsgPart
<1> QED BY <1>1, <1>2, <1>3 DEF MsgPart, IsTransfer

\* A message put in a slot, or taken out of it, while the pool stays as it is.
LEMMA MessagePlaced ==
    ASSUME LeafPart, MsgPart, ApartPart, tree.next_index \in Nat,
           UNCHANGED <<tree, nullifiers>>, next_salt' \in Nat, next_salt <= next_salt',
           NEW slot \in ProofSlots, NEW msg, inflight' = [inflight EXCEPT ![slot] = msg],
           \/ msg = Nothing
           \/ /\ msg.kind = "transfer" /\ TransferOk(msg)'
              /\ \A k \in DOMAIN msg.output_commitments :
                    NoteBehind(msg.output_commitments[k]).salt >= next_salt
           \/ msg.kind = "unshield" /\ UnshieldOk(msg)'
    PROVE  MsgPart' /\ ApartPart'
<1>1. LeavesStay /\ next_salt \in Nat
  BY DEF LeavesStay, LeafPart
<1>2. inflight'[slot] = msg /\ \A s \in ProofSlots : s # slot => inflight'[s] = inflight[s]
  BY DEF MsgPart
<1>3. ASSUME NEW s \in ProofSlots, s # slot
      PROVE  \/ inflight'[s] = Nothing
             \/ inflight'[s].kind = "transfer" /\ TransferOk(inflight[s])' /\ Unused(inflight[s])'
             \/ inflight'[s].kind = "unshield" /\ UnshieldOk(inflight[s])'
  <2>1. PICK m : m = inflight[s]
    OBVIOUS
  <2>2. inflight'[s] = m
    BY <1>2, <1>3, <2>1
  <2>3. TransferOk(m) => TransferOk(m)'
    BY <1>1, Steady DEF TransferOk
  <2>4. UnshieldOk(m) => UnshieldOk(m)'
    BY <1>1, Steady
  <2>5. Unused(m) => Unused(m)'
    BY DEF Unused, SpentInput
  <2>6. m = Nothing \/ (m.kind = "transfer" /\ TransferOk(m) /\ Unused(m)) \/ (m.kind = "unshield" /\ UnshieldOk(m))
    BY <2>1 DEF MsgPart, IsTransfer
  <2>7. m = Nothing \/ (m.kind = "transfer" /\ TransferOk(m)' /\ Unused(m)') \/ (m.kind = "unshield" /\ UnshieldOk(m)')
    BY <2>3, <2>4, <2>5, <2>6
  <2> QED BY <2>2, <2>7
<1>4. msg.kind = "transfer" /\ msg # Nothing => Unused(msg)'
  <2> SUFFICES ASSUME msg.kind = "transfer", msg # Nothing PROVE Unused(msg)'
    OBVIOUS
  <2>1. \A k \in DOMAIN msg.output_commitments :
           /\ NoteBehind(msg.output_commitments[k]).salt >= next_salt
           /\ NoteBehind(msg.output_commitments[k]).salt \in Nat
    <3>1. Nothing.kind # "transfer"
      BY DEF Nothing
    <3>2. /\ \A k \in DOMAIN msg.output_commitments :
                NoteBehind(msg.output_commitments[k]).salt >= next_salt
          /\ OutputsOk(msg)'
      BY <3>1 DEF TransferOk
    <3> QED BY <3>2, WalletFacts DEF OutputsOk, Known
  <2>2. \A i \in 1 .. tree.next_index :
           /\ NoteBehind(tree.commitments[i]).salt < next_salt
           /\ NoteBehind(tree.commitments[i]).salt \in Nat
    BY WalletFacts DEF LeafPart, Known
  <2>3. \A k \in DOMAIN msg.output_commitments, i \in 1 .. tree.next_index :
           NoteBehind(msg.output_commitments[k]).salt # NoteBehind(tree.commitments[i]).salt
    BY <1>1, <2>1, <2>2
  <2> QED BY <2>3 DEF Unused
<1>5. MsgPart'
  <2>1. ASSUME NEW s \in ProofSlots
        PROVE  \/ inflight'[s] = Nothing
               \/ inflight'[s].kind = "transfer" /\ TransferOk(inflight[s])' /\ Unused(inflight[s])'
               \/ inflight'[s].kind = "unshield" /\ UnshieldOk(inflight[s])'
    <3>1. CASE s = slot
      BY <1>2, <1>4, <3>1
    <3>2. CASE s # slot
      BY <1>3, <3>2
    <3> QED BY <3>1, <3>2
  <2>2. DOMAIN inflight' = ProofSlots
    BY DEF MsgPart
  <2> QED BY <2>1, <2>2 DEF MsgPart, IsTransfer
<1>6. ApartPart'
  <2>1. ASSUME NEW s \in ProofSlots, NEW t \in ProofSlots, s # t, s # slot,
               inflight'[s].kind = "transfer", inflight'[t].kind = "transfer",
               NEW k \in DOMAIN inflight'[s].output_commitments,
               NEW l \in DOMAIN inflight'[t].output_commitments
        PROVE  NoteBehind(inflight'[s].output_commitments[k]).salt
                 # NoteBehind(inflight'[t].output_commitments[l]).salt
    <3>1. inflight'[s] = inflight[s] /\ IsTransfer(s)
      BY <1>2, <2>1 DEF IsTransfer
    <3>2. CASE t # slot
      <4>1. inflight'[t] = inflight[t] /\ IsTransfer(t)
        BY <1>2, <2>1, <3>2 DEF IsTransfer
      <4> QED BY <3>1, <4>1, <2>1 DEF ApartPart
    <3>3. CASE t = slot
      <4>1. Nothing.kind # "transfer" /\ "unshield" # "transfer"
        BY DEF Nothing
      <4>2. inflight'[t] = msg /\ msg.kind = "transfer" /\ msg # Nothing
        BY <1>2, <2>1, <3>3, <4>1
      <4>3. OutputsOk(msg)' /\ NoteBehind(msg.output_commitments[l]).salt >= next_salt
        BY <4>1, <4>2 DEF TransferOk
      <4>4. NoteBehind(msg.output_commitments[l]).salt \in Nat
        BY <4>2, <4>3, WalletFacts DEF OutputsOk, Known
      <4>5. OutputsOk(inflight[s])
        BY <3>1, <4>1 DEF MsgPart, IsTransfer, TransferOk
      <4>6. /\ NoteBehind(inflight[s].output_commitments[k]).salt < next_salt
            /\ NoteBehind(inflight[s].output_commitments[k]).salt \in Nat
        BY <3>1, <4>5, WalletFacts DEF OutputsOk, Known
      <4> QED BY <1>1, <3>1, <4>2, <4>3, <4>4, <4>6
    <3> QED BY <3>2, <3>3
  <2>2. ASSUME NEW s \in ProofSlots, NEW t \in ProofSlots, s # t,
               inflight'[s].kind = "transfer", inflight'[t].kind = "transfer",
               NEW k \in DOMAIN inflight'[s].output_commitments,
               NEW l \in DOMAIN inflight'[t].output_commitments
        PROVE  NoteBehind(inflight'[s].output_commitments[k]).salt
                 # NoteBehind(inflight'[t].output_commitments[l]).salt
    <3>1. CASE s # slot
      BY <2>1, <2>2, <3>1
    <3>2. CASE t # slot
      BY <2>1, <2>2, <3>2
    <3> QED BY <2>2, <3>1, <3>2
  <2> QED BY <2>2 DEF ApartPart, IsTransfer
<1> QED BY <1>5, <1>6

\* What lies behind new leaves is new, known, and comes with its ciphertext.
LEMMA LeavesAdded ==
    ASSUME TreePart, LeafPart, CipherPart, NEW outputs \in Seq(Leaves), NEW encrypted,
           Insert(outputs), StoreEncrypted(outputs, encrypted),
           next_salt' \in Nat, next_salt <= next_salt',
           Len(encrypted) = Len(outputs),
           \A k \in DOMAIN outputs :
              /\ encrypted[k] = Encrypted(NoteBehind(outputs[k])) /\ Known(outputs[k])'
              /\ \A l \in DOMAIN outputs : NoteBehind(outputs[k]).salt = NoteBehind(outputs[l]).salt => k = l
              /\ \A i \in 1 .. tree.next_index :
                    NoteBehind(outputs[k]).salt # NoteBehind(tree.commitments[i]).salt
    PROVE  /\ TreePart' /\ LeafPart' /\ CipherPart' /\ LeavesStay
           /\ tree'.next_index = tree.next_index + Len(outputs)
           /\ \A k \in 1 .. Len(outputs) : tree'.commitments[tree.next_index + k] = outputs[k]
<1> DEFINE n == tree.next_index  m == tree'.next_index  N == Len(outputs)
           old(i) == tree.commitments[i]
           new(i) == tree'.commitments[i]
<1>1. /\ LeavesStay /\ m = n + N /\ \A k \in 1 .. N : new(n + k) = outputs[k]
  BY InsertLeavesStay
<1>2. n \in Nat /\ N \in Nat /\ next_salt \in Nat \ {0} /\ DOMAIN outputs = 1 .. N
  BY DEF TreePart, TreeShape, LeafPart
<1>3. \A i \in 1 .. n : new(i) = old(i)
  BY <1>1 DEF LeavesStay
<1> DEFINE place(i) == i - n
<1>4. \A i \in 1 .. m : i \in 1 .. n \/ (place(i) \in 1 .. N /\ i = n + place(i) /\ new(i) = outputs[place(i)])
  <2>1. \A i \in 1 .. m : ~ (i \in 1 .. n) => place(i) \in 1 .. N /\ i = n + place(i)
    BY <1>1, <1>2
  <2> HIDE DEF n, m, N, place
  <2> QED BY <1>1, <2>1
<1>5. \A c : Known(c) => Known(c)'
  BY <1>1, <1>2, Steady
<1> HIDE DEF n, m, N, old, new, place
<1>6. ASSUME NEW i \in 1 .. m, NEW c, c = new(i) PROVE Known(c)'
  <2>1. CASE i \in 1 .. n
    <3>1. Known(old(i))
      BY <2>1 DEF LeafPart, n, old
    <3>2. c = old(i)
      BY <2>1, <1>3, <1>6
    <3> QED BY <3>1, <3>2, <1>5
  <2>2. CASE place(i) \in 1 .. N /\ new(i) = outputs[place(i)]
    <3>1. PICK k \in 1 .. N : c = outputs[k]
      BY <2>2, <1>6
    <3>2. k \in DOMAIN outputs
      BY <1>2
    <3>3. Known(outputs[k])'
      BY <3>2
    <3> QED BY <3>1, <3>3
  <2> QED BY <2>1, <2>2, <1>4
<1>7. ASSUME NEW i \in 1 .. m, NEW j \in 1 .. m, NoteBehind(new(i)).salt = NoteBehind(new(j)).salt
      PROVE  i = j
  <2>1. \A k \in 1 .. N, h \in 1 .. n : NoteBehind(outputs[k]).salt # NoteBehind(old(h)).salt
    BY <1>2 DEF n, old
  <2>2. \A k, l \in 1 .. N : NoteBehind(outputs[k]).salt = NoteBehind(outputs[l]).salt => k = l
    BY <1>2
  <2>3. \A g, h \in 1 .. n : NoteBehind(old(g)).salt = NoteBehind(old(h)).salt => g = h
    BY DEF LeafPart, n, old
  <2>4. CASE i \in 1 .. n /\ j \in 1 .. n
    BY <2>3, <2>4, <1>3, <1>7
  <2>5. CASE i \in 1 .. n /\ ~ (j \in 1 .. n)
    BY <2>1, <2>5, <1>3, <1>4, <1>7
  <2>6. CASE j \in 1 .. n /\ ~ (i \in 1 .. n)
    BY <2>1, <2>6, <1>3, <1>4, <1>7
  <2>7. CASE ~ (i \in 1 .. n) /\ ~ (j \in 1 .. n)
    <3>1. place(i) = place(j)
      BY <2>2, <2>7, <1>4, <1>7
    <3> QED BY <3>1, <2>7, <1>4
  <2> QED BY <2>4, <2>5, <2>6, <2>7
<1>8. LeafPart'
  <2>1. \A i \in 1 .. m : Known(tree.commitments[i])'
    BY <1>6 DEF new, Known
  <2>2. \A i, j \in 1 .. m : NoteBehind(new(i)).salt = NoteBehind(new(j)).salt => i = j
    BY <1>7
  <2>3. next_salt' \in Nat \ {0}
    BY <1>2
  <2> QED BY <2>1, <2>2, <2>3 DEF LeafPart, m, new
<1>9. CipherPart'
  <2> DEFINE given(c) == {i \in 1 .. Len(outputs) : /\ outputs[i] = c
                                                    /\ i <= Len(encrypted)
                                                    /\ encrypted[i] # Empty}
             stored == {c \in {outputs[i] : i \in 1 .. Len(outputs)} : given(c) # {}}
             last(c) == CHOOSE i \in given(c) : \A j \in given(c) : j <= i
  <2>1. encrypted_notes' = [c \in DOMAIN encrypted_notes \cup stored |->
                              IF c \in stored THEN encrypted[last(c)] ELSE encrypted_notes[c]]
    BY DEF StoreEncrypted
  <2>2. ASSUME NEW k \in 1 .. N
        PROVE  k \in given(outputs[k]) /\ outputs[k] \in stored
    <3>1. encrypted[k] = Encrypted(NoteBehind(outputs[k])) /\ encrypted[k] # Empty
      BY <1>2, CipherFacts
    <3>2. k \in 1 .. Len(outputs) /\ k <= Len(encrypted)
      BY <1>2 DEF N
    <3>3. k \in given(outputs[k])
      BY <3>1, <3>2
    <3> QED BY <3>2, <3>3
  <2>3. ASSUME NEW c \in stored
        PROVE  encrypted[last(c)] = Encrypted(NoteBehind(c))
    <3>1. PICK k \in 1 .. N : outputs[k] = c
      BY DEF N
    <3>2. \A i \in given(c) : i = k
      <4> SUFFICES ASSUME NEW i \in given(c) PROVE i = k
        OBVIOUS
      <4>1. i \in 1 .. N /\ outputs[i] = outputs[k]
        BY <3>1 DEF N
      <4> QED BY <4>1, <1>2
    <3>3. given(c) = {k}
      BY <2>2, <3>1, <3>2
    <3>4. last(c) = k
      <4>1. k \in Int
        BY <1>2
      <4> HIDE DEF given
      <4> QED BY <3>3, <4>1
    <3> HIDE DEF last
    <3> QED BY <3>1, <3>4, <1>2
  <2> HIDE DEF stored, last, given
  <2>4. ASSUME NEW i \in 1 .. m
        PROVE  new(i) \in DOMAIN encrypted_notes' /\ encrypted_notes'[new(i)] = Encrypted(NoteBehind(new(i)))
    <3>1. CASE new(i) \in stored
      BY <2>1, <2>3, <3>1
    <3>2. CASE ~ (new(i) \in stored)
      <4>1. i \in 1 .. n
        BY <3>2, <2>2, <1>4
      <4>2. new(i) \in Committed
        BY <4>1, <1>3 DEF Committed, n, old
      <4> QED BY <4>2, <3>2, <2>1 DEF CipherPart
    <3> QED BY <3>1, <3>2
  <2> QED BY <2>4 DEF CipherPart, Committed, m, new
<1>10. TreePart'
  BY InsertPart
<1> QED BY <1>1, <1>8, <1>9, <1>10 DEF n, m, N, new

\* The amounts behind leaves can be summed.
LEMMA AmountsCount ==
    ASSUME LeafPart, tree.next_index \in Nat, NEW I \in SUBSET (1 .. tree.next_index)
    PROVE  /\ IsFiniteSet(I) /\ \A i \in I : Amt[i] \in Nat
           /\ SumOver(Amt, I) \in Nat
<1>1. IsFiniteSet(1 .. tree.next_index)
  BY FS_Interval
<1>2. IsFiniteSet(I)
  BY <1>1, FS_Subset
<1>3. \A i \in I : Amt[i] \in Nat
  BY WalletFacts DEF LeafPart, Known, Amt
<1> QED BY <1>2, <1>3, SumNat

\* Leaf i is there, and its nullifier has not been revealed.
LiveLeaf(i) == i \in 1 .. tree.next_index /\ Nf(tree.commitments[i]) \notin nullifiers

\* Live, leaf by leaf.
LEMMA LiveIs == \A i : i \in Live <=> LiveLeaf(i)
BY DEF Live, LiveLeaf, Nf

\* The amounts behind a list of commitments, and the places of one asset in it.
AmountsOf(outputs) == [k \in DOMAIN outputs |-> NoteBehind(outputs[k]).amount]
OfAsset(outputs, asset) == {k \in DOMAIN outputs : NoteBehind(outputs[k]).asset_id = asset}

(***************************************************************************)
(* How the value in unspent notes moves: the inputs I are spent, and the   *)
(* outputs are appended.                                                   *)
(***************************************************************************)
LEMMA ValueMoves ==
    ASSUME LeafPart, LeafPart', SpentPart, LeavesStay, tree.next_index \in Nat,
           NEW outputs \in Seq(Leaves),
           tree'.next_index = tree.next_index + Len(outputs),
           \A k \in 1 .. Len(outputs) : tree'.commitments[tree.next_index + k] = outputs[k],
           NEW I \in SUBSET Live,
           \A c : Nf(c) \in nullifiers' <=> Nf(c) \in nullifiers \/ \E i \in I : c = tree.commitments[i],
           NEW asset
    PROVE  /\ Value(asset)' + SumOver(Amt, I \cap LiveOf(asset))
                = Value(asset) + SumOver(AmountsOf(outputs), OfAsset(outputs, asset))
           /\ Value(asset) \in Nat /\ Value(asset)' \in Nat
           /\ SumOver(Amt, I \cap LiveOf(asset)) \in Nat
           /\ SumOver(AmountsOf(outputs), OfAsset(outputs, asset)) \in Nat
<1> DEFINE n == tree.next_index  m == tree'.next_index  N == Len(outputs)
           K == {k \in DOMAIN outputs : NoteBehind(outputs[k]).asset_id = asset}
           amounts == [k \in DOMAIN outputs |-> NoteBehind(outputs[k]).amount]
           L == LiveOf(asset)
           J == I \cap L
           place(k) == n + k
           O == {place(k) : k \in K}
           old(i) == tree.commitments[i]
           new(i) == tree'.commitments[i]
<1>1. n \in Nat /\ N \in Nat /\ m = n + N /\ m \in Nat /\ DOMAIN outputs = 1 .. N /\ K \subseteq 1 .. N
  OBVIOUS
<1>2. /\ \A i \in 1 .. n : new(i) = old(i)
      /\ \A k \in 1 .. N : new(place(k)) = outputs[k] /\ place(k) \in 1 .. m /\ ~ (place(k) \in 1 .. n)
  BY <1>1 DEF LeavesStay
<1>3. \A i \in 1 .. m : i \in 1 .. n \/ \E k \in 1 .. N : i = place(k)
  <2> SUFFICES ASSUME NEW i \in 1 .. m, ~ (i \in 1 .. n) PROVE \E k \in 1 .. N : i = place(k)
    OBVIOUS
  <2>1. i - n \in 1 .. N /\ i = n + (i - n)
    BY <1>1
  <2> QED BY <2>1
<1>4. L \subseteq 1 .. n /\ J \subseteq L /\ I \subseteq 1 .. n
  BY LiveIs DEF LiveOf, LiveLeaf
<1>5. \A i, j \in 1 .. n : old(i) = old(j) => i = j
  BY DEF LeafPart
<1>6. \A i, j \in 1 .. m : new(i) = new(j) => i = j
  BY DEF LeafPart
<1>7. \A i : i \in L <=> i \in 1 .. n /\ Nf(old(i)) \notin nullifiers /\ NoteBehind(old(i)).asset_id = asset
  BY LiveIs DEF LiveOf, LiveLeaf
<1>8. \A i : i \in LiveOf(asset)' <=>
               i \in 1 .. m /\ Nf(new(i)) \notin nullifiers' /\ NoteBehind(new(i)).asset_id = asset
  <2>1. \A i : i \in Live' <=> i \in 1 .. m /\ Nf(new(i)) \notin nullifiers'
    BY DEF Live, Nf
  <2> QED BY <2>1 DEF LiveOf
<1>9. \A c : Nf(c) \in nullifiers => \E i \in 1 .. n : c = old(i)
  BY NfFacts DEF SpentPart, Committed
<1> HIDE DEF n, m, N, K, L, J, place, O, old, new
\* An old leaf stays live unless it is an input.
<1>10. ASSUME NEW i \in 1 .. n
       PROVE  i \in LiveOf(asset)' <=> i \in L \ J
  <2>1. i \in 1 .. m /\ new(i) = old(i)
    BY <1>1, <1>2
  <2>2. Nf(old(i)) \in nullifiers' <=> Nf(old(i)) \in nullifiers \/ \E j \in I : old(i) = tree.commitments[j]
    OBVIOUS
  <2>3. (\E j \in I : old(i) = tree.commitments[j]) <=> i \in I
    BY <1>4, <1>5 DEF old
  <2> QED BY <2>1, <2>2, <2>3, <1>7, <1>8 DEF J
\* A new one is live.
<1>11. ASSUME NEW k \in 1 .. N
       PROVE  place(k) \in LiveOf(asset)' <=> k \in K
  <2>1. new(place(k)) = outputs[k] /\ place(k) \in 1 .. m /\ ~ (place(k) \in 1 .. n)
    BY <1>2
  <2>2. \A i \in 1 .. n : outputs[k] # old(i)
    <3> SUFFICES ASSUME NEW i \in 1 .. n, outputs[k] = old(i) PROVE FALSE
      OBVIOUS
    <3>1. i \in 1 .. m /\ new(i) = old(i)
      BY <1>1, <1>2
    <3>2. place(k) = i
      BY <3>1, <2>1, <1>6
    <3> QED BY <3>2, <2>1
  <2>3. Nf(outputs[k]) \notin nullifiers /\ \A i \in I : outputs[k] # tree.commitments[i]
    BY <2>2, <1>4, <1>9 DEF old
  <2>4. Nf(outputs[k]) \notin nullifiers'
    BY <2>3
  <2>5. k \in K <=> NoteBehind(outputs[k]).asset_id = asset
    BY <1>1 DEF K
  <2> QED BY <2>1, <2>4, <2>5, <1>8
<1>12. LiveOf(asset)' = (L \ J) \cup O
  <2>1. \A i : i \in LiveOf(asset)' => i \in 1 .. m
    BY <1>8
  <2>2. \A k \in 1 .. N : place(k) \in O <=> k \in K
    BY <1>1, <1>2 DEF O, place
  <2>3. \A i \in O : \E k \in 1 .. N : i = place(k)
    BY <1>1 DEF O
  <2>4. \A i \in O : ~ (i \in 1 .. n)
    BY <2>3, <1>2
  <2>5. L \ J \subseteq 1 .. n
    BY <1>4
  <2>6. ASSUME NEW i PROVE i \in LiveOf(asset)' <=> i \in (L \ J) \cup O
    <3>1. CASE i \in 1 .. n
      BY <3>1, <1>10, <2>4
    <3>2. CASE ~ (i \in 1 .. n)
      <4>1. i \in LiveOf(asset)' => \E k \in 1 .. N : i = place(k)
        BY <2>1, <1>3, <3>2
      <4>2. i \in O => \E k \in 1 .. N : i = place(k)
        BY <2>3
      <4>3. \A k \in 1 .. N : place(k) \in LiveOf(asset)' <=> place(k) \in O
        BY <1>11, <2>2
      <4> QED BY <4>1, <4>2, <4>3, <2>5, <3>2
    <3> QED BY <3>1, <3>2
  <2> QED BY <2>6
\* The sums.
<1>13. /\ IsFiniteSet(L \ J) /\ IsFiniteSet(J) /\ \A i \in L : Amt[i] \in Nat
       /\ SumOver(Amt, L) \in Nat /\ SumOver(Amt, L \ J) \in Nat /\ SumOver(Amt, J) \in Nat
  <2>1. L \subseteq 1 .. tree.next_index /\ J \subseteq L
    BY <1>4 DEF n
  <2>2. L \ J \subseteq 1 .. tree.next_index /\ J \subseteq 1 .. tree.next_index
    BY <2>1
  <2> QED BY <2>1, <2>2, AmountsCount
<1>14. SumOver(Amt, L) = SumOver(Amt, L \ J) + SumOver(Amt, J)
  <2>1. (L \ J) \cap J = {} /\ (L \ J) \cup J = L
    BY <1>4
  <2>2. \A i \in (L \ J) \cup J : Amt[i] \in Nat
    BY <2>1, <1>13
  <2> QED BY <2>1, <2>2, <1>13, SumUnion
<1> DEFINE A == Amt'
<1>15. A = [i \in 1 .. m |-> NoteBehind(new(i)).amount] /\ \A i \in 1 .. m : A[i] \in Nat
  <2>1. A = [i \in 1 .. m |-> NoteBehind(new(i)).amount]
    BY DEF Amt, m, new
  <2>2. \A i \in 1 .. m : NoteBehind(new(i)).amount \in Nat
    BY WalletFacts DEF LeafPart, Known, m, new
  <2> HIDE DEF A
  <2> QED BY <2>1, <2>2
<1> HIDE DEF A
<1>16. SumOver(A, L \ J) = SumOver(Amt, L \ J)
  <2>1. \A i \in L \ J : A[i] = Amt[i]
    BY <1>1, <1>2, <1>4, <1>15 DEF Amt, n, old
  <2> QED BY <2>1, <1>13, SumCong
<1>17. /\ IsFiniteSet(O) /\ IsFiniteSet(K) /\ (L \ J) \cap O = {}
       /\ \A i \in (L \ J) \cup O : A[i] \in Nat
       /\ \A k \in K : place(k) \in O /\ amounts[k] \in Nat /\ A[place(k)] = amounts[k]
       /\ \A k, l \in K : place(k) = place(l) => k = l
       /\ \A i \in O : \E k \in K : place(k) = i
  <2>1. O \subseteq 1 .. m /\ \A i \in O : ~ (i \in 1 .. n)
    BY <1>1, <1>2 DEF O
  <2>2. IsFiniteSet(O) /\ IsFiniteSet(K)
    <3>1. IsFiniteSet(1 .. m) /\ IsFiniteSet(1 .. N)
      BY <1>1, FS_Interval
    <3> QED BY <3>1, <2>1, <1>1, FS_Subset
  <2>3. (L \ J) \cap O = {} /\ (L \ J) \cup O \subseteq 1 .. m
    BY <2>1, <1>1, <1>4
  <2>4. \A k \in K : k \in 1 .. N /\ k \in DOMAIN outputs /\ place(k) \in O
    BY <1>1 DEF O
  <2>5. \A k \in K : A[place(k)] = amounts[k] /\ A[place(k)] \in Nat
    BY <2>4, <1>2, <1>15
  <2>6. \A k, l \in K : place(k) = place(l) => k = l
    BY <2>4, <1>1 DEF place
  <2>7. \A i \in (L \ J) \cup O : A[i] \in Nat
    BY <2>3, <1>15
  <2> HIDE DEF amounts
  <2> QED BY <2>2, <2>3, <2>4, <2>5, <2>6, <2>7 DEF O
<1> HIDE DEF amounts
<1>18. SumOver(amounts, K) = SumOver(A, O)
  <2> DEFINE at == [k \in K |-> place(k)]
  <2>1. at \in [K -> O] /\ \A k \in K : amounts[k] \in Nat /\ A[at[k]] = amounts[k]
    BY <1>17
  <2>2. (\A k, l \in K : at[k] = at[l] => k = l) /\ \A i \in O : \E k \in K : at[k] = i
    BY <1>17
  <2> HIDE DEF at
  <2> QED BY <1>17, <2>1, <2>2, SumBijection
<1>19. SumOver(A, (L \ J) \cup O) = SumOver(A, L \ J) + SumOver(A, O)
  BY <1>13, <1>17, SumUnion
<1>20. SumOver(amounts, K) \in Nat
  BY <1>17, SumNat
<1>21. Value(asset)' = SumOver(A, (L \ J) \cup O) /\ Value(asset) = SumOver(Amt, L)
  <2>1. Value(asset)' = SumOver(Amt', LiveOf(asset)')
    BY DEF Value
  <2> QED BY <2>1, <1>12 DEF Value, A, L
<1>22. /\ Value(asset)' + SumOver(Amt, J) = Value(asset) + SumOver(amounts, K)
       /\ Value(asset) \in Nat /\ Value(asset)' \in Nat
  BY <1>13, <1>14, <1>16, <1>18, <1>19, <1>20, <1>21
<1>23. AmountsOf(outputs) = amounts /\ OfAsset(outputs, asset) = K
  BY DEF AmountsOf, OfAsset, K, amounts
<1> QED BY <1>13, <1>20, <1>22, <1>23 DEF J, L

\* What is behind known commitments, together.
LEMMA VolFacts ==
    ASSUME NEW cs \in Seq(Leaves), \A k \in DOMAIN cs : Known(cs[k])
    PROVE  /\ Vol(cs) \in Nat /\ (cs # << >> => Vol(cs) >= 1)
           /\ IsFiniteSet(DOMAIN cs)
           /\ \A k \in DOMAIN cs : NoteBehind(cs[k]).amount \in Nat
<1> DEFINE F == [k \in DOMAIN cs |-> NoteBehind(cs[k]).amount]
<1>1. IsFiniteSet(DOMAIN cs)
  <2>1. DOMAIN cs = 1 .. Len(cs) /\ Len(cs) \in Nat
    OBVIOUS
  <2> QED BY <2>1, FS_Interval
<1>2. \A k \in DOMAIN cs : F[k] \in Nat /\ F[k] > 0
  BY WalletFacts DEF Known
<1>3. Vol(cs) = SumOver(F, DOMAIN cs)
  BY DEF Vol
<1>4. Vol(cs) \in Nat
  BY <1>1, <1>2, <1>3, SumNat
<1>5. ASSUME cs # << >> PROVE Vol(cs) >= 1
  <2>1. 1 \in DOMAIN cs
    BY <1>5
  <2> HIDE DEF F
  <2>2. SumOver(F, DOMAIN cs) = F[1] + SumOver(F, DOMAIN cs \ {1})
    BY <1>1, <1>2, <2>1, SumRemove
  <2>3. IsFiniteSet(DOMAIN cs \ {1}) /\ \A k \in DOMAIN cs \ {1} : F[k] \in Nat
    BY <1>1, <1>2, FS_Subset
  <2>4. SumOver(F, DOMAIN cs \ {1}) \in Nat
    BY <2>3, SumNat
  <2> QED BY <1>2, <1>3, <2>1, <2>2, <2>4
<1> QED BY <1>1, <1>2, <1>4, <1>5

\* The nullifiers revealed stay those of leaves.
LEMMA SpentGrows ==
    ASSUME SpentPart, Committed \subseteq Committed',
           \A x \in nullifiers' : x \in nullifiers \/ x.of \in Committed
    PROVE  SpentPart'
BY DEF SpentPart

\* The auditor's count while no transfer is executed.
LEMMA AuditKept ==
    ASSUME AuditPart, LeavesStay, tree.next_index \in Nat, Committed \subseteq Committed',
           UNCHANGED <<transferred, complianceVars>>
    PROVE  AuditPart'
<1>1. Len(transferred) \in Nat
  BY DEF AuditPart
<1>2. Len(transferred) <= tree'.next_index
  BY <1>1 DEF AuditPart, LeavesStay
<1>3. Vols' = Vols
  BY DEF Vols
<1> QED BY <1>2, <1>3 DEF AuditPart, complianceVars

\* An executed transfer in the auditor's count.
LEMMA AuditAdds ==
    ASSUME AuditPart, LeafPart, tree.next_index \in Nat, Committed \subseteq Committed',
           NEW outs \in Seq(Leaves), outs # << >>, \A k \in DOMAIN outs : Known(outs[k]),
           \A k \in DOMAIN outs : outs[k] \in Committed',
           tree'.next_index = tree.next_index + Len(outs),
           transferred' = Append(transferred, outs),
           compliance_tx_count' = wrap(compliance_tx_count + 1),
           compliance_total_volume' = wrap(compliance_total_volume + Vol(outs))
    PROVE  AuditPart'
<1> DEFINE T == Len(transferred)
           D == DOMAIN transferred
           S == SumOver(Vols, D)
<1>1. /\ transferred \in Seq(Seq(Leaves)) /\ T \in Nat /\ D = 1 .. T /\ IsFiniteSet(D)
      /\ T <= tree.next_index /\ T <= S
      /\ compliance_tx_count = T % U64 /\ compliance_total_volume = S % U64
      /\ DOMAIN Vols = D
  <2>1. transferred \in Seq(Seq(Leaves)) /\ T \in Nat /\ D = 1 .. T
    BY DEF AuditPart
  <2>2. IsFiniteSet(D)
    BY <2>1, FS_Interval
  <2> QED BY <2>1, <2>2 DEF AuditPart, Vols
<1>2. U64 \in Nat \ {0}
  BY WalletFacts
<1>3. Vol(outs) \in Nat /\ Vol(outs) >= 1
  BY VolFacts
<1>4. ASSUME NEW t \in D PROVE Vols[t] \in Nat
  <2>1. transferred[t] \in Seq(Leaves) /\ \A k \in DOMAIN transferred[t] : transferred[t][k] \in Committed
    BY <1>1 DEF AuditPart
  <2>2. \A k \in DOMAIN transferred[t] : Known(transferred[t][k])
    BY <2>1 DEF LeafPart, Committed
  <2>3. Vols[t] = Vol(transferred[t])
    BY DEF Vols
  <2> QED BY <2>1, <2>2, <2>3, VolFacts
<1>5. S \in Nat
  BY <1>1, <1>4, SumNat
<1>6. /\ transferred' \in Seq(Seq(Leaves)) /\ Len(transferred') = T + 1
      /\ DOMAIN transferred' = D \cup {T + 1} /\ T + 1 \notin D
      /\ transferred'[T + 1] = outs /\ \A t \in D : transferred'[t] = transferred[t]
  BY <1>1
<1> DEFINE W == Vols'
<1>7. W[T + 1] = Vol(outs) /\ (\A t \in D : W[t] = Vols[t]) /\ DOMAIN W = D \cup {T + 1}
  <2>1. W = [t \in DOMAIN transferred' |-> Vol(transferred'[t])]
    BY DEF Vols
  <2> HIDE DEF W
  <2> QED BY <2>1, <1>6 DEF Vols
<1> HIDE DEF W
<1>8. SumOver(W, D) = S
  <2>1. \A t \in D : W[t] = Vols[t]
    BY <1>7
  <2>2. IsFiniteSet(D)
    BY <1>1
  <2> HIDE DEF D
  <2>3. SumOver(W, D) = SumOver(Vols, D)
    BY <2>1, <2>2, SumCong
  <2> QED BY <2>3
<1>9. SumOver(W, D \cup {T + 1}) = W[T + 1] + SumOver(W, D)
  <2>1. \A x \in D \cup {T + 1} : W[x] \in Nat
    BY <1>3, <1>4, <1>7
  <2> QED BY <1>1, <1>6, <2>1, SumAdd
<1>10. SumOver(W, DOMAIN W) = S + Vol(outs)
  BY <1>3, <1>5, <1>7, <1>8, <1>9
<1> HIDE DEF S
<1>11. compliance_total_volume' = (S + Vol(outs)) % U64
  BY <1>1, <1>2, <1>3, <1>5, ModAdd DEF wrap
<1>12. compliance_tx_count' = (T + 1) % U64
  BY <1>1, <1>2, ModAdd DEF wrap
<1>13. Len(outs) \in Nat /\ Len(outs) >= 1
  OBVIOUS
<1>14. T + 1 <= tree'.next_index /\ T + 1 <= S + Vol(outs)
  BY <1>1, <1>3, <1>5, <1>13
<1>15. \A t \in DOMAIN transferred' : \A k \in DOMAIN transferred'[t] : transferred'[t][k] \in Committed'
  BY <1>6 DEF AuditPart
<1> QED BY <1>6, <1>10, <1>11, <1>12, <1>14, <1>15 DEF AuditPart, W

-----------------------------------------------------------------------------
\* The invariant holds of the genesis, before any wallet has acted.
LEMMA WalletInitInv == WalletsInit => WalletInv
<1> SUFFICES ASSUME WalletsInit PROVE WalletInv
  OBVIOUS
<1>1. /\ PoolInit /\ inflight = [s \in ProofSlots |-> Nothing] /\ next_salt = 1 /\ transferred = << >>
  BY DEF WalletsInit
<1>2. TreePart /\ tree.next_index = 0
  <2>1. PoolInv
    BY <1>1, PoolInitInv
  <2> QED BY <2>1, <1>1, PoolInvParts DEF PoolInit, genesis_tree
<1>3. LeafPart /\ CipherPart
  BY <1>1, <1>2 DEF LeafPart, CipherPart, Committed
<1>4. nullifiers = {} /\ SpentPart
  BY <1>1 DEF PoolInit, SpentPart
<1>5. MsgPart /\ ApartPart
  <2>1. Nothing.kind # "transfer"
    BY DEF Nothing
  <2>2. \A s \in ProofSlots : inflight[s] = Nothing /\ ~ IsTransfer(s)
    BY <1>1, <2>1 DEF IsTransfer
  <2> QED BY <1>1, <2>2 DEF MsgPart, ApartPart
<1>6. ValuePart
  <2>1. minted = [asset \in Assets |-> 0] /\ burned = [asset \in Assets |-> 0]
    BY <1>1 DEF PoolInit
  <2>2. \A asset : LiveOf(asset) = {}
    BY <1>2, LiveIs DEF LiveOf, LiveLeaf
  <2>3. \A asset : Value(asset) = 0
    BY <2>2, SumEmpty DEF Value
  <2> QED BY <2>1, <2>3 DEF ValuePart
<1>7. AuditPart
  <2>1. DOMAIN Vols = {} /\ DOMAIN transferred = {}
    BY <1>1 DEF Vols
  <2>2. SumOver(Vols, DOMAIN Vols) = 0
    BY <2>1, SumEmpty
  <2>3. 0 % U64 = 0
    BY WalletFacts, ModSmall
  <2>4. compliance_tx_count = 0 /\ compliance_total_volume = 0
    BY <1>1 DEF PoolInit
  <2>5. transferred \in Seq(Seq(Leaves)) /\ Len(transferred) = 0
    BY <1>1
  <2> QED BY <1>2, <2>1, <2>2, <2>3, <2>4, <2>5 DEF AuditPart
<1> QED BY <1>2, <1>3, <1>4, <1>5, <1>6, <1>7 DEF WalletInv

\* The two counters are numbers.
LEMMA InvNext == WalletInv => tree.next_index \in Nat /\ next_salt \in Nat \ {0}
BY DEF WalletInv, TreePart, TreeShape, LeafPart

(***************************************************************************)
(* Steps that leave the notes and the counters of the pool alone keep what *)
(* is said of the pool, whatever they do to the root of the oracle.        *)
(***************************************************************************)
LEMMA LedgerStill ==
    ASSUME WalletInv,
           UNCHANGED <<treeVars, supplyVars, spendVars, complianceVars, encrypted_notes, transferred>>,
           next_salt' \in Nat, next_salt <= next_salt'
    PROVE  /\ TreePart' /\ LeafPart' /\ CipherPart' /\ SpentPart' /\ ValuePart' /\ AuditPart'
           /\ LeavesStay /\ tree.next_index \in Nat /\ UNCHANGED <<tree, nullifiers>>
           /\ next_salt \in Nat
<1>1. /\ UNCHANGED <<tree, root_log, nullifiers, minted, burned, encrypted_notes, transferred>>
      /\ UNCHANGED complianceVars
  BY DEF treeVars, supplyVars, spendVars
<1>2. tree.next_index \in Nat /\ next_salt \in Nat \ {0}
  BY InvNext
<1>3. LeavesStay
  BY <1>1, <1>2 DEF LeavesStay
<1>4. \A c : Known(c) => Known(c)'
  BY <1>2, <1>3, Steady
<1>5. TreePart'
  <2>1. TreePart
    BY DEF WalletInv
  <2> QED BY <2>1, <1>1 DEF TreePart, RingInv, RootsMatchRebuild, SiblingsInv
<1>6. LeafPart'
  <2>1. next_salt' \in Nat \ {0}
    BY <1>2
  <2>2. \A i \in 1 .. tree.next_index : Known(tree.commitments[i])'
    <3> SUFFICES ASSUME NEW i \in 1 .. tree.next_index PROVE Known(tree.commitments[i])'
      OBVIOUS
    <3>1. PICK c : c = tree.commitments[i]
      OBVIOUS
    <3>2. Known(c)'
      BY <3>1, <1>4 DEF WalletInv, LeafPart
    <3>3. c = tree'.commitments[i]
      BY <3>1, <1>1
    <3> QED BY <3>2, <3>3 DEF Known
  <2> QED BY <2>1, <2>2, <1>1 DEF WalletInv, LeafPart
<1>7. CipherPart' /\ SpentPart'
  BY <1>1 DEF WalletInv, CipherPart, SpentPart, Committed
<1>8. ValuePart'
  <2>1. \A asset : Value(asset)' = Value(asset)
    BY <1>1 DEF Value, LiveOf, Live, Amt
  <2> QED BY <2>1, <1>1 DEF WalletInv, ValuePart
<1>9. AuditPart'
  BY <1>1 DEF WalletInv, AuditPart, Vols, Committed, complianceVars
<1> QED BY <1>1, <1>2, <1>3, <1>5, <1>6, <1>7, <1>8, <1>9

\* Steps that leave the pool alone.
LEMMA PoolStill ==
    ASSUME WalletInv, UNCHANGED <<poolVars, transferred>>,
           next_salt' \in Nat, next_salt <= next_salt'
    PROVE  /\ TreePart' /\ LeafPart' /\ CipherPart' /\ SpentPart' /\ ValuePart' /\ AuditPart'
           /\ LeavesStay /\ tree.next_index \in Nat /\ UNCHANGED <<tree, nullifiers>>
           /\ next_salt \in Nat
<1>1. UNCHANGED <<treeVars, supplyVars, spendVars, complianceVars, encrypted_notes, transferred>>
  BY DEF poolVars
<1> QED BY <1>1, LedgerStill

\* Steps that change neither the notes nor the messages: time, and the oracle's root.
LEMMA StillInv ==
    ASSUME WalletInv,
           UNCHANGED <<treeVars, supplyVars, spendVars, complianceVars, encrypted_notes, transferred>>,
           UNCHANGED <<inflight, next_salt>>
    PROVE  WalletInv'
<1>1. next_salt' \in Nat /\ next_salt <= next_salt'
  BY InvNext
<1>2. /\ TreePart' /\ LeafPart' /\ CipherPart' /\ SpentPart' /\ ValuePart' /\ AuditPart'
      /\ LeavesStay /\ tree.next_index \in Nat /\ UNCHANGED <<tree, nullifiers>> /\ next_salt \in Nat
  BY <1>1, LedgerStill
<1>3. \A s \in ProofSlots : Unused(inflight[s]) => Unused(inflight[s])'
  BY <1>2 DEF Unused, SpentInput
<1>4. \A s \in ProofSlots : IsTransfer(s) => Unused(inflight[s])'
  <2>1. Nothing.kind # "transfer" /\ "unshield" # "transfer"
    BY DEF Nothing
  <2> QED BY <1>3, <2>1 DEF WalletInv, MsgPart, IsTransfer
<1>5. MsgPart' /\ ApartPart'
  BY <1>1, <1>2, <1>4, MessagesKept DEF WalletInv
<1> QED BY <1>2, <1>5 DEF WalletInv

\* A wallet proves a transfer.
LEMMA ProveTransferInv ==
    ASSUME NotesCollisionFree, WalletInv, NEW w \in Wallets, NEW slot \in ProofSlots, ProveTransfer(w, slot)
    PROVE  WalletInv'
<1>1. LeafPart /\ CipherPart /\ MsgPart /\ ApartPart
  BY DEF WalletInv
<1>2. UNCHANGED <<poolVars, transferred>> /\ next_salt' \in Nat /\ next_salt < next_salt'
  BY <1>1, TransferMade
<1>3. PICK msg : /\ inflight' = [inflight EXCEPT ![slot] = msg]
                 /\ msg.kind = "transfer" /\ InputsOk(msg) /\ BalanceOk(msg) /\ OutputsOk(msg)'
                 /\ \A k \in DOMAIN msg.output_commitments :
                       NoteBehind(msg.output_commitments[k]).salt >= next_salt
  BY <1>1, TransferMade
<1>4. next_salt <= next_salt'
  BY <1>2, InvNext
<1>5. /\ TreePart' /\ LeafPart' /\ CipherPart' /\ SpentPart' /\ ValuePart' /\ AuditPart'
      /\ LeavesStay /\ tree.next_index \in Nat /\ UNCHANGED <<tree, nullifiers>> /\ next_salt \in Nat
  BY <1>2, <1>4, PoolStill
<1>6. TransferOk(msg)'
  BY <1>2, <1>3, <1>4, <1>5, Steady DEF TransferOk
<1>7. MsgPart' /\ ApartPart'
  BY <1>1, <1>2, <1>3, <1>4, <1>5, <1>6, MessagePlaced
<1> QED BY <1>5, <1>7 DEF WalletInv

\* A wallet proves an unshield.
LEMMA ProveUnshieldInv ==
    ASSUME WalletInv, NEW w \in Wallets, NEW slot \in ProofSlots, ProveUnshield(w, slot)
    PROVE  WalletInv'
<1>1. LeafPart /\ CipherPart /\ MsgPart /\ ApartPart
  BY DEF WalletInv
<1>2. UNCHANGED <<poolVars, next_salt, transferred>>
  BY <1>1, UnshieldMade
<1>3. PICK msg : inflight' = [inflight EXCEPT ![slot] = msg] /\ msg.kind = "unshield" /\ UnshieldOk(msg)
  BY <1>1, UnshieldMade
<1>4. UNCHANGED <<poolVars, transferred>> /\ next_salt' \in Nat /\ next_salt <= next_salt'
  BY <1>2, InvNext
<1>5. /\ TreePart' /\ LeafPart' /\ CipherPart' /\ SpentPart' /\ ValuePart' /\ AuditPart'
      /\ LeavesStay /\ tree.next_index \in Nat /\ UNCHANGED <<tree, nullifiers>> /\ next_salt \in Nat
  BY <1>4, PoolStill
<1>6. UnshieldOk(msg)'
  BY <1>3, <1>4, <1>5, Steady
<1>7. MsgPart' /\ ApartPart'
  BY <1>1, <1>3, <1>4, <1>5, <1>6, MessagePlaced
<1> QED BY <1>5, <1>7 DEF WalletInv

\* A wallet gives up on a message.
LEMMA RetireInv ==
    ASSUME WalletInv, NEW slot \in ProofSlots, Retire(slot)
    PROVE  WalletInv'
<1>1. LeafPart /\ CipherPart /\ MsgPart /\ ApartPart
  BY DEF WalletInv
<1>2. /\ inflight' = [inflight EXCEPT ![slot] = Nothing]
      /\ UNCHANGED <<poolVars, transferred>> /\ next_salt' = next_salt
  BY DEF Retire
<1>3. next_salt' \in Nat /\ next_salt <= next_salt'
  BY <1>2, InvNext
<1>4. /\ TreePart' /\ LeafPart' /\ CipherPart' /\ SpentPart' /\ ValuePart' /\ AuditPart'
      /\ LeavesStay /\ tree.next_index \in Nat /\ UNCHANGED <<tree, nullifiers>> /\ next_salt \in Nat
  BY <1>2, <1>3, PoolStill
<1>5. MsgPart' /\ ApartPart'
  BY <1>1, <1>2, <1>3, <1>4, MessagePlaced
<1> QED BY <1>4, <1>5 DEF WalletInv

(***************************************************************************)
(* A wallet makes the sanctions proof of a message again: what the message *)
(* spends, creates and encrypts stays what it was.                         *)
(***************************************************************************)
LEMMA RenewInv ==
    ASSUME WalletInv, NEW slot \in ProofSlots, Renew(slot)
    PROVE  WalletInv'
<1>1. PICK msg : msg = inflight[slot]
  OBVIOUS
<1>2. PICK new : new = Message(msg, msg.encrypted_outputs)
  OBVIOUS
<1>3. /\ msg.kind = "transfer" /\ inflight' = [inflight EXCEPT ![slot] = new]
      /\ UNCHANGED <<poolVars, transferred>> /\ next_salt' = next_salt
  BY <1>1, <1>2 DEF Renew
<1>4. /\ new.kind = "transfer" /\ new.nullifiers = msg.nullifiers
      /\ new.output_commitments = msg.output_commitments
      /\ new.encrypted_outputs = msg.encrypted_outputs /\ new.transfer_amount = msg.transfer_amount
  BY <1>2 DEF Message
<1>5. /\ TreePart' /\ LeafPart' /\ CipherPart' /\ SpentPart' /\ ValuePart' /\ AuditPart'
      /\ LeavesStay /\ tree.next_index \in Nat /\ UNCHANGED <<tree, nullifiers>> /\ next_salt \in Nat
  <2>1. next_salt' \in Nat /\ next_salt <= next_salt'
    BY <1>3, InvNext
  <2> QED BY <2>1, <1>3, PoolStill
<1>6. /\ DOMAIN inflight = ProofSlots /\ MsgPart /\ ApartPart
      /\ inflight'[slot] = new /\ \A s \in ProofSlots : s # slot => inflight'[s] = inflight[s]
  BY <1>3 DEF WalletInv, MsgPart
<1>7. TransferOk(new)' /\ Unused(new)'
  <2>1. TransferOk(msg) /\ Unused(msg)
    <3>1. Nothing.kind # "transfer" /\ "unshield" # "transfer"
      BY DEF Nothing
    <3> QED BY <1>1, <1>3, <1>6, <3>1 DEF MsgPart
  <2>2. InputsOk(new) /\ OutputsOk(new) /\ BalanceOk(new)
    BY <1>4, <2>1 DEF TransferOk, InputsOk, OutputsOk, BalanceOk, Inputs
  <2>3. Unused(new)
    BY <1>4, <2>1 DEF Unused, SpentInput
  <2>4. TransferOk(new)'
    BY <1>3, <1>5, <2>2, Steady DEF TransferOk
  <2> QED BY <1>5, <2>3, <2>4 DEF Unused, SpentInput
<1>8. ASSUME NEW s \in ProofSlots
      PROVE  \/ inflight'[s] = Nothing
             \/ inflight'[s].kind = "transfer" /\ TransferOk(inflight[s])' /\ Unused(inflight[s])'
             \/ inflight'[s].kind = "unshield" /\ UnshieldOk(inflight[s])'
  <2>1. CASE s = slot
    BY <1>4, <1>6, <1>7, <2>1
  <2>2. CASE s # slot
    <3>1. PICK m : m = inflight[s]
      OBVIOUS
    <3>2. inflight'[s] = m
      BY <1>6, <2>2, <3>1
    <3>3. TransferOk(m) => TransferOk(m)'
      BY <1>3, <1>5, Steady DEF TransferOk
    <3>4. UnshieldOk(m) => UnshieldOk(m)'
      BY <1>3, <1>5, Steady
    <3>5. Unused(m) => Unused(m)'
      BY <1>5 DEF Unused, SpentInput
    <3>6. m = Nothing \/ (m.kind = "transfer" /\ TransferOk(m) /\ Unused(m)) \/ (m.kind = "unshield" /\ UnshieldOk(m))
      BY <1>6, <3>1 DEF MsgPart, IsTransfer
    <3>7. \/ m = Nothing \/ (m.kind = "transfer" /\ TransferOk(m)' /\ Unused(m)')
          \/ (m.kind = "unshield" /\ UnshieldOk(m)')
      BY <3>3, <3>4, <3>5, <3>6
    <3> QED BY <3>2, <3>7
  <2> QED BY <2>1, <2>2
<1>9. MsgPart'
  <2>1. DOMAIN inflight' = ProofSlots
    BY <1>3, <1>6
  <2> QED BY <1>8, <2>1 DEF MsgPart, IsTransfer
<1>10. ApartPart'
  <2>1. \A s \in ProofSlots : IsTransfer(s)' =>
           IsTransfer(s) /\ inflight'[s].output_commitments = inflight[s].output_commitments
    BY <1>1, <1>3, <1>4, <1>6 DEF IsTransfer
  <2> QED BY <1>6, <2>1 DEF ApartPart
<1> QED BY <1>5, <1>9, <1>10 DEF WalletInv

\* A note is shielded.
LEMMA ShieldNoteInv ==
    ASSUME NotesCollisionFree, WalletInv,
           NEW w \in Shielders, NEW asset \in Assets, NEW amount \in ShieldAmounts, ShieldNote(w, asset, amount)
    PROVE  WalletInv'
<1>0. PICK note : note = NoteOf(w, amount, asset, next_salt)
  OBVIOUS
<1> DEFINE c == HashNote(note)
           outs == <<c>>
           enc == <<Encrypted(note)>>
<1>1. /\ next_salt <= MaxSalt /\ next_salt' = next_salt + 1
      /\ well_formed(note) /\ Insert(outs) /\ StoreEncrypted(outs, enc)
      /\ Credit(note.asset_id, note.amount)
      /\ UNCHANGED <<spendVars, complianceVars, inflight, transferred>>
  BY <1>0, Zenon DEF ShieldNote, handle_shield
<1>2. /\ TreePart /\ LeafPart /\ CipherPart /\ SpentPart /\ MsgPart /\ ApartPart /\ ValuePart /\ AuditPart
      /\ tree.next_index \in Nat /\ next_salt \in Nat \ {0} /\ MaxSalt \in Nat
  BY InvNext, WalletFacts DEF WalletInv
<1>3. note \in WalletNotes
  <2>1. w \in Wallets /\ amount \in 0 .. U64 - 1
    BY WalletAssumption
  <2>2. next_salt \in 1 .. MaxSalt
    BY <1>1, <1>2
  <2> QED BY <2>1, <2>2, <1>0, NoteMade, Zenon
<1>4. note.salt = next_salt /\ note.amount = amount /\ note.asset_id = asset
  BY <1>0 DEF NoteOf
<1>5. NoteBehind(c) = note /\ c \in Leaves /\ note.amount \in Nat /\ note.amount > 0
  <2>1. note \in Notes /\ HashNote(note) \in Leaves /\ note.amount \in Nat
    BY <1>3, WalletFacts
  <2>2. note.amount # 0
    BY <1>1 DEF well_formed
  <2> QED BY <2>1, <2>2, NoteOfHash
<1>6. PICK d : d = c
  OBVIOUS
<1>7. Known(d)'
  BY <1>1, <1>2, <1>3, <1>4, <1>5, <1>6 DEF Known
<1>8. \A i \in 1 .. tree.next_index : NoteBehind(tree.commitments[i]).salt # next_salt
  BY <1>2, WalletFacts DEF LeafPart, Known
<1>9. outs \in Seq(Leaves) /\ Len(outs) = 1 /\ Len(enc) = 1 /\ DOMAIN outs = {1} /\ outs[1] = c
  BY <1>5
<1>10. next_salt' \in Nat /\ next_salt <= next_salt' /\ next_salt \in Nat
  BY <1>1, <1>2
<1>11. /\ TreePart' /\ LeafPart' /\ CipherPart' /\ LeavesStay
       /\ tree'.next_index = tree.next_index + Len(outs)
       /\ \A k \in 1 .. Len(outs) : tree'.commitments[tree.next_index + k] = outs[k]
  <2> DEFINE os == <<d>>
  <2>1. os \in Seq(Leaves) /\ Len(enc) = Len(os) /\ Insert(os) /\ StoreEncrypted(os, enc) /\ DOMAIN os = {1}
    BY <1>1, <1>6, <1>9
  <2>2. ASSUME NEW k \in DOMAIN os
        PROVE  /\ enc[k] = Encrypted(NoteBehind(os[k])) /\ Known(os[k])'
               /\ \A l \in DOMAIN os : NoteBehind(os[k]).salt = NoteBehind(os[l]).salt => k = l
               /\ \A i \in 1 .. tree.next_index : NoteBehind(os[k]).salt # NoteBehind(tree.commitments[i]).salt
    <3>1. k = 1 /\ os[k] = d /\ enc[k] = Encrypted(note)
      BY <2>1
    <3>2. NoteBehind(os[k]) = note /\ Known(os[k])'
      BY <3>1, <1>5, <1>6, <1>7
    <3> HIDE DEF enc, os
    <3>3. \A i \in 1 .. tree.next_index : NoteBehind(os[k]).salt # NoteBehind(tree.commitments[i]).salt
      BY <3>2, <1>4, <1>8
    <3> QED BY <2>1, <3>1, <3>2, <3>3
  <2> HIDE DEF os, enc
  <2>3. /\ TreePart' /\ LeafPart' /\ CipherPart' /\ LeavesStay
        /\ tree'.next_index = tree.next_index + Len(os)
        /\ \A k \in 1 .. Len(os) : tree'.commitments[tree.next_index + k] = os[k]
    BY <1>2, <1>10, <2>1, <2>2, LeavesAdded
  <2>4. os = outs
    BY <1>6 DEF os
  <2> QED BY <2>3, <2>4
<1>12. Committed \subseteq Committed' /\ nullifiers' = nullifiers
  <2>1. Committed \subseteq Committed'
    BY <1>2, <1>10, <1>11, Steady
  <2> QED BY <2>1, <1>1 DEF spendVars
<1>13. SpentPart'
  BY <1>2, <1>12, SpentGrows
<1>14. AuditPart'
  BY <1>1, <1>2, <1>11, <1>12, AuditKept
<1>15. MsgPart' /\ ApartPart'
  <2>1. ASSUME NEW s \in ProofSlots, IsTransfer(s) PROVE Unused(inflight[s])'
    <3>1. PICK m : m = inflight[s]
      OBVIOUS
    <3>2. Nothing.kind # "transfer" /\ "unshield" # "transfer"
      BY DEF Nothing
    <3>3. OutputsOk(m) /\ Unused(m)
      BY <1>2, <2>1, <3>1, <3>2 DEF MsgPart, IsTransfer, TransferOk
    <3>4. \A k \in DOMAIN m.output_commitments : NoteBehind(m.output_commitments[k]).salt < next_salt
      BY <3>3 DEF OutputsOk, Known
    <3>5. \A k \in DOMAIN m.output_commitments : NoteBehind(m.output_commitments[k]).salt \in Nat
      BY <3>3, WalletFacts DEF OutputsOk, Known
    <3>6. \A i \in tree.next_index + 1 .. tree'.next_index : tree'.commitments[i] = c
      <4> HIDE DEF outs, c
      <4>1. tree'.commitments[tree.next_index + 1] = c
        BY <1>9, <1>11
      <4> QED BY <4>1, <1>2, <1>9, <1>11
    <3>7. \A k \in DOMAIN m.output_commitments, i \in tree.next_index + 1 .. tree'.next_index :
             NoteBehind(m.output_commitments[k]).salt # NoteBehind(tree'.commitments[i]).salt
      BY <3>4, <3>5, <3>6, <1>2, <1>4, <1>5
    <3>8. Unused(m)'
      BY <1>2, <1>11, <1>12, <3>3, <3>7, StaysUnused
    <3>9. inflight'[s] = m
      BY <1>1, <3>1
    <3> QED BY <3>8, <3>9
  <2>2. inflight' = inflight
    BY <1>1
  <2> QED BY <1>2, <1>10, <1>11, <2>1, <2>2, MessagesKept
<1>16. ValuePart'
  <2>1. /\ minted' = [minted EXCEPT ![asset] = @ + amount] /\ burned' = burned
    BY <1>1, <1>4 DEF Credit
  <2>2. ASSUME NEW a \in Assets
        PROVE  /\ Value(a) \in Nat
               /\ Value(a)' = Value(a) + (IF a = asset THEN amount ELSE 0)
    <3>1. PICK I : I = {}
      OBVIOUS
    <3>2. /\ I \in SUBSET Live
          /\ \A x : Nf(x) \in nullifiers' <=> Nf(x) \in nullifiers \/ \E i \in I : x = tree.commitments[i]
      BY <3>1, <1>12
    <3>3. /\ Value(a)' + SumOver(Amt, I \cap LiveOf(a))
               = Value(a) + SumOver(AmountsOf(outs), OfAsset(outs, a))
          /\ Value(a) \in Nat /\ Value(a)' \in Nat
      <4>1. outs \in Seq(Leaves) /\ LeavesStay /\ LeafPart /\ LeafPart' /\ SpentPart /\ tree.next_index \in Nat
        BY <1>2, <1>9, <1>11
      <4> HIDE DEF outs
      <4> QED BY <4>1, <1>11, <3>2, ValueMoves
    <3>4. SumOver(Amt, I \cap LiveOf(a)) = 0
      <4>1. I \cap LiveOf(a) = {}
        BY <3>1
      <4> QED BY <4>1, SumEmpty
    <3> DEFINE amounts == AmountsOf(outs)  ofAsset == OfAsset(outs, a)
    <3>5. SumOver(amounts, ofAsset) = IF a = asset THEN amount ELSE 0
      <4>1. amounts[1] = amount /\ amount \in Nat
        BY <1>4, <1>5, <1>9 DEF AmountsOf
      <4>2. CASE a = asset
        <5>1. ofAsset = {1}
          BY <4>2, <1>4, <1>5, <1>9 DEF OfAsset
        <5> HIDE DEF amounts, ofAsset
        <5> QED BY <4>1, <4>2, <5>1, SumSingle
      <4>3. CASE a # asset
        <5>1. ofAsset = {}
          BY <4>3, <1>4, <1>5, <1>9 DEF OfAsset
        <5> QED BY <4>3, <5>1, SumEmpty
      <4> QED BY <4>2, <4>3
    <3> HIDE DEF outs
    <3>6. amount \in Nat /\ Value(a) \in Nat /\ Value(a)' \in Nat
      BY <1>4, <1>5, <3>3
    <3>7. Value(a)' + 0 = Value(a) + (IF a = asset THEN amount ELSE 0)
      BY <3>3, <3>4, <3>5
    <3> QED BY <3>6, <3>7
  <2>3. amount \in Nat
    BY <1>4, <1>5
  <2>4. minted' \in [Assets -> Nat] /\ burned' \in [Assets -> Nat]
    BY <1>2, <2>1, <2>3 DEF ValuePart
  <2>5. ASSUME NEW a \in Assets PROVE Value(a)' + burned'[a] = minted'[a]
    <3>1. Value(a) + burned[a] = minted[a] /\ burned[a] \in Nat /\ minted[a] \in Nat /\ burned'[a] = burned[a]
      BY <1>2, <2>1 DEF ValuePart
    <3>2. minted'[a] = minted[a] + (IF a = asset THEN amount ELSE 0)
      BY <1>2, <2>1, <2>3 DEF ValuePart
    <3> QED BY <2>2, <2>3, <3>1, <3>2
  <2> QED BY <2>4, <2>5 DEF ValuePart
<1> QED BY <1>11, <1>13, <1>14, <1>15, <1>16 DEF WalletInv

\* The leaves whose nullifiers a message reveals.
SpentBy(msg) == {i \in 1 .. tree.next_index :
                    \E k \in DOMAIN msg.nullifiers : msg.nullifiers[k].of = tree.commitments[i]}

(***************************************************************************)
(* What spending the inputs of a message does: they were live leaves, one  *)
(* for each nullifier, and no other leaf is spent.                         *)
(***************************************************************************)
LEMMA InputsSpent ==
    ASSUME LeafPart, tree.next_index \in Nat, NEW msg, InputsOk(msg), Spend(msg.nullifiers)
    PROVE  /\ SpentBy(msg) \subseteq Live
           /\ \A x : Nf(x) \in nullifiers' <=> Nf(x) \in nullifiers \/ \E i \in SpentBy(msg) : x = tree.commitments[i]
           /\ \A x \in nullifiers' : x \in nullifiers \/ x.of \in Committed
           /\ nullifiers \subseteq nullifiers' /\ ~ SpentInput(msg) /\ SpentInput(msg)'
           /\ SumOver(Amt, SpentBy(msg)) = Vol(Inputs(msg))
<1> DEFINE N == msg.nullifiers
           I == SpentBy(msg)
           D == DOMAIN N
           C(i) == tree.commitments[i]
<1>1. /\ N \in Seq({Nf(c) : c \in Leaves}) /\ N # << >> /\ D = 1 .. Len(N) /\ Len(N) \in Nat
      /\ \A k \in D : N[k].of \in Committed /\ N[k] = Nf(N[k].of)
      /\ \A k, l \in D : N[k] = N[l] => k = l
  BY DEF InputsOk
<1>2. /\ \A k \in D : N[k] \notin nullifiers
      /\ \A x : x \in nullifiers' <=> x \in nullifiers \/ \E k \in D : x = N[k]
  BY <1>1 DEF Spend
<1>3. \A i \in I : i \in 1 .. tree.next_index /\ \E k \in D : N[k].of = C(i)
  BY DEF SpentBy
<1>4. \A k \in D : \E i \in I : N[k].of = C(i)
  <2> SUFFICES ASSUME NEW k \in D PROVE \E i \in I : N[k].of = C(i)
    OBVIOUS
  <2>1. N[k].of \in Committed
    BY <1>1
  <2>2. PICK i \in 1 .. tree.next_index : N[k].of = C(i)
    BY <2>1 DEF Committed
  <2>3. i \in I
    BY <2>2 DEF SpentBy
  <2> QED BY <2>2, <2>3
<1>5. \A i, j \in 1 .. tree.next_index : C(i) = C(j) => i = j
  BY DEF LeafPart
<1>6. I \subseteq Live
  <2> SUFFICES ASSUME NEW i \in I PROVE i \in Live
    OBVIOUS
  <2>1. PICK k \in D : N[k].of = C(i)
    BY <1>3
  <2>2. Nf(C(i)) \notin nullifiers
    BY <2>1, <1>1, <1>2
  <2> QED BY <2>2, <1>3, LiveIs DEF LiveLeaf
<1> HIDE DEF I, D, N
<1>7. ASSUME NEW x
      PROVE  Nf(x) \in nullifiers' <=> Nf(x) \in nullifiers \/ \E i \in I : x = C(i)
  <2>1. ASSUME NEW k \in D, Nf(x) = N[k] PROVE \E i \in I : x = C(i)
    <3>1. x = N[k].of
      BY <2>1, NfFacts
    <3> QED BY <3>1, <1>4
  <2>2. ASSUME NEW i \in I, x = C(i) PROVE \E k \in D : Nf(x) = N[k]
    <3>1. PICK k \in D : N[k].of = C(i)
      BY <1>3
    <3> QED BY <3>1, <2>2, <1>1
  <2> QED BY <2>1, <2>2, <1>2
<1>8. \A x \in nullifiers' : x \in nullifiers \/ x.of \in Committed
  BY <1>1, <1>2
<1>9. nullifiers \subseteq nullifiers' /\ ~ SpentInput(msg) /\ SpentInput(msg)'
  <2>1. 1 \in D
    BY <1>1
  <2> QED BY <2>1, <1>2 DEF SpentInput, D, N
<1>10. SumOver(Amt, I) = Vol(Inputs(msg))
  <2> DEFINE F == [k \in D |-> NoteBehind(N[k].of).amount]
             at == [k \in D |-> CHOOSE i \in I : N[k].of = C(i)]
  <2>1. \A k \in D : at[k] \in I /\ N[k].of = C(at[k])
    BY <1>4
  <2>2. at \in [D -> I]
    BY <2>1
  <2> HIDE DEF at
  <2>3. \A k \in D : F[k] \in Nat /\ Amt[at[k]] = F[k]
    <3> SUFFICES ASSUME NEW k \in D PROVE F[k] \in Nat /\ Amt[at[k]] = F[k]
      OBVIOUS
    <3>1. at[k] \in 1 .. tree.next_index /\ N[k].of = C(at[k])
      BY <2>1, <1>3
    <3>2. NoteBehind(C(at[k])).amount \in Nat
      BY <3>1, WalletFacts DEF LeafPart, Known
    <3>3. Amt[at[k]] = NoteBehind(C(at[k])).amount
      BY <3>1 DEF Amt
    <3> QED BY <3>1, <3>2, <3>3
  <2>4. \A k, l \in D : at[k] = at[l] => k = l
    <3> SUFFICES ASSUME NEW k \in D, NEW l \in D, at[k] = at[l] PROVE k = l
      OBVIOUS
    <3>1. N[k].of = N[l].of
      BY <2>1
    <3>2. N[k] = N[l]
      BY <3>1, <1>1
    <3> QED BY <3>2, <1>1
  <2>5. \A i \in I : \E k \in D : at[k] = i
    <3> SUFFICES ASSUME NEW i \in I PROVE \E k \in D : at[k] = i
      OBVIOUS
    <3>1. PICK k \in D : N[k].of = C(i)
      BY <1>3
    <3>2. at[k] \in 1 .. tree.next_index /\ i \in 1 .. tree.next_index /\ C(at[k]) = C(i)
      BY <3>1, <2>1, <1>3
    <3> QED BY <3>2, <1>5
  <2>6. IsFiniteSet(D) /\ IsFiniteSet(I)
    <3>1. IsFiniteSet(D)
      BY <1>1, FS_Interval
    <3>2. I \in SUBSET (1 .. tree.next_index)
      BY <1>3
    <3> QED BY <3>1, <3>2, AmountsCount
  <2> HIDE DEF F
  <2>7. SumOver(F, D) = SumOver(Amt, I)
    BY <2>2, <2>3, <2>4, <2>5, <2>6, SumBijection
  <2>8. Vol(Inputs(msg)) = SumOver(F, D)
    <3>1. DOMAIN Inputs(msg) = D /\ [k \in DOMAIN Inputs(msg) |-> NoteBehind(Inputs(msg)[k]).amount] = F
      BY DEF Inputs, F, D, N
    <3> QED BY <3>1 DEF Vol
  <2> QED BY <2>7, <2>8
<1> QED BY <1>6, <1>7, <1>8, <1>9, <1>10 DEF I

\* The outputs of a balanced transfer are worth its inputs, in every asset.
LEMMA BalancedMove ==
    ASSUME LeafPart, tree.next_index \in Nat, NEW msg, InputsOk(msg), OutputsOk(msg), BalanceOk(msg),
           SpentBy(msg) \subseteq Live, SumOver(Amt, SpentBy(msg)) = Vol(Inputs(msg)), NEW asset
    PROVE  SumOver(Amt, SpentBy(msg) \cap LiveOf(asset))
             = SumOver(AmountsOf(msg.output_commitments), OfAsset(msg.output_commitments, asset))
<1> DEFINE I == SpentBy(msg)
           outs == msg.output_commitments
<1>1. /\ \A i \in I : i \in Live /\ i \in 1 .. tree.next_index
                      /\ \E k \in DOMAIN msg.nullifiers : msg.nullifiers[k].of = tree.commitments[i]
  BY DEF SpentBy
<1>2. /\ 1 \in DOMAIN msg.nullifiers /\ 1 \in DOMAIN outs
      /\ \A k \in DOMAIN msg.nullifiers : msg.nullifiers[k].of \in Committed
  BY DEF InputsOk, OutputsOk
<1>3. /\ \A i \in I, l \in DOMAIN outs :
           NoteBehind(tree.commitments[i]).asset_id = NoteBehind(outs[l]).asset_id
      /\ \E i \in I : TRUE
  <2>1. \A k \in DOMAIN msg.nullifiers, l \in DOMAIN outs :
           NoteBehind(msg.nullifiers[k].of).asset_id = NoteBehind(outs[l]).asset_id
    BY DEF BalanceOk
  <2>2. PICK i \in 1 .. tree.next_index : msg.nullifiers[1].of = tree.commitments[i]
    BY <1>2 DEF Committed
  <2>3. i \in I
    BY <1>2, <2>2 DEF SpentBy
  <2>4. ASSUME NEW j \in I, NEW l \in DOMAIN outs
        PROVE  NoteBehind(tree.commitments[j]).asset_id = NoteBehind(outs[l]).asset_id
    <3>1. PICK k \in DOMAIN msg.nullifiers : msg.nullifiers[k].of = tree.commitments[j]
      BY <1>1
    <3> HIDE DEF outs
    <3> QED BY <3>1, <2>1
  <2> QED BY <2>3, <2>4
<1>4. CASE NoteBehind(outs[1]).asset_id = asset
  <2>1. I \cap LiveOf(asset) = I
    BY <1>1, <1>2, <1>3, <1>4 DEF LiveOf
  <2>2. OfAsset(outs, asset) = DOMAIN outs
    BY <1>2, <1>3, <1>4 DEF OfAsset
  <2>3. Vol(outs) = SumOver(AmountsOf(outs), DOMAIN outs)
    BY DEF Vol, AmountsOf
  <2>4. Vol(Inputs(msg)) = Vol(outs)
    BY DEF BalanceOk
  <2> QED BY <2>1, <2>2, <2>3, <2>4
<1>5. CASE NoteBehind(outs[1]).asset_id # asset
  <2>1. I \cap LiveOf(asset) = {}
    BY <1>1, <1>2, <1>3, <1>5 DEF LiveOf
  <2>2. OfAsset(outs, asset) = {}
    BY <1>2, <1>3, <1>5 DEF OfAsset
  <2> QED BY <2>1, <2>2, SumEmpty
<1> QED BY <1>4, <1>5

\* A transfer is executed.
LEMMA ExecuteTransferInv ==
    ASSUME WalletInv, NEW slot \in ProofSlots, ExecuteTransfer(slot)
    PROVE  WalletInv'
<1>0. PICK msg : msg = inflight[slot]
  OBVIOUS
<1>00. PICK outs : outs = msg.output_commitments
  OBVIOUS
<1>1. /\ msg.kind = "transfer" /\ IsTransfer(slot)
      /\ Spend(msg.nullifiers) /\ Insert(outs) /\ StoreEncrypted(outs, msg.encrypted_outputs)
      /\ compliance_tx_count' = wrap(compliance_tx_count + 1)
      /\ compliance_total_volume' = wrap(compliance_total_volume + msg.transfer_amount)
      /\ UNCHANGED supplyVars /\ inflight' = inflight /\ next_salt' = next_salt
      /\ transferred' = Append(transferred, outs)
  BY <1>0, <1>00, Zenon DEF ExecuteTransfer, handle_transfer, IsTransfer
<1>2. /\ TreePart /\ LeafPart /\ CipherPart /\ SpentPart /\ MsgPart /\ ApartPart /\ ValuePart /\ AuditPart
      /\ tree.next_index \in Nat /\ next_salt \in Nat
  BY InvNext DEF WalletInv
<1>3. InputsOk(msg) /\ OutputsOk(msg) /\ BalanceOk(msg) /\ Unused(msg)
  <2>1. Nothing.kind # "transfer" /\ "unshield" # "transfer"
    BY DEF Nothing
  <2> QED BY <1>0, <1>1, <1>2, <2>1 DEF MsgPart, TransferOk
<1>4. /\ SpentBy(msg) \subseteq Live
      /\ \A x : Nf(x) \in nullifiers' <=> Nf(x) \in nullifiers \/ \E i \in SpentBy(msg) : x = tree.commitments[i]
      /\ \A x \in nullifiers' : x \in nullifiers \/ x.of \in Committed
      /\ nullifiers \subseteq nullifiers' /\ ~ SpentInput(msg) /\ SpentInput(msg)'
      /\ SumOver(Amt, SpentBy(msg)) = Vol(Inputs(msg))
  BY <1>1, <1>2, <1>3, InputsSpent
<1>5. /\ outs \in Seq(Leaves) /\ outs # << >> /\ DOMAIN outs = 1 .. Len(outs) /\ Len(outs) \in Nat
      /\ Len(msg.encrypted_outputs) = Len(outs)
      /\ \A k \in DOMAIN outs :
            /\ Known(outs[k]) /\ msg.encrypted_outputs[k] = Encrypted(NoteBehind(outs[k]))
            /\ \A l \in DOMAIN outs : NoteBehind(outs[k]).salt = NoteBehind(outs[l]).salt => k = l
  BY <1>00, <1>3 DEF OutputsOk
<1>6. \A k \in DOMAIN outs, i \in 1 .. tree.next_index :
         NoteBehind(outs[k]).salt # NoteBehind(tree.commitments[i]).salt
  BY <1>00, <1>3, <1>4 DEF Unused
<1>7. next_salt' \in Nat /\ next_salt <= next_salt'
  BY <1>1, <1>2
<1>8. /\ TreePart' /\ LeafPart' /\ CipherPart' /\ LeavesStay
      /\ tree'.next_index = tree.next_index + Len(outs)
      /\ \A k \in 1 .. Len(outs) : tree'.commitments[tree.next_index + k] = outs[k]
  <2>1. \A k \in DOMAIN outs : Known(outs[k])'
    BY <1>1, <1>5 DEF Known
  <2> QED BY <1>1, <1>2, <1>5, <1>6, <1>7, <2>1, LeavesAdded
<1>9. Committed \subseteq Committed'
  BY <1>2, <1>7, <1>8, Steady
<1>10. SpentPart'
  BY <1>2, <1>4, <1>9, SpentGrows
<1>11. \A k \in DOMAIN outs : outs[k] \in Committed'
  <2> SUFFICES ASSUME NEW k \in 1 .. Len(outs) PROVE outs[k] \in Committed'
    BY <1>5
  <2>1. tree.next_index + k \in 1 .. tree'.next_index /\ tree'.commitments[tree.next_index + k] = outs[k]
    BY <1>2, <1>5, <1>8
  <2> QED BY <2>1 DEF Committed
<1>12. AuditPart'
  <2>1. msg.transfer_amount = Vol(outs)
    BY <1>00, <1>3 DEF BalanceOk
  <2> QED BY <1>1, <1>2, <1>5, <1>8, <1>9, <1>11, <2>1, AuditAdds
<1>13. MsgPart' /\ ApartPart'
  <2>1. ASSUME NEW s \in ProofSlots, IsTransfer(s) PROVE Unused(inflight[s])'
    <3>1. PICK m : m = inflight[s]
      OBVIOUS
    <3>2. Unused(m)
      <4>1. Nothing.kind # "transfer" /\ "unshield" # "transfer"
        BY DEF Nothing
      <4> QED BY <1>2, <2>1, <3>1, <4>1 DEF MsgPart, IsTransfer
    <3>3. CASE s = slot
      <4>1. m = msg
        BY <1>0, <3>1, <3>3
      <4>2. Unused(m)'
        BY <4>1, <1>4 DEF Unused
      <4> QED BY <4>2, <1>1, <3>1
    <3>4. CASE s # slot
      <4>1. \A k \in DOMAIN m.output_commitments, l \in DOMAIN outs :
               NoteBehind(m.output_commitments[k]).salt # NoteBehind(outs[l]).salt
        BY <1>0, <1>00, <1>1, <1>2, <2>1, <3>1, <3>4 DEF ApartPart
      <4>2. ASSUME NEW i \in tree.next_index + 1 .. tree'.next_index
            PROVE  \E l \in DOMAIN outs : tree'.commitments[i] = outs[l]
        <5>1. i - tree.next_index \in 1 .. Len(outs) /\ tree.next_index + (i - tree.next_index) = i
          BY <1>2, <1>5, <1>8
        <5>2. tree'.commitments[i] = outs[i - tree.next_index]
          BY <5>1, <1>8
        <5> QED BY <5>1, <5>2, <1>5
      <4>3. \A k \in DOMAIN m.output_commitments, i \in tree.next_index + 1 .. tree'.next_index :
               NoteBehind(m.output_commitments[k]).salt # NoteBehind(tree'.commitments[i]).salt
        BY <4>1, <4>2
      <4>4. Unused(m)'
        BY <1>2, <1>4, <1>8, <3>2, <4>3, StaysUnused
      <4> QED BY <4>4, <1>1, <3>1
    <3> QED BY <3>3, <3>4
  <2> QED BY <1>1, <1>2, <1>7, <1>8, <2>1, MessagesKept
<1>14. ValuePart'
  <2>1. minted' = minted /\ burned' = burned
    BY <1>1 DEF supplyVars
  <2>2. ASSUME NEW a \in Assets PROVE Value(a)' = Value(a)
    <3>1. /\ Value(a)' + SumOver(Amt, SpentBy(msg) \cap LiveOf(a))
               = Value(a) + SumOver(AmountsOf(outs), OfAsset(outs, a))
          /\ Value(a) \in Nat /\ Value(a)' \in Nat
          /\ SumOver(AmountsOf(outs), OfAsset(outs, a)) \in Nat
      <4>1. SpentBy(msg) \in SUBSET Live
        BY <1>4
      <4> QED BY <1>2, <1>4, <1>5, <1>8, <4>1, ValueMoves
    <3>2. SumOver(Amt, SpentBy(msg) \cap LiveOf(a)) = SumOver(AmountsOf(outs), OfAsset(outs, a))
      BY <1>00, <1>2, <1>3, <1>4, BalancedMove
    <3> QED BY <3>1, <3>2
  <2> QED BY <1>2, <2>1, <2>2 DEF ValuePart
<1> QED BY <1>8, <1>10, <1>12, <1>13, <1>14 DEF WalletInv

\* An unshield is executed.
LEMMA ExecuteUnshieldInv ==
    ASSUME WalletInv, NEW slot \in ProofSlots, ExecuteUnshield(slot)
    PROVE  WalletInv'
<1>0. PICK msg : msg = inflight[slot]
  OBVIOUS
<1>1. /\ msg.kind = "unshield" /\ Spend(<<msg.nullifiers[1]>>) /\ Debit(msg.asset_id, msg.amount)
      /\ UNCHANGED <<tree, root_log>> /\ UNCHANGED complianceVars /\ encrypted_notes' = encrypted_notes
      /\ inflight' = inflight /\ next_salt' = next_salt /\ transferred' = transferred
  BY <1>0, Zenon DEF ExecuteUnshield, handle_unshield, treeVars, walletVars
<1>2. /\ TreePart /\ LeafPart /\ CipherPart /\ SpentPart /\ MsgPart /\ ApartPart /\ ValuePart /\ AuditPart
      /\ tree.next_index \in Nat /\ next_salt \in Nat
  BY InvNext DEF WalletInv
<1>3. /\ InputsOk(msg) /\ Len(msg.nullifiers) = 1
      /\ msg.asset_id = NoteBehind(msg.nullifiers[1].of).asset_id
      /\ msg.amount = NoteBehind(msg.nullifiers[1].of).amount
  <2>1. Nothing.kind # "unshield" /\ "unshield" # "transfer"
    BY DEF Nothing
  <2> QED BY <1>0, <1>1, <1>2, <2>1 DEF MsgPart, IsTransfer, UnshieldOk
<1>4. DOMAIN msg.nullifiers = {1} /\ Spend(msg.nullifiers)
  <2>1. PICK N : N = msg.nullifiers
    OBVIOUS
  <2>2. N \in Seq({Nf(c) : c \in Leaves}) /\ Len(N) = 1
    BY <2>1, <1>3 DEF InputsOk
  <2>3. N = <<N[1]>> /\ DOMAIN N = {1}
    BY <2>2
  <2>4. Spend(N)
    <3>1. PICK M : M = <<N[1]>>
      OBVIOUS
    <3>2. Spend(M) /\ M = N
      BY <3>1, <2>1, <2>3, <1>1
    <3> QED BY <3>2
  <2> QED BY <2>1, <2>3, <2>4
<1>5. /\ SpentBy(msg) \subseteq Live
      /\ \A x : Nf(x) \in nullifiers' <=> Nf(x) \in nullifiers \/ \E i \in SpentBy(msg) : x = tree.commitments[i]
      /\ \A x \in nullifiers' : x \in nullifiers \/ x.of \in Committed
      /\ nullifiers \subseteq nullifiers'
      /\ SumOver(Amt, SpentBy(msg)) = Vol(Inputs(msg))
  BY <1>2, <1>3, <1>4, InputsSpent
<1>6. LeavesStay /\ TreePart' /\ Committed' = Committed /\ UNCHANGED tree
  BY <1>1, <1>2 DEF LeavesStay, TreePart, RingInv, RootsMatchRebuild, SiblingsInv, Committed
<1>7. LeafPart' /\ CipherPart'
  <2>1. next_salt' = next_salt /\ tree' = tree /\ encrypted_notes' = encrypted_notes
    BY <1>1
  <2> QED BY <2>1, <1>2 DEF LeafPart, CipherPart, Committed, Known
<1>8. SpentPart'
  BY <1>2, <1>5, <1>6, SpentGrows
<1>9. AuditPart'
  BY <1>1, <1>2, <1>6, AuditKept
<1>10. MsgPart' /\ ApartPart'
  <2>1. ASSUME NEW s \in ProofSlots, IsTransfer(s) PROVE Unused(inflight[s])'
    <3>1. PICK m : m = inflight[s]
      OBVIOUS
    <3>2. Unused(m)
      <4>1. Nothing.kind # "transfer" /\ "unshield" # "transfer"
        BY DEF Nothing
      <4> QED BY <1>2, <2>1, <3>1, <4>1 DEF MsgPart, IsTransfer
    <3>3. \A i : ~ (i \in tree.next_index + 1 .. tree'.next_index)
      BY <1>2, <1>6
    <3>4. Unused(m)'
      BY <1>2, <1>5, <1>6, <3>2, <3>3, StaysUnused
    <3> QED BY <3>4, <1>1, <3>1
  <2>2. next_salt' \in Nat /\ next_salt <= next_salt'
    BY <1>1, <1>2
  <2> QED BY <1>1, <1>2, <1>6, <2>1, <2>2, MessagesKept
<1>11. \A i \in SpentBy(msg) : /\ i \in Live /\ NoteBehind(tree.commitments[i]).asset_id = msg.asset_id
  BY <1>3, <1>4, <1>5 DEF SpentBy
<1>12. PICK i \in 1 .. tree.next_index : msg.nullifiers[1].of = tree.commitments[i]
  BY <1>3, <1>4 DEF InputsOk, Committed
<1>13. msg.amount \in Nat /\ msg.asset_id \in Assets
  BY <1>2, <1>3, <1>12, WalletFacts DEF LeafPart, Known
<1>14. SumOver(Amt, SpentBy(msg)) = msg.amount
  <2> DEFINE F == [k \in DOMAIN Inputs(msg) |-> NoteBehind(Inputs(msg)[k]).amount]
  <2>1. DOMAIN Inputs(msg) = {1} /\ F[1] = msg.amount
    BY <1>3, <1>4 DEF Inputs
  <2>2. Vol(Inputs(msg)) = SumOver(F, DOMAIN Inputs(msg))
    BY DEF Vol
  <2> HIDE DEF F
  <2>3. SumOver(F, {1}) = F[1]
    BY <1>13, <2>1, SumSingle
  <2> QED BY <1>5, <2>1, <2>2, <2>3
<1>15. ValuePart'
  <2>1. minted' = minted /\ burned' = [burned EXCEPT ![msg.asset_id] = @ + msg.amount]
    BY <1>1 DEF Debit
  <2>2. ASSUME NEW a \in Assets
        PROVE  /\ Value(a)' \in Nat /\ Value(a) \in Nat
               /\ Value(a)' + (IF a = msg.asset_id THEN msg.amount ELSE 0) = Value(a)
    <3>1. PICK outs : outs = << >>
      OBVIOUS
    <3>2. /\ outs \in Seq(Leaves) /\ tree'.next_index = tree.next_index + Len(outs)
          /\ \A k \in 1 .. Len(outs) : tree'.commitments[tree.next_index + k] = outs[k]
          /\ DOMAIN outs = {}
      BY <3>1, <1>2, <1>6
    <3>3. /\ Value(a)' + SumOver(Amt, SpentBy(msg) \cap LiveOf(a))
               = Value(a) + SumOver(AmountsOf(outs), OfAsset(outs, a))
          /\ Value(a) \in Nat /\ Value(a)' \in Nat
      <4>1. SpentBy(msg) \in SUBSET Live
        BY <1>5
      <4> QED BY <1>2, <1>5, <1>6, <1>7, <3>2, <4>1, ValueMoves
    <3>4. SumOver(AmountsOf(outs), OfAsset(outs, a)) = 0
      <4>1. OfAsset(outs, a) = {}
        BY <3>2 DEF OfAsset
      <4> QED BY <4>1, SumEmpty
    <3>5. SumOver(Amt, SpentBy(msg) \cap LiveOf(a)) = IF a = msg.asset_id THEN msg.amount ELSE 0
      <4>1. CASE a = msg.asset_id
        <5>1. SpentBy(msg) \cap LiveOf(a) = SpentBy(msg)
          BY <1>11, <4>1 DEF LiveOf
        <5> QED BY <5>1, <4>1, <1>14
      <4>2. CASE a # msg.asset_id
        <5>1. SpentBy(msg) \cap LiveOf(a) = {}
          BY <1>11, <4>2 DEF LiveOf
        <5> QED BY <5>1, <4>2, SumEmpty
      <4> QED BY <4>1, <4>2
    <3> QED BY <3>3, <3>4, <3>5, <1>13
  <2>3. minted' \in [Assets -> Nat] /\ burned' \in [Assets -> Nat]
    BY <1>2, <1>13, <2>1 DEF ValuePart
  <2>4. ASSUME NEW a \in Assets PROVE Value(a)' + burned'[a] = minted'[a]
    <3>1. Value(a) + burned[a] = minted[a] /\ burned[a] \in Nat /\ minted[a] \in Nat /\ minted'[a] = minted[a]
      BY <1>2, <2>1 DEF ValuePart
    <3>2. burned'[a] = burned[a] + (IF a = msg.asset_id THEN msg.amount ELSE 0)
      BY <1>2, <1>13, <2>1 DEF ValuePart
    <3> QED BY <1>13, <2>2, <3>1, <3>2
  <2> QED BY <2>3, <2>4 DEF ValuePart
<1> QED BY <1>6, <1>7, <1>8, <1>9, <1>10, <1>15 DEF WalletInv

\* Every step of the wallets and of the pool keeps the invariant.
LEMMA WalletStep ==
    ASSUME NotesCollisionFree, WalletInv, [WalletsNext]_wVars
    PROVE  WalletInv'
<1>1. CASE UNCHANGED wVars
  BY <1>1, StillInv DEF wVars, walletVars, poolVars
<1>2. CASE \E w \in Shielders, asset \in Assets, amount \in ShieldAmounts : ShieldNote(w, asset, amount)
  BY <1>2, ShieldNoteInv
<1>3. CASE \E w \in Wallets, slot \in ProofSlots : ProveTransfer(w, slot)
  BY <1>3, ProveTransferInv
<1>4. CASE \E w \in Wallets, slot \in ProofSlots : ProveUnshield(w, slot)
  BY <1>4, ProveUnshieldInv
<1>5. CASE \E slot \in ProofSlots : ExecuteTransfer(slot)
  BY <1>5, ExecuteTransferInv
<1>6. CASE \E slot \in ProofSlots : ExecuteUnshield(slot)
  BY <1>6, ExecuteUnshieldInv
<1>7. CASE \E slot \in ProofSlots : Retire(slot)
  BY <1>7, RetireInv
<1>8. CASE \E slot \in ProofSlots : Renew(slot)
  BY <1>8, RenewInv
<1>9. CASE Tick
  BY <1>9, StillInv DEF Tick, poolVars
<1>10. CASE ListUpdated
  BY <1>10, StillInv DEF ListUpdated, UpdateSanctionsRoot, handle_update_sanctions_root, walletVars
<1> QED BY <1>1, <1>2, <1>3, <1>4, <1>5, <1>6, <1>7, <1>8, <1>9, <1>10, Zenon DEF WalletsNext, Settle

\* The invariant holds in every state the wallets and the pool reach.
THEOREM WalletsInvariant ==
    ASSUME NotesCollisionFree
    PROVE  WalletsSpec => []WalletInv
<1>1. WalletsInit => WalletInv
  BY WalletInitInv
<1>2. WalletInv /\ [WalletsNext]_wVars => WalletInv'
  BY WalletStep
<1> QED BY <1>1, <1>2, PTL DEF WalletsSpec

-----------------------------------------------------------------------------
\* g is the climb of the circuit, which shifts the index as it goes up.
IsGuest(g, leaf, index, siblings) ==
    g = [level \in 0 .. Len(siblings) |->
            IF level = 0 THEN [node |-> leaf, index |-> index]
            ELSE LET below == g[level - 1] IN
                 [node  |-> IF below.index % 2 = 0 THEN hash_pair(below.node, siblings[level])
                                                   ELSE hash_pair(siblings[level], below.node),
                  index |-> below.index \div 2]]

\* The circuit and MerkleProof::verify climb alike.
LEMMA GuestClimbs ==
    ASSUME NEW leaf, NEW index \in Nat, NEW siblings, Len(siblings) = TREE_DEPTH
    PROVE  Circuits!verify_merkle_inclusion(leaf, index, siblings, climb(leaf, index, siblings))
<1>0. TREE_DEPTH \in Nat
  BY DepthAssumption
<1>1. PICK f : Climbs(f, leaf, index, siblings)
  BY ClimbPath
<1>2. /\ f[0] = leaf /\ climb(leaf, index, siblings) = f[TREE_DEPTH]
      /\ \A l \in Levels :
           f[l + 1] = IF is_left(index, l) THEN hash_pair(f[l], siblings[l + 1])
                                           ELSE hash_pair(siblings[l + 1], f[l])
  BY <1>1 DEF Climbs
<1> DEFINE shr(l) == index \div pow2[l]
<1>3. /\ shr(0) = index /\ \A l \in Levels : shr(l + 1) = shr(l) \div 2
  <2>1. shr(0) = index
    <3>1. \A k \in Nat : k \div 1 = k
      OBVIOUS
    <3> QED BY <3>1, Pow2Facts
  <2>2. ASSUME NEW l \in Levels PROVE shr(l + 1) = shr(l) \div 2
    <3>1. pow2[l + 1] = 2 * pow2[l] /\ pow2[l] \in Nat \ {0}
      BY Pow2Facts, LevelFacts
    <3> QED BY <3>1, DivHalf
  <2> QED BY <2>1, <2>2
<1>4. \A l \in Levels : is_left(index, l) <=> shr(l) % 2 = 0
  BY DEF is_left
<1> HIDE DEF shr
<1>5. \A l \in 0 .. TREE_DEPTH : l = 0 \/ (l - 1 \in Levels /\ (l - 1) + 1 = l)
  BY <1>0 DEF Levels
<1> DEFINE g == [l \in 0 .. TREE_DEPTH |-> [node |-> f[l], index |-> shr(l)]]
           step(h, level) ==
               IF level = 0 THEN [node |-> leaf, index |-> index]
               ELSE [node  |-> IF h[level - 1].index % 2 = 0 THEN hash_pair(h[level - 1].node, siblings[level])
                                                             ELSE hash_pair(siblings[level], h[level - 1].node),
                     index |-> h[level - 1].index \div 2]
<1>6. ASSUME NEW l \in 0 .. TREE_DEPTH PROVE g[l] = step(g, l)
  <2>1. CASE l = 0
    BY <2>1, <1>2, <1>3
  <2>2. CASE l # 0
    <3>1. PICK k \in Levels : k = l - 1 /\ k + 1 = l
      BY <2>2, <1>5
    <3>2. k \in 0 .. TREE_DEPTH /\ g[k].node = f[k] /\ g[k].index = shr(k)
      BY <3>1, <1>0 DEF Levels
    <3>3. f[l] = IF shr(k) % 2 = 0 THEN hash_pair(f[k], siblings[l]) ELSE hash_pair(siblings[l], f[k])
      BY <3>1, <1>2, <1>4
    <3>4. shr(l) = shr(k) \div 2
      BY <3>1, <1>3
    <3>5. g[l] = [node |-> f[l], index |-> shr(l)]
      OBVIOUS
    <3> HIDE DEF g
    <3>6. step(g, l) = [node |-> f[l], index |-> shr(l)]
      BY <2>2, <3>1, <3>2, <3>3, <3>4
    <3> QED BY <3>5, <3>6
  <2> QED BY <2>1, <2>2
<1>7. IsGuest(g, leaf, index, siblings)
  <2>1. g = [l \in 0 .. TREE_DEPTH |-> step(g, l)]
    <3>1. g = [l \in 0 .. TREE_DEPTH |-> g[l]]
      OBVIOUS
    <3> HIDE DEF g, step
    <3> QED BY <3>1, <1>6
  <2> HIDE DEF g
  <2> QED BY <2>1 DEF IsGuest
<1> DEFINE at == CHOOSE h : IsGuest(h, leaf, index, siblings)
<1>8. IsGuest(at, leaf, index, siblings)
  <2> HIDE DEF g
  <2> QED BY <1>7
<1>9. Circuits!verify_merkle_inclusion(leaf, index, siblings, climb(leaf, index, siblings))
        <=> at[Len(siblings)].node = climb(leaf, index, siblings)
  BY DEF Circuits!verify_merkle_inclusion, IsGuest
<1> HIDE DEF at
<1>10. \A l \in 0 .. TREE_DEPTH : at[l] = step(at, l)
  BY <1>8 DEF IsGuest
<1> DEFINE T == {k \in Nat : k <= TREE_DEPTH => at[k] = g[k]}
<1>11. 0 \in T
  <2>1. 0 \in 0 .. TREE_DEPTH
    BY <1>0
  <2> QED BY <2>1, <1>6, <1>10
<1>12. ASSUME NEW k \in T PROVE k + 1 \in T
  <2> SUFFICES ASSUME k + 1 <= TREE_DEPTH PROVE at[k + 1] = g[k + 1]
    OBVIOUS
  <2>1. at[k] = g[k] /\ k + 1 \in 0 .. TREE_DEPTH /\ k \in Nat /\ (k + 1) - 1 = k /\ k + 1 # 0
    BY <1>0
  <2> HIDE DEF T, g
  <2>2. step(at, k + 1) = step(g, k + 1)
    BY <2>1
  <2> HIDE DEF step
  <2> QED BY <2>1, <2>2, <1>6, <1>10
<1> HIDE DEF T
<1>13. TREE_DEPTH \in T
  BY <1>0, <1>11, <1>12, SetInduction DEF T
<1>14. at[TREE_DEPTH].node = f[TREE_DEPTH]
  <2>1. at[TREE_DEPTH] = g[TREE_DEPTH] /\ TREE_DEPTH \in 0 .. TREE_DEPTH
    BY <1>0, <1>13 DEF T
  <2> QED BY <2>1
<1> QED BY <1>2, <1>9, <1>14

-----------------------------------------------------------------------------
\* Live notes against the history of what came in and what went out.
LEMMA InvConserves == WalletInv => ValueConserved
<1> SUFFICES ASSUME WalletInv, NEW asset \in Assets
             PROVE  SumOver([i \in Live |-> NoteBehind(tree.commitments[i]).amount],
                            {i \in Live : NoteBehind(tree.commitments[i]).asset_id = asset})
                      = minted[asset] - burned[asset]
  BY DEF ValueConserved
<1> DEFINE F == [i \in Live |-> NoteBehind(tree.commitments[i]).amount]
<1>1. /\ LeafPart /\ tree.next_index \in Nat
      /\ minted[asset] \in Nat /\ burned[asset] \in Nat /\ Value(asset) + burned[asset] = minted[asset]
  BY InvNext DEF WalletInv, ValuePart
<1>2. LiveOf(asset) \in SUBSET (1 .. tree.next_index) /\ LiveOf(asset) \subseteq Live
  BY DEF LiveOf, Live
<1>3. IsFiniteSet(LiveOf(asset)) /\ SumOver(Amt, LiveOf(asset)) \in Nat
  BY <1>1, <1>2, AmountsCount
<1>4. \A i \in LiveOf(asset) : F[i] = Amt[i]
  BY <1>2 DEF Amt
<1> HIDE DEF F
<1>5. SumOver(F, LiveOf(asset)) = SumOver(Amt, LiveOf(asset))
  BY <1>3, <1>4, SumCong
<1>6. SumOver(F, LiveOf(asset)) = minted[asset] - burned[asset]
  BY <1>1, <1>3, <1>5 DEF Value
<1> QED BY <1>6 DEF F, LiveOf

\* The totals the pool publishes are those of the volumes the oracle decrypts.
LEMMA InvAudits == WalletInv => AuditAgrees
<1> SUFFICES ASSUME WalletInv PROVE AuditAgrees
  OBVIOUS
<1> DEFINE secret == Enc!compliance_oracle_secret
           decrypted(c) == UNION {Enc!decrypt_as_oracle(e, secret) : e \in Enc!from_bytes(encrypted_notes[c])}
           each(outputs) == [i \in DOMAIN outputs |-> (CHOOSE x \in decrypted(outputs[i]) : TRUE).amount]
           volume(outputs) == SumOver(each(outputs), DOMAIN outputs)
           amounts == [t \in DOMAIN transferred |-> volume(transferred[t])]
           proved == Circuits!compliance_outputs(amounts, U64 - 1)
           S == SumOver(Vols, DOMAIN Vols)
<1>1. /\ CipherPart /\ LeafPart /\ AuditPart /\ tree.next_index \in 0 .. Capacity
      /\ U64 \in Nat \ {0} /\ U32 \in Nat /\ U32 > Capacity /\ Capacity \in Nat
  BY WalletFacts, WalletAssumption, Pow2Facts DEF WalletInv, TreePart, TreeShape
<1>2. /\ transferred \in Seq(Seq(Leaves)) /\ Len(transferred) \in Nat /\ Len(transferred) <= tree.next_index
      /\ \A t \in DOMAIN transferred : \A k \in DOMAIN transferred[t] : transferred[t][k] \in Committed
      /\ Len(transferred) <= S
      /\ compliance_tx_count = Len(transferred) % U64 /\ compliance_total_volume = S % U64
  BY <1>1 DEF AuditPart
<1>3. ASSUME NEW c \in Committed
      PROVE  (CHOOSE x \in decrypted(c) : TRUE).amount = NoteBehind(c).amount
  <2>1. encrypted_notes[c] = Encrypted(NoteBehind(c))
    BY <1>1 DEF CipherPart
  <2>2. Enc!from_bytes(encrypted_notes[c]) = {Copies(NoteBehind(c))}
    BY <2>1, CipherFacts
  <2>3. decrypted(c) = {ContentOf(NoteBehind(c))}
    BY <2>2, CipherFacts
  <2> HIDE DEF decrypted
  <2>4. (CHOOSE x \in decrypted(c) : TRUE) = ContentOf(NoteBehind(c))
    BY <2>3
  <2>5. ContentOf(NoteBehind(c)).amount = NoteBehind(c).amount
    BY DEF ContentOf
  <2> QED BY <2>4, <2>5
<1> HIDE DEF decrypted
<1>4. ASSUME NEW t \in DOMAIN transferred PROVE volume(transferred[t]) = Vol(transferred[t])
  <2>1. PICK outs : outs = transferred[t]
    OBVIOUS
  <2>2. \A k \in DOMAIN outs : outs[k] \in Committed
    BY <1>2, <2>1
  <2>3. each(outs) = [k \in DOMAIN outs |-> NoteBehind(outs[k]).amount]
    BY <1>3, <2>2
  <2> HIDE DEF each
  <2>4. volume(outs) = Vol(outs)
    BY <2>3 DEF Vol
  <2> QED BY <2>1, <2>4
<1>5. amounts = Vols
  <2> HIDE DEF volume
  <2> QED BY <1>4 DEF Vols
<1>6. DOMAIN Vols = 1 .. Len(transferred) /\ Len(Vols) = Len(transferred)
  BY <1>2 DEF Vols
<1>7. S \in Nat
  <2>1. IsFiniteSet(DOMAIN Vols)
    BY <1>2, <1>6, FS_Interval
  <2>2. ASSUME NEW t \in DOMAIN Vols PROVE Vols[t] \in Nat
    <3>1. t \in DOMAIN transferred /\ Vols[t] = Vol(transferred[t])
      BY <2>2 DEF Vols
    <3>2. transferred[t] \in Seq(Leaves)
      BY <1>2, <3>1
    <3>3. \A k \in DOMAIN transferred[t] : Known(transferred[t][k])
      <4> SUFFICES ASSUME NEW k \in DOMAIN transferred[t] PROVE Known(transferred[t][k])
        OBVIOUS
      <4>1. transferred[t][k] \in Committed
        BY <1>2, <3>1
      <4>2. \A c \in Committed : Known(c)
        BY <1>1 DEF LeafPart, Committed
      <4> QED BY <4>1, <4>2
    <3> QED BY <3>1, <3>2, <3>3, VolFacts
  <2> QED BY <2>1, <2>2, SumNat
<1>8. Circuits!Volume(Vols) = S
  BY CircuitSums DEF Circuits!Volume
<1> HIDE DEF S, amounts, volume, each
<1>9. proved.total_volume = S /\ proved.tx_count = Len(transferred) % U32
  BY <1>5, <1>6, <1>8 DEF Circuits!compliance_outputs
<1>10. Circuits!compliance_circuit(amounts) => S < U64
  BY <1>5, <1>8 DEF Circuits!compliance_circuit
<1>11. Len(transferred) % U32 = Len(transferred)
  <2>1. Len(transferred) \in 0 .. U32 - 1 /\ U32 \in Nat \ {0}
    BY <1>1, <1>2
  <2> QED BY <2>1, ModSmall
<1>12. ASSUME S < U64 PROVE S % U64 = S /\ Len(transferred) % U64 = Len(transferred)
  <2>1. S \in 0 .. U64 - 1 /\ Len(transferred) \in 0 .. U64 - 1
    BY <1>1, <1>2, <1>7, <1>12
  <2> QED BY <2>1, <1>1, ModSmall
<1> HIDE DEF proved
<1>13. /\ Circuits!compliance_circuit(amounts) =>
             /\ proved.total_volume = compliance_total_volume
             /\ proved.tx_count = compliance_tx_count
       /\ proved.total_volume % U64 = compliance_total_volume
  BY <1>2, <1>9, <1>10, <1>11, <1>12
<1> QED BY <1>13 DEF AuditAgrees, proved, amounts, volume, each, decrypted

\* An unspent note is found, spent and audited from what is on chain.
LEMMA InvReaches ==
    ASSUME NotesCollisionFree, WalletInv
    PROVE  NotesReachOwners
<1> DEFINE snapshot == Snapshot
<1>1. /\ LeafPart /\ CipherPart /\ TreePart /\ tree.next_index \in 0 .. Capacity
      /\ Len(tree.commitments) = tree.next_index /\ tree.next_index \in Nat
  BY InvNext DEF WalletInv, TreePart, TreeShape
<1>2. ASSUME NEW i \in Live
      PROVE  LET c    == tree.commitments[i]
                 note == NoteBehind(c)
                 mine == [note |-> note, leaf_index |-> i - 1]
             IN  /\ note.owner \in Wallets /\ mine \in Unspent(note.owner)
                 /\ Circuits!transfer_circuit(Witness(note.owner, <<mine>>, <<note>>, snapshot))
                 /\ Circuits!unshield_circuit(Circuits!unshield_witness(note.owner, note))
                 /\ \A e \in Enc!from_bytes(encrypted_notes[c]) :
                       Enc!decrypt_as_oracle(e, Enc!compliance_oracle_secret)
                         = Enc!try_decrypt(e, Enc!from_spending_key(note.owner))
                 /\ \A other \in Wallets \ {note.owner} : Read(c, Enc!from_spending_key(other)) = {}
  <2>1. PICK c : c = tree.commitments[i]
    OBVIOUS
  <2>2. PICK note : note = NoteBehind(c)
    OBVIOUS
  <2> DEFINE mine == [note |-> note, leaf_index |-> i - 1]
  <2>3. i \in 1 .. tree.next_index /\ Nf(c) \notin nullifiers /\ c \in Committed
    BY <2>1, LiveIs DEF LiveLeaf, Committed
  <2>4. /\ note \in WalletNotes /\ HashNote(note) = c /\ note.amount > 0 /\ note.amount \in Nat
        /\ note.amount < U64 /\ note.owner \in Wallets /\ note.pubkey_len = 32
    BY <1>1, <2>1, <2>2, <2>3, WalletFacts DEF LeafPart, Known
  <2>5. mine \in Unspent(note.owner)
    <3>1. mine \in Scan(note.owner)
      BY <1>1, <2>1, <2>2, <2>3, ScanFacts
    <3>2. Circuits!hash_nullifier(note.owner, HashNote(mine.note)) = Nf(c)
      BY <2>2, <2>4 DEF Nf
    <3> QED BY <3>1, <3>2, <2>3 DEF Unspent
  <2>6. Circuits!transfer_circuit(Witness(note.owner, <<mine>>, <<note>>, snapshot))
    <3> DEFINE wit == Witness(note.owner, <<mine>>, <<note>>, snapshot)
               path == build_proof_paths(tree.commitments)[i]
               root == rebuilt_root(tree.commitments)
    <3>1. /\ wit.inputs = <<note>> /\ wit.outputs = <<note>> /\ wit.spending_keys = <<note.owner>>
          /\ wit.leaf_indices = <<i - 1>> /\ wit.merkle_paths = <<path>> /\ wit.merkle_root = root
      <4>1. PICK one : one = <<mine>>
        OBVIOUS
      <4>2. DOMAIN one = {1} /\ one[1].note = note /\ one[1].leaf_index = i - 1 /\ (i - 1) + 1 = i
        BY <4>1, <2>3
      <4>3. /\ [k \in DOMAIN one |-> note.owner] = <<note.owner>>
            /\ [k \in DOMAIN one |-> one[k].note] = <<note>>
            /\ [k \in DOMAIN one |-> one[k].leaf_index] = <<i - 1>>
            /\ [k \in DOMAIN one |-> snapshot.paths[one[k].leaf_index + 1]] = <<snapshot.paths[i]>>
        <5> HIDE DEF mine, snapshot
        <5> QED BY <4>2
      <4>4. snapshot.paths[i] = path /\ snapshot.root = root
        BY DEF Snapshot
      <4>5. Circuits!notes_to_data(<<note>>) = <<note>>
        <5>1. <<note>> \in Seq(WalletNotes)
          BY <2>4
        <5> QED BY <5>1, NotesToData
      <4>6. wit = Circuits!transfer_witness(<<note.owner>>, <<note>>, <<note>>, root, <<i - 1>>, <<path>>)
        <5> HIDE DEF mine, snapshot, path, root
        <5> QED BY <4>1, <4>3, <4>4 DEF Witness
      <4> HIDE DEF wit, path, root
      <4> QED BY <4>5, <4>6 DEF Circuits!transfer_witness
    <3> HIDE DEF wit
    <3>2. Circuits!Total(<<note>>) = note.amount
      <4> DEFINE F == [k \in DOMAIN <<note>> |-> <<note>>[k].amount]
      <4>1. DOMAIN <<note>> = {1} /\ F[1] = note.amount
        OBVIOUS
      <4>2. Circuits!Total(<<note>>) = SumOver(F, DOMAIN <<note>>)
        BY CircuitSums DEF Circuits!Total
      <4> HIDE DEF F
      <4>3. SumOver(F, {1}) = F[1]
        BY <2>4, <4>1, SumSingle
      <4> QED BY <4>1, <4>2, <4>3
    <3>3. Circuits!balanced(wit)
      BY <2>4, <3>1, <3>2 DEF Circuits!balanced
    <3>4. Circuits!verify_merkle_inclusion(c, i - 1, path, root)
      <4>1. Len(path) = TREE_DEPTH /\ climb(c, i - 1, path) = root
        <5>1. i \in 1 .. Len(tree.commitments) /\ Len(tree.commitments) \in 0 .. Capacity
          BY <1>1, <2>3
        <5>2. Len(path) = TREE_DEPTH
          BY <5>1, PathSiblings
        <5>3. climb(tree.commitments[i], i - 1, path) = root
          BY <5>1, PathClimbs
        <5> QED BY <5>2, <5>3, <2>1
      <4>2. i - 1 \in Nat
        BY <1>1, <2>3
      <4> HIDE DEF path, root
      <4> QED BY <4>1, <4>2, GuestClimbs
    <3> HIDE DEF path, root
    <3> DEFINE keys == wit.spending_keys  ins == wit.inputs  outs == wit.outputs
               indices == wit.leaf_indices  paths == wit.merkle_paths
    <3>5. /\ ins # << >> /\ outs # << >> /\ DOMAIN ins = {1} /\ DOMAIN outs = {1}
          /\ Len(ins) = 1 /\ Len(keys) = 1 /\ Len(indices) = 1 /\ Len(paths) = 1
          /\ ins[1] = note /\ outs[1] = note /\ indices[1] = i - 1 /\ paths[1] = path
      BY <3>1
    <3> HIDE DEF keys, ins, outs, indices, paths
    <3>6. \A n \in {ins[k] : k \in DOMAIN ins} \cup {outs[k] : k \in DOMAIN outs} : n.asset_id = ins[1].asset_id
      BY <3>5
    <3>7. \A k \in DOMAIN ins : Circuits!verify_merkle_inclusion(HashNote(ins[k]), indices[k], paths[k], root)
      BY <2>4, <3>4, <3>5
    <3>8. \A k \in DOMAIN outs : outs[k].amount > 0
      BY <2>4, <3>5
    <3>9. Circuits!transfer_circuit(wit)
      <4>1. ins[1] = wit.inputs[1] /\ wit.merkle_root = root
        BY <3>1 DEF ins
      <4> QED BY <4>1, <3>3, <3>5, <3>6, <3>7, <3>8, Zenon
           DEF Circuits!transfer_circuit, keys, ins, outs, indices, paths
    <3> QED BY <3>9 DEF wit
  <2>7. Circuits!unshield_circuit(Circuits!unshield_witness(note.owner, note))
    BY <2>4 DEF Circuits!unshield_circuit, Circuits!unshield_witness, Circuits!note_to_data, WalletNotes
  <2>8. \A e \in Enc!from_bytes(encrypted_notes[c]) :
           Enc!decrypt_as_oracle(e, Enc!compliance_oracle_secret)
             = Enc!try_decrypt(e, Enc!from_spending_key(note.owner))
    <3>1. encrypted_notes[c] = Encrypted(note)
      BY <1>1, <2>2, <2>3 DEF CipherPart
    <3>2. Enc!from_bytes(encrypted_notes[c]) = {Copies(note)}
      BY <3>1, CipherFacts
    <3>3. Enc!decrypt_as_oracle(Copies(note), Enc!compliance_oracle_secret)
            = Enc!try_decrypt(Copies(note), Enc!from_spending_key(note.owner))
      BY CipherFacts
    <3> QED BY <3>2, <3>3
  <2>9. \A other \in Wallets \ {note.owner} : Read(c, Enc!from_spending_key(other)) = {}
    BY <1>1, <2>1, <2>2, <2>3, ReadFacts
  <2> HIDE DEF snapshot
  <2> QED BY <2>1, <2>2, <2>4, <2>5, <2>6, <2>7, <2>8, <2>9
<1> HIDE DEF snapshot
<1>3. \A i \in Live :
         [w \in Wallets |-> Unspent(w)][NoteBehind(tree.commitments[i]).owner]
           = Unspent(NoteBehind(tree.commitments[i]).owner)
  BY <1>2
<1> QED BY <1>2, <1>3 DEF NotesReachOwners, snapshot

\* What the verifier's two comparisons and the aggregator's assertions leave.
LEMMA AggregateHolds ==
    ASSUME NEW t, NEW s, t.vk = "older" \/ t.vk = "transfer", s.values.proof_timestamp \in 0 .. 1,
           Circuits!combined_circuit(t, s),
           Circuits!verify_combined_sp1(Circuits!combined_outputs(t, s), "transfer", "sanctions")
    PROVE  /\ t.vk = "transfer" /\ s.vk = "sanctions"
           /\ Circuits!combined_outputs(t, s).transfer = t.values
           /\ ~ sanctions_accepted(sanctions_root, Circuits!combined_outputs(t, s).sanctions.proof_timestamp,
                                   2 + SANCTIONS_PROOF_MAX_AGE_SECS)
<1> DEFINE proof == Circuits!combined_outputs(t, s)
<1>1. /\ proof.transfer = t.values /\ proof.sanctions = s.values
      /\ proof.transfer_vk_hash = t.vk /\ proof.sanctions_vk_hash = s.vk
  BY DEF Circuits!combined_outputs
<1> HIDE DEF proof
<1>2. t.vk = "transfer" /\ s.vk = "sanctions"
  <2>1. Circuits!verify_combined_sp1(proof, "transfer", "sanctions")
    BY DEF proof
  <2> QED BY <2>1, <1>1 DEF Circuits!verify_combined_sp1, Circuits!NoKey
<1>3. proof.sanctions.proof_timestamp = 1
  BY <1>1 DEF Circuits!combined_circuit
<1>4. SANCTIONS_PROOF_MAX_AGE_SECS \in Nat
  BY PoolAssumption
<1>5. ~ sanctions_accepted(sanctions_root, proof.sanctions.proof_timestamp, 2 + SANCTIONS_PROOF_MAX_AGE_SECS)
  BY <1>3, <1>4 DEF sanctions_accepted
<1> QED BY <1>1, <1>2, <1>5 DEF proof

\* So of all sub-proofs only those of the registered programs get through.
LEMMA AggregatesBind == AggregateBinds
<1> SUFFICES ASSUME NEW v, NEW t \in TransferSubProofs(v), NEW s \in SanctionsSubProofs,
                    Circuits!combined_circuit(t, s),
                    Circuits!verify_combined_sp1(Circuits!combined_outputs(t, s), "transfer", "sanctions")
             PROVE  /\ Circuits!combined_outputs(t, s).transfer = v
                    /\ s.vk = "sanctions"
                    /\ ~ sanctions_accepted(sanctions_root,
                                            Circuits!combined_outputs(t, s).sanctions.proof_timestamp,
                                            2 + SANCTIONS_PROOF_MAX_AGE_SECS)
  BY Zenon DEF AggregateBinds
<1>1. t.vk = "older" \/ (t.vk = "transfer" /\ t.values = v)
  BY DEF TransferSubProofs
<1>2. s.values.proof_timestamp \in 0 .. 1
  BY DEF SanctionsSubProofs
<1>3. /\ t.vk = "transfer" /\ s.vk = "sanctions" /\ Circuits!combined_outputs(t, s).transfer = t.values
      /\ ~ sanctions_accepted(sanctions_root, Circuits!combined_outputs(t, s).sanctions.proof_timestamp,
                              2 + SANCTIONS_PROOF_MAX_AGE_SECS)
  BY <1>1, <1>2, AggregateHolds
<1>4. "older" # "transfer"
  OBVIOUS
<1> QED BY <1>1, <1>3, <1>4

-----------------------------------------------------------------------------
(***************************************************************************)
(* Conservation: what is in unspent notes and what was paid out is what    *)
(* was shielded, asset by asset, whatever the wallets prove and in         *)
(* whatever order, and however often, their messages are executed.         *)
(***************************************************************************)
THEOREM ValueIsConserved ==
    ASSUME NotesCollisionFree
    PROVE  WalletsSpec => []ValueConserved
BY InvConserves, WalletsInvariant, PTL

(***************************************************************************)
(* Every unspent note is found by its owner and can be spent with what is  *)
(* on chain: the rebuilt path satisfies the guest's climb, the oracle      *)
(* reads what the owner reads, and no other wallet reads anything.         *)
(***************************************************************************)
THEOREM NotesAlwaysReachOwners ==
    ASSUME NotesCollisionFree
    PROVE  WalletsSpec => []NotesReachOwners
<1>1. WalletInv => NotesReachOwners
  BY InvReaches
<1> QED BY <1>1, WalletsInvariant, PTL

(***************************************************************************)
(* The compliance proof over the volumes the oracle decrypts gives the     *)
(* totals the pool publishes.                                              *)
(***************************************************************************)
THEOREM AuditAlwaysAgrees ==
    ASSUME NotesCollisionFree
    PROVE  WalletsSpec => []AuditAgrees
BY InvAudits, WalletsInvariant, PTL

\* An aggregated proof accepted under both registered keys binds both statements.
THEOREM AggregateAlwaysBinds == WalletsSpec => []AggregateBinds
BY AggregatesBind, PTL
=============================================================================
