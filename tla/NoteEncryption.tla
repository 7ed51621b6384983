--------------------------- MODULE NoteEncryption ---------------------------
(***************************************************************************)
(* Note encryption and viewing keys: crates/privacy/src/encryption.rs and  *)
(* keys.rs.  Cryptography is symbolic: a hash is the tuple of what is      *)
(* hashed, a public key names its secret, a Diffie-Hellman secret is the   *)
(* pair of the two secrets, and a byte string remembers the keystreams it  *)
(* is masked with, so that the XOR with the same one twice cancels.        *)
(***************************************************************************)
EXTENDS Integers, Sequences, FiniteSets

CONSTANT U16            \* 2^16 in the code: the width of a length prefix

ENCRYPTION_OVERHEAD == 64
NOTE_CONTENT_SIZE   == 136

public_key(secret) == [public_of |-> secret]
diffie_hellman(secret, public) == {secret, public.public_of}

\* ViewingKeypair::from_spending_key and compliance_oracle_keypair
from_spending_key(spending_key) == <<"obscura-viewing-key-v1", spending_key>>
compliance_oracle_secret == <<"obscura-compliance-oracle-testnet-v1-secret">>
COMPLIANCE_ORACLE_PUBKEY == public_key(compliance_oracle_secret)

derive_key(dh, eph_pk) == <<"obscura-enc-v1", dh, eph_pk>>
compute_mac(key, ciphertext) == <<"mac", key, ciphertext>>

\* XOR with the keystream of `key'.
stream_xor(data, key) == [data EXCEPT !.masks = (@ \ {key}) \cup ({key} \ @)]

\* Mutant: the key is derived from the recipient's key, not the ephemeral one.
encrypt_note_own_key(plaintext, recipient_pk, eph_sk) ==
    LET key == derive_key(diffie_hellman(eph_sk, recipient_pk), recipient_pk)
        ct  == stream_xor(plaintext, key)
    IN  [eph_pk |-> public_key(eph_sk), mac |-> compute_mac(key, ct), ciphertext |-> ct,
         len |-> ENCRYPTION_OVERHEAD + plaintext.len]

\* The ephemeral secret is drawn at random: a parameter, fresh at each call.
encrypt_note(plaintext, recipient_pk, eph_sk) ==
    LET eph_pk == public_key(eph_sk)
        key    == derive_key(diffie_hellman(eph_sk, recipient_pk), eph_pk)
        ct     == stream_xor(plaintext, key)
    IN  [eph_pk |-> eph_pk, mac |-> compute_mac(key, ct), ciphertext |-> ct,
         len |-> ENCRYPTION_OVERHEAD + plaintext.len]

\* The plaintexts decrypt_note can return: none or one.
decrypt_note(blob, my_sk) ==
    LET key == derive_key(diffie_hellman(my_sk, blob.eph_pk), blob.eph_pk)
    IN  IF blob.len >= ENCRYPTION_OVERHEAD /\ blob.mac = compute_mac(key, blob.ciphertext)
          THEN {stream_xor(blob.ciphertext, key)} ELSE {}

\* NoteContent: amount, asset and salt, not the owner.
content_to_bytes(content) == [body |-> content, masks |-> {}, len |-> NOTE_CONTENT_SIZE]
content_from_bytes(data) ==
    IF data.len >= NOTE_CONTENT_SIZE /\ data.masks = {} THEN {data.body} ELSE {}

(***************************************************************************)
(* EncryptedNote: one copy for the recipient, one for the oracle.          *)
(***************************************************************************)
create(content, recipient_pk, oracle_pk, eph) ==
    [enc_for_recipient  |-> encrypt_note(content_to_bytes(content), recipient_pk, <<"ephemeral", eph, 1>>),
     enc_for_compliance |-> encrypt_note(content_to_bytes(content), oracle_pk, <<"ephemeral", eph, 2>>)]

Contents(blob, sk) == UNION {content_from_bytes(data) : data \in decrypt_note(blob, sk)}

\* Recipient's copy first, then the oracle's.
try_decrypt(encrypted, viewing_sk) ==
    LET own == Contents(encrypted.enc_for_recipient, viewing_sk)
    IN  IF own # {} THEN own ELSE Contents(encrypted.enc_for_compliance, viewing_sk)

decrypt_as_oracle(encrypted, oracle_sk) == Contents(encrypted.enc_for_compliance, oracle_sk)

\* Two length prefixes of two bytes, each followed by its part.
to_bytes(encrypted) ==
    <<encrypted.enc_for_recipient.len % U16, encrypted.enc_for_recipient,
      encrypted.enc_for_compliance.len % U16, encrypted.enc_for_compliance>>

\* A prefix that is not the length of the part that follows finds no note.
from_bytes(data) ==
    IF Len(data) = 4 /\ data[1] = data[2].len /\ data[3] = data[4].len
      THEN {[enc_for_recipient |-> data[2], enc_for_compliance |-> data[4]]} ELSE {}
=============================================================================
