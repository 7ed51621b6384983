------------------------- MODULE MCShieldedWallets -------------------------
(***************************************************************************)
(* Instances of ShieldedWallets for TLC.  Hashes are numbers, for TLC's    *)
(* speed: Zero32 is 0, notes hash below 64, a pair of such numbers below   *)
(* 4160, any other pair above; no two arguments that occur share a hash.   *)
(***************************************************************************)
EXTENDS ShieldedWallets

CONSTANTS usdc

MCHashNote(note) ==
    1 + note.amount + U64 * (2 * (note.salt - 1) + IF note.owner = "alice" THEN 0 ELSE 1)
MCHashPair(l, r) == IF l < 64 /\ r < 64 THEN 64 + 64 * l + r ELSE 4160 * (1 + l) + r

\* Only the notes of the wallets: amounts up to two shielded notes together.
MCNotes == WalletNotes
MCCommitments == {HashNote(note) : note \in MCNotes}
MCNullifiers == {Circuits!hash_nullifier(note.owner, HashNote(note)) : note \in MCNotes}
=============================================================================
