-------------------------- MODULE MCObscuraBridge --------------------------
(***************************************************************************)
(* Instances of ObscuraBridge for TLC: a few pool transactions, so that    *)
(* claims interleave with shields, transfers and unshields.                *)
(***************************************************************************)
EXTENDS ObscuraBridge

CONSTANTS n1, usdc, c1, c2, r0, r1, s0

MCHashPair(l, r) == [left |-> l, right |-> r]
MCHashNote(note) == [sha256 |-> note]

MCNotes == {[amount |-> 2, asset_id |-> usdc, pubkey_len |-> 32, salt |-> 1]}

MCNullifierLists == {<<n1>>}
MCOutputLists    == {<<c1>>}
MCEncryptedLists == {<<Empty>>}
=============================================================================
