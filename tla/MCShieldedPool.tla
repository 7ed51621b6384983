--------------------------- MODULE MCShieldedPool ---------------------------
(***************************************************************************)
(* Instances of ShieldedPool for TLC.  The hash is injective: a node is    *)
(* the record of its two children, a commitment the record of its note.    *)
(***************************************************************************)
EXTENDS ShieldedPool

CONSTANTS n1, n2, usdc, c1, c2, e1

MCHashPair(l, r) == [left |-> l, right |-> r]
MCHashNote(note) == [sha256 |-> note]

Note(amount, asset, len, salt) ==
    [amount |-> amount, asset_id |-> asset, pubkey_len |-> len, salt |-> salt]

\* A note that can be shielded, one with amount 0, one with a short key.
MCNotes == {Note(2, usdc, 32, 1), Note(0, usdc, 32, 2), Note(1, usdc, 31, 3)}

\* No input, one, two, and the same one twice; up to two outputs.
MCNullifierLists == {<< >>, <<n1>>, <<n1, n2>>, <<n2, n2>>}
MCOutputLists    == {<< >>, <<c1>>, <<c1, c2>>}
MCEncryptedLists == {<<Empty, e1>>}
=============================================================================
