--------------------------- MODULE MCBridgeSystem ---------------------------
(***************************************************************************)
(* Instances of BridgeSystem for TLC.  No user transacts in the pool.      *)
(***************************************************************************)
EXTENDS BridgeSystem

CONSTANTS s1, s2, s3, usdc_asset

MCHashPair(l, r) == [left |-> l, right |-> r]
MCHashNote(note) == [sha256 |-> note]
MCInitialSigners == <<s1, s2, s3>>

\* The contract is called by the relayer alone.
MCSignatureLists(payload) ==
    {<<[signer |-> signer1, payload |-> payload], [signer |-> signer2, payload |-> payload]>>}
MCNonces == {withdrawal_nonce(d, r, m) : d \in DepositIds, r \in Users, m \in Minutes}
=============================================================================
