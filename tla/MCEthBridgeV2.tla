--------------------------- MODULE MCEthBridgeV2 ---------------------------
(***************************************************************************)
(* An instance of EthBridgeV2 for TLC.                                     *)
(***************************************************************************)
EXTENDS EthBridgeV2

CONSTANTS s1, s2, s3

MCInitialSigners == <<s1, s2, s3>>

\* Up to three signatures, of signers and of others, of this release, of
\* another one, or malformed.
MCSignatureLists(payload) ==
    LET one == [signer : {s1, s2, s3}, payload : {payload}]
               \cup {[signer |-> s1, payload |-> <<"another">>], malformed}
    IN  UNION {[1 .. n -> one] : n \in 0 .. 3}
=============================================================================
