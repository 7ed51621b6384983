---------------------------- MODULE MCLightClient ----------------------------
(***************************************************************************)
(* Instances of LightClient for TLC.  Nothing is claimed or shielded here: *)
(* the pool and the claims stay empty.                                     *)
(***************************************************************************)
EXTENDS LightClient

CONSTANTS usdc, bridge

MCHashPair(l, r) == [left |-> l, right |-> r]
MCHashNote(note) == [sha256 |-> note]
MCBlocks == {block_hash(slot) : slot \in 0 .. MaxSlot}
=============================================================================
