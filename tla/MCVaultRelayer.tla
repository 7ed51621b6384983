--------------------------- MODULE MCVaultRelayer ---------------------------
(***************************************************************************)
(* Instances of VaultRelayer for TLC.                                      *)
(***************************************************************************)
EXTENDS VaultRelayer

CONSTANTS a, b

\* The polls of the first chain may overlap.
MCPolls(c) == IF c = a THEN {1, 2} ELSE {1}
=============================================================================
