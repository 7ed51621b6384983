---------------------------- MODULE MCRustRelayer ----------------------------
(***************************************************************************)
(* Instances of RustRelayer for TLC.  The pool is there for the claims;    *)
(* its own transactions are not part of the specification.                 *)
(***************************************************************************)
EXTENDS RustRelayer

CONSTANTS usdc, c1, c2, bridge

MCHashPair(l, r) == [left |-> l, right |-> r]
MCHashNote(note) == [sha256 |-> note]

MCBlocks   == (1 .. MaxHeight) \X (0 .. MaxReorgs)
MCRoots    == MCBlocks \cup {Zero32}
MCDeposit  == {[amount |-> 1, recipient |-> c1]}
=============================================================================
