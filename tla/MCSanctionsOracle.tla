------------------------- MODULE MCSanctionsOracle -------------------------
(***************************************************************************)
(* Instances of SanctionsOracle for TLC: six addresses whose keys are in   *)
(* another order than they are, every list without repetitions, and some   *)
(* with them.                                                              *)
(***************************************************************************)
EXTENDS SanctionsOracle

MCHashAddr(a) == (3 * a) % 7

\* The members of a set in descending order.
Descending(S) == SortSeq([i \in 1 .. Cardinality(S) |->
                            CHOOSE a \in S : Cardinality({b \in S : b < a}) = i - 1], >)

MCUpdates    == {<<>>, <<3, 3>>, <<1, 5, 1>>}
MCFirstLists == {Descending(S) : S \in SUBSET Addresses} \cup MCUpdates
=============================================================================
