--------------------------- MODULE SanctionsOracle ---------------------------
(***************************************************************************)
(* The HTTP server around the sanctions tree,                              *)
(* crates/sanctions-oracle/src/server.rs: it builds a tree from the        *)
(* published list, hands out roots and witnesses from it, and replaces it  *)
(* on request.  Refreshes overlap: each one loads the list and builds a    *)
(* tree without holding the lock, and then takes it to swap the tree in.   *)
(* The queries read under the lock and change nothing.                     *)
(***************************************************************************)
EXTENDS SanctionsTree, SequencesExt

CONSTANTS
    FirstLists,             \* what the SDN list may hold at the start: sequences of addresses
    Updates,                \* and what it may hold later
    Refreshers,             \* concurrent requests for a refresh
    RefreshSecret,          \* the --refresh-secret, or None
    Secrets, None,
    MaxPublished            \* bound: lists published while the server runs

ASSUME ListsAssumption ==
    \A list \in FirstLists \cup Updates : list \in Seq(Addresses)

\* An index has room for the positions of the tree over any list.
ASSUME WidthAssumption ==
    /\ \E w \in 0 .. 64 : INDEX_WIDTH = pow2[w]
    /\ \A list \in FirstLists \cup Updates : 2 * (Len(list) + 2) <= INDEX_WIDTH

VARIABLES
    tree, address_count, updated_at,        \* OracleState, behind the lock
    refreshes,              \* per request: where it is, and what it has built
    published               \* external: the lists published so far, the last one in force

oracleVars == <<tree, address_count, updated_at, refreshes, published>>

\* unix_now: a tick is the publication of a list.
unix_now == Len(published)
InForce  == Last(published)
Idle     == [at |-> "idle"]
-----------------------------------------------------------------------------
OracleInit ==
    \E list \in FirstLists :
        /\ published = <<list>>
        /\ tree = build(list)
        /\ address_count = Len(list)
        /\ updated_at = 1
        /\ refreshes = [r \in Refreshers |-> Idle]

\* External: the authority publishes a list.
Publish(list) ==
    /\ Len(published) < MaxPublished
    /\ published' = Append(published, list)
    /\ UNCHANGED <<tree, address_count, updated_at, refreshes>>

\* The secret is looked at first; a request without it is turned away.
authorized(secret) == RefreshSecret # None => secret = RefreshSecret

BeginRefresh(r, secret) ==
    /\ refreshes[r].at = "idle"
    /\ authorized(secret)
    /\ refreshes' = [refreshes EXCEPT ![r] = [at |-> "load"]]
    /\ UNCHANGED <<tree, address_count, updated_at, published>>

\* load_addresses, and the tree over what it returned.
LoadAndBuild(r) ==
    /\ refreshes[r].at = "load"
    /\ refreshes' = [refreshes EXCEPT ![r] = [at |-> "built", list |-> InForce]]
    /\ UNCHANGED <<tree, address_count, updated_at, published>>

LoadFails(r) ==
    /\ refreshes[r].at = "load"
    /\ refreshes' = [refreshes EXCEPT ![r] = Idle]
    /\ UNCHANGED <<tree, address_count, updated_at, published>>

\* The clock is read after the tree is built, before the lock is there.
ReadClock(r) ==
    /\ refreshes[r].at = "built"
    /\ refreshes' = [refreshes EXCEPT ![r] = [at |-> "lock", list |-> refreshes[r].list, now |-> unix_now]]
    /\ UNCHANGED <<tree, address_count, updated_at, published>>

\* Under the write lock.
Install(r) ==
    /\ refreshes[r].at = "lock"
    /\ tree' = build(refreshes[r].list)
    /\ address_count' = Len(refreshes[r].list)
    /\ updated_at' = refreshes[r].now
    /\ refreshes' = [refreshes EXCEPT ![r] = Idle]
    /\ UNCHANGED published

OracleNext ==
    \/ \E list \in Updates : Publish(list)
    \/ \E r \in Refreshers : \/ \E secret \in Secrets \cup {None} : BeginRefresh(r, secret)
                             \/ LoadAndBuild(r) \/ LoadFails(r) \/ ReadClock(r) \/ Install(r)

OracleSpec == OracleInit /\ [][OracleNext]_oracleVars
-----------------------------------------------------------------------------
Listed(list) == {list[i] : i \in 1 .. Len(list)}

\* The addresses on the list that the served tree was built from.
Sanctioned == {a \in Addresses : is_sanctioned(tree, a)}

(***************************************************************************)
(* The root names the list: the trees of two published lists have the same *)
(* root exactly when the lists name the same addresses, in whatever order  *)
(* and however often.  The tree, the count and the time that are served    *)
(* belong together also when refreshes overlap: they are those of a list   *)
(* published no later than that time.  The rollup relies on this when it   *)
(* compares the root of a proof with the one it was given.                 *)
(***************************************************************************)
RootNamesList ==
    /\ \E v \in 1 .. updated_at : /\ root(build(published[v])) = root(tree)
                                /\ Len(published[v]) = address_count
    /\ \A v \in 1 .. Len(published) :
          root(build(published[v])) = root(tree) <=> Listed(published[v]) = Sanctioned

(***************************************************************************)
(* Completeness: the oracle has a witness for every address that is not on *)
(* its list, and none for those that are, and the circuit accepts each     *)
(* witness for the root the oracle publishes - for every size of the list, *)
(* below, at and above a power of two, and next to either sentinel.        *)
(***************************************************************************)
WitnessesVerify ==
    \A a \in Addresses :
        LET w == non_membership_witness(tree, a) IN
        IF a \in Sanctioned THEN w = NoWitness
        ELSE w # NoWitness /\ w.sanctions_root = root(tree) /\ sanctions_circuit(a, w)

\* Sibling paths of the tree, and their parts that start or end one level off.
Paths ==
    LET full == {inclusion_proof(tree, i) : i \in DOMAIN tree.sorted_addr_hashes}
    IN  full \cup {Tail(p) : p \in full} \cup {Front(p) : p \in full}

\* What opens under the root: any key, at any index that fits its type.
Openings ==
    LET wanted == root(tree)
        paths  == Paths
    IN  {[leaf |-> o[1], index |-> o[2], proof |-> o[3]] :
            o \in {t \in (0 .. MAX_KEY) \X (0 .. INDEX_WIDTH - 1) \X paths :
                      verify_merkle_proof(hash_leaf(t[1]), t[2], t[3], wanted, Len(t[3]))}}

\* Some witness made of these openings passes for the address.
Cleared(address, openings) ==
    \E l, r \in openings :
        sanctions_circuit(address, [sanctions_root |-> root(tree),
                                    left_leaf |-> l.leaf, right_leaf |-> r.leaf,
                                    left_proof |-> l.proof, right_proof |-> r.proof,
                                    left_index |-> l.index, right_index |-> r.index,
                                    tree_depth |-> Len(l.proof)])

(***************************************************************************)
(* Soundness: for an address on the list that is served the circuit takes  *)
(* no witness at all, whatever leaves, paths, depth and indices it is made *)
(* of; indices are not confined to the tree, and the successor of the last *)
(* one wraps.                                                              *)
(***************************************************************************)
CircuitSound == LET openings == Openings IN \A a \in Sanctioned : ~ Cleared(a, openings)
=============================================================================
