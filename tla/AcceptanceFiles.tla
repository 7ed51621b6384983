--------------------------- MODULE AcceptanceFiles ---------------------------
(***************************************************************************)
(* What the acceptance test's two programs, setup and acceptance-test,      *)
(* leave to each other on disk, and the pure functions both compute it      *)
(* with: the plan of rollup versions, the JSON of a slot, the snapshots.    *)
(*                                                                         *)
(* A slot of the ledger is [gen, first, end, root, by]: the run that put    *)
(* its block on the data availability layer, its batch range, whether its   *)
(* state root is the one the setup's rollup computed, and the run that      *)
(* executed it.  Slot number n is element n + 1 of a ledger.                *)
(***************************************************************************)
EXTENDS Naturals, Sequences, FiniteSetsExt

CONSTANTS
    Versions,          \* rollup versions of the plan (versions.yaml)
    BlocksPerVersion,  \* blocks each version runs for
    FirstThroughputBatch,  \* where a plan of one version starts measuring
    EarlySlots,        \* slots below it may lack a snapshot
    NearEnd            \* batches before the end within which a failure is
                       \* taken for the rollup's own shutdown

ASSUME PlanAssumption ==
    /\ Versions \in Nat \ {0} /\ BlocksPerVersion \in Nat \ {0}
    /\ FirstThroughputBatch \in Nat /\ EarlySlots \in Nat /\ NearEnd \in Nat

monus(a, b) == IF a < b THEN 0 ELSE a - b

-----------------------------------------------------------------------------
(* The plan.                                                                *)

\* prepare_acceptance_run_plan: version i runs from the block after the last
\* one of the version before it; the first has no start height, 0 here.
manager_versions ==
    [i \in 1..Versions |->
        [start_height |-> IF i = 1 THEN 0 ELSE (i - 1) * BlocksPerVersion + 1,
         stop_height  |-> i * BlocksPerVersion]]

\* The acceptance test lets the last version run on after the resync.
extend_last_stop_height(versions, extra_blocks) ==
    [versions EXCEPT ![Len(versions)].stop_height = @ + extra_blocks]

stop_at_height(versions) == versions[Len(versions)].stop_height

throughput_start_batch(versions) ==
    LET start == versions[Len(versions)].start_height
    IN  IF start = 0 THEN FirstThroughputBatch ELSE monus(start, 1)

\* A bug: the genesis block is taken off twice.
expected_setup_batches_off_by_one(versions) == monus(stop_at_height(versions), 2)

\* The number of the last batch of the setup: genesis has none, so batch
\* numbers lag one behind the rollup height.
expected_setup_batches(versions) == monus(stop_at_height(versions), 1)

is_very_close_to_soak_test_end(num_soak_batches, target_soak_batches) ==
    num_soak_batches + NearEnd > target_soak_batches

-----------------------------------------------------------------------------
(* Slots and their snapshots.                                               *)

\* The ledger API's JSON of a slot, with or without the batches in it.  Which
\* run executed the slot is not part of it.
slot_to_json(slot, children) ==
    [gen |-> slot.gen, first |-> slot.first, end |-> slot.end, root |-> slot.root,
     batches |-> IF children THEN slot.first..(slot.end - 1) ELSE {}]

Missing == [gen |-> 0, first |-> 0, end |-> 0, root |-> "none", batches |-> {}]

save_slot_snapshot(snapshots, number, slot, children) ==
    [snapshots EXCEPT ![number] = slot_to_json(slot, children)]

\* A bug: the batches are never asked for.
include_children_never(snapshot) == FALSE

\* The slot is fetched with its batches when the snapshot has some.
include_children(snapshot) == snapshot.batches # {}

compare_against_snapshot(slot, snapshot) ==
    slot_to_json(slot, include_children(snapshot)) = snapshot

\* SlotFetcher::fetch_and_compare_slot on a range of slots, fetched with their
\* batches: the API tells the same by number and by hash (external), and the
\* slots are compared with their snapshots, or saved.
fetch_and_check(ledger, snapshots, range) ==
    \A n \in range : snapshots[n] = slot_to_json(ledger[n + 1], TRUE)

fetch_and_save(ledger, snapshots, range) ==
    [n \in DOMAIN snapshots |->
        IF n \in range THEN slot_to_json(ledger[n + 1], TRUE) ELSE snapshots[n]]

\* latest_batch_num of a snapshot.
latest_batch(snapshot) == monus(snapshot.end, 1)

(***************************************************************************)
(* One round of the resync loop of run_test: the slots checked..number      *)
(* against their snapshots, in order, up to the first that ends the round.  *)
(* latest is the loop's latest_batch_num before it.                         *)
(***************************************************************************)
resync_round(ledger, snapshots, checked, number, latest, expected) ==
    LET Stops(n) == IF snapshots[n] = Missing
                      THEN n >= EarlySlots
                      ELSE ~ compare_against_snapshot(ledger[n + 1], snapshots[n])
        stops == {n \in checked..number : Stops(n)}
        last  == IF stops = {} THEN number ELSE Min(stops)
        read  == {n \in checked..last : snapshots[n] # Missing}
        batch == IF read = {} THEN latest ELSE latest_batch(snapshots[Max(read)])
    IN  [latest  |-> batch,
         outcome |-> IF stops = {} THEN "more"
                     ELSE IF snapshots[last] # Missing THEN "mismatch"
                     ELSE IF batch < expected THEN "missing"
                     ELSE "complete"]

-----------------------------------------------------------------------------
(* The rollup's state directory.                                            *)

\* prepare_rollup_state_dir with clear_directory and ensure_directory_empty.
prepare_rollup_state_dir(ledger, policy) ==
    [ok     |-> policy = "error" => ledger = << >>,
     ledger |-> IF policy = "clobber" THEN << >> ELSE ledger]
=============================================================================
