--------------------------- MODULE AcceptanceTest ----------------------------
(***************************************************************************)
(* The acceptance test as a whole: the runs of AcceptanceRun, and in their  *)
(* soak the state validation worker, which reads the sequencer's heights    *)
(* and state root over the API, one query after the other, and submits a    *)
(* transaction that asserts them.                                           *)
(*                                                                         *)
(* The sequencer is external: when a block starts, the API shows the state  *)
(* root of its begin hook, and only then its heights.                       *)
(***************************************************************************)
EXTENDS AcceptanceRun

VARIABLES
    api,      \* what the API shows: [root, heights], as rollup heights
    worker    \* the worker: [asked, root, heights, failed]

allvars == <<vars, api, worker>>

\* The state root of a height is the height itself.
Shown(height) == [root |-> height, heights |-> height]
Waiting == [asked |-> 0, root |-> 0, heights |-> 0, failed |-> FALSE]

Height == Batches(ledger)

Init == RunInit /\ api = Shown(0) /\ worker = Waiting

\* A bug: the state root is read before the heights are.
queries_root_first == <<"root", "heights">>

\* The order of the worker's queries.
queries == <<"heights", "root">>

\* The next query: phase 2 of poll_for_api_state_update takes whatever heights
\* it sees when its time is over.  The worker leaves once it is told of a slot
\* at the stop height; a worker told of an earlier one may still be asking.
WorkerQuery ==
    LET i == worker.asked + 1
    IN  /\ phase = "soak" /\ manager = "running"
        /\ i \in DOMAIN queries
        /\ worker' = [worker EXCEPT !.asked = i, ![queries[i]] = api[queries[i]]]
        /\ UNCHANGED <<vars, api>>

is_too_late_error(actual, expected) == actual > expected

\* send_assert_block_tx: the block the sequencer is in judges the assertion.
\* The rejection at the stop height, and that of a block already left behind,
\* are no failures.
send_assert_block_tx ==
    /\ phase = "soak" /\ manager = "running" /\ worker.asked = Len(queries)
    /\ worker' = [Waiting EXCEPT !.failed =
          /\ Height < stop_at_height(plan)
          /\ worker.heights # Height \/ worker.root # Height
          /\ ~ is_too_late_error(Height, worker.heights)]
    /\ UNCHANGED <<vars, api>>

ShowRoot ==
    /\ phase = "soak" /\ manager = "running" /\ api.root # Height
    /\ api' = [api EXCEPT !.root = Height]
    /\ UNCHANGED <<vars, worker>>

ShowHeights ==
    /\ phase = "soak" /\ manager = "running" /\ api.root = Height /\ api.heights # Height
    /\ api' = [api EXCEPT !.heights = Height]
    /\ UNCHANGED <<vars, worker>>

\* A step of the run: a block starts only when the one before it has, and
\* outside a soak nobody asks.
RunStep ==
    /\ RunNext
    /\ IF phase = "soak" /\ phase' = "soak" /\ manager' = "running"
         THEN /\ Batches(ledger') > Height => api = Shown(Height)
              /\ UNCHANGED <<api, worker>>
         ELSE /\ api' = Shown(IF phase' = "soak" THEN Batches(ledger') ELSE 0)
              /\ worker' = Waiting

Next == RunStep \/ WorkerQuery \/ send_assert_block_tx \/ ShowRoot \/ ShowHeights

Spec == Init /\ [][Next]_allvars /\ RunFairness

-----------------------------------------------------------------------------
(* Properties.                                                              *)

\* The slots of the history the tests replay, up to the one with the setup's
\* last batch, without the first few.
SetupSlots ==
    {n \in EarlySlots..(Len(persistent_da) - 1) :
        persistent_da[n + 1].first < stop_at_height(manager_versions)}

\* What the test is for: once the resync of run_test is over, every slot of the
\* setup has been executed again, by the rollup of this run and from an empty
\* state directory, to the state root the setup recorded.  Missing snapshots,
\* snapshots of two setups and interrupted runs never let a slot go unchecked.
PassMeansReplayed ==
    kind = "test" /\ phase \in {"sequencer", "soak", "stopping", "terminating", "killing",
                               "report", "clean"} =>
        \A n \in SetupSlots :
            n < Len(ledger) /\ ledger[n + 1].root = "right" /\ ledger[n + 1].by = run

\* A test that reports a mismatch or a missing snapshot has a cause to: the
\* rollup went wrong, or the snapshots on disk are not those of the history
\* that is replayed (a slot was never saved, or another setup wrote it), or
\* that history ends before the plan does (a setup ended early near its end).
AlarmHasCause ==
    result \in {"mismatch", "missing"} /\ phase = "returned" =>
        \/ \E i \in DOMAIN ledger : ledger[i].root = "wrong"
        \/ \E n \in SetupSlots : snapshots[n] = Missing
        \/ \E n \in DOMAIN snapshots :
              /\ snapshots[n] # Missing
              /\ n < Len(persistent_da) => snapshots[n].gen # persistent_da[n + 1].gen
        \/ Batches(persistent_da) < stop_at_height(manager_versions)

\* No rollup outlives the program on any of its ways out: a manager that is
\* still alive has been sent SIGKILL, or, when the program itself was killed,
\* at least SIGTERM.
NothingOutlives ==
    phase = "idle" /\ Alive =>
        pending = "kill" \/ (result = "killed" /\ pending = "term")

\* After a signal the program ends, whatever the rollup and its API do.
SignalEndsRun == signalled ~> phase = "idle"

\* The state validation worker never fails a run whose sequencer is right:
\* whatever the API shows between its queries, an assertion that is rejected
\* is one the sequencer has already left behind.
NoFalseAssertion == ~ worker.failed
=============================================================================
