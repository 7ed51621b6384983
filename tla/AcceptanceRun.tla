---------------------------- MODULE AcceptanceRun ----------------------------
(***************************************************************************)
(* The programs setup and acceptance-test as they run: one process at a     *)
(* time, the task it spawns (run_setup or run_test) with its phases, the    *)
(* rollup manager it starts in a process group of its own, the postgres     *)
(* container, the signals it handles and the death it cannot handle; run    *)
(* after run over the same files.                                           *)
(*                                                                         *)
(* The rollup is external: it replays the blocks of mock_da.sqlite, then    *)
(* makes new ones, and stops at the stop height it was given.  In a test it *)
(* may compute a wrong state root from some slot on: that is what the test  *)
(* is for.                                                                  *)
(***************************************************************************)
EXTENDS AcceptanceFiles

CONSTANTS
    MaxRuns,      \* runs of the two programs, the first before the initial state
    MaxSlots,     \* slots of a ledger
    MaxEmpty,     \* slots without a batch that a run adds
    MaxCrashes,   \* deaths of the rollup that nobody asked for
    FullSlotSaveInterval, \* of the soak's slots, saved with their batches
    Policies      \* --on-existing-rollup-state

\* A ledger has room for the history of a setup, which makes two batches by
\* hand and has slots beyond the early ones.  Under the third policy, ignore,
\* the operator asks for a run over what is there.
ASSUME RunAssumption ==
    LET height == Versions * BlocksPerVersion
    IN  /\ height >= 2 /\ EarlySlots <= height
        /\ MaxSlots \in Nat /\ height < MaxSlots
        /\ Policies \subseteq {"error", "clobber"}

VARIABLES
    snapshots, persistent_da, mock_da,  \* acceptance-test-data
    ledger,       \* the rollup's state directory
    container,    \* a postgres container exists
    manager,      \* "none", "running", "closing" (no API), "exited"
    pending,      \* the signal its process group has been sent
    exit_ok,      \* the manager's exit status was success
    crashes,      \* deaths so far
    run,          \* number of this run (or of the last one)
    kind,         \* "setup" or "test"
    phase,        \* of the task; "idle" between runs
    result,       \* of this run (or of the last one)
    signalled,    \* the shutdown channel holds a reason
    cursor,       \* next slot of the subscription
    progress      \* the loop variables of the phase

files == <<snapshots, persistent_da, mock_da>>
world == <<files, ledger, container, manager, pending, exit_ok, crashes>>
task  == <<run, kind, phase, result, signalled, cursor, progress>>
vars  == <<world, task>>

NoProgress == [checked |-> 0, latest |-> 0, batches |-> 0, slots |-> 0, first |-> 0]

\* The history of a setup that went well: genesis, then a batch in each slot.
CompletedSetup ==
    [i \in 1..(stop_at_height(manager_versions) + 1) |->
        [gen |-> 1, first |-> monus(i, 2), end |-> i - 1, root |-> "right", by |-> 1]]

\* An empty data directory, or what run 1, a setup, left in it.
RunInit ==
    /\ persistent_da \in {<< >>, CompletedSetup}
    /\ snapshots = [n \in 0..(MaxSlots - 1) |->
                        IF n < Len(persistent_da) THEN slot_to_json(persistent_da[n + 1], TRUE)
                                                  ELSE Missing]
    /\ mock_da = << >> /\ ledger = << >>
    /\ container = FALSE /\ manager = "none" /\ pending = "none"
    /\ exit_ok = TRUE /\ crashes = 0
    /\ run = 1 /\ kind = "setup" /\ phase = "idle" /\ result = "none"
    /\ signalled = FALSE /\ cursor = 0 /\ progress = NoProgress

\* The manager has not been reaped: Child::id() is Some.
Alive == manager \in {"running", "closing"}

plan == IF kind = "setup"
          THEN manager_versions
          ELSE extend_last_stop_height(manager_versions, BlocksPerVersion)

Batches(history) == IF history = << >> THEN 0 ELSE history[Len(history)].end

-----------------------------------------------------------------------------
(* The rollup (external).                                                   *)

Empties == {i \in 1..Len(mock_da) : mock_da[i].gen = run /\ mock_da[i].first = mock_da[i].end}

\* A new block, with a batch in it or without, and the rollup's slot for it.
Produce(with_batch) ==
    LET n     == Batches(mock_da)
        slot  == [gen |-> run, first |-> n, end |-> IF with_batch THEN n + 1 ELSE n,
                  root |-> IF ledger # << >> THEN ledger[Len(ledger)].root ELSE "right",
                  by |-> run]
    IN  /\ manager = "running" /\ Len(ledger) = Len(mock_da) /\ Len(ledger) < MaxSlots
        /\ IF with_batch THEN ledger # << >> /\ n < stop_at_height(plan)
                         ELSE Cardinality(Empties) <= MaxEmpty
        /\ mock_da' = Append(mock_da, slot) /\ ledger' = Append(ledger, slot)
        /\ UNCHANGED <<snapshots, persistent_da, container, manager, pending, exit_ok,
                       crashes, task>>

\* A block that was there before: executed again, rightly or (by a rollup with
\* a regression) wrongly, and then wrongly ever after.
Replay(root) ==
    /\ manager = "running" /\ Len(ledger) < Len(mock_da)
    /\ root = "right" => \A i \in DOMAIN ledger : ledger[i].root = "right"
    /\ root = "wrong" => kind = "test"
    /\ ledger' = Append(ledger, [mock_da[Len(ledger) + 1] EXCEPT !.root = root, !.by = run])
    /\ UNCHANGED <<files, container, manager, pending, exit_ok, crashes, task>>

\* It stops at its stop height, or on SIGTERM: first the API is gone.
ApiCloses ==
    /\ manager = "running"
    /\ pending = "term" \/ Batches(ledger) >= stop_at_height(plan)
    /\ manager' = "closing"
    /\ UNCHANGED <<files, ledger, container, pending, exit_ok, crashes, task>>

ManagerExits ==
    /\ manager = "closing"
    /\ manager' = "exited" /\ exit_ok' \in {TRUE, pending = "none"}
    /\ UNCHANGED <<files, ledger, container, pending, crashes, task>>

ManagerCrashes ==
    /\ Alive /\ crashes < MaxCrashes
    /\ manager' = "exited" /\ exit_ok' = FALSE /\ crashes' = crashes + 1
    /\ UNCHANGED <<files, ledger, container, pending, task>>

KillLands ==
    /\ Alive /\ pending = "kill"
    /\ manager' = "exited" /\ exit_ok' = FALSE
    /\ UNCHANGED <<files, ledger, container, pending, crashes, task>>

-----------------------------------------------------------------------------
(* How a task ends.                                                         *)

\* A bug: the process handle does nothing when it is dropped.
drop_rollup_nothing == pending' = pending

\* Drop of ManagedRollupProcess: SIGKILL to the process group.
drop_rollup == pending' = IF Alive THEN "kill" ELSE pending

\* Every `?`, bail and panic of the task, and its abort: the locals are
\* dropped, the rollup first, then the container guard; the result goes to run_until_shutdown_signal.
Unwind(error) ==
    /\ drop_rollup
    /\ container' = FALSE
    /\ result' = error /\ phase' = "returned"
    /\ UNCHANGED <<files, ledger, manager, exit_ok, crashes, run, kind, signalled, cursor,
                   progress>>

Async == {"ready", "manual", "contracts", "resync", "sequencer", "soak",
          "stopping", "terminating", "killing"}

\* An API call, an assertion or a file operation of the phase fails; in the
\* report, the throughput is below nine tenths of the setup's.
TaskFails ==
    /\ phase \in {"spawn", "ready", "manual", "contracts", "resync", "sequencer",
                  "save", "report", "clean"}
    /\ Unwind("error")

\* sleep_or_shutdown and wait_for_shutdown outside the soak loop.
TaskSeesShutdown ==
    /\ signalled /\ phase \in {"ready", "resync", "sequencer"}
    /\ Unwind("shutdown")

\* run_until_shutdown_signal: a signal sets the reason in the channel ...
Signal ==
    /\ phase # "idle" /\ ~ signalled
    /\ signalled' = TRUE
    /\ UNCHANGED <<world, run, kind, phase, result, cursor, progress>>

\* A bug: a task that does not end by itself is waited for.
abort_task_never == FALSE

\* ... and a task that has not ended 90 seconds later is aborted at its await.
abort_task == signalled /\ phase \in Async

Abort == abort_task /\ Unwind("shutdown")

\* The program ends with the task's result; Ok after a signal is an error.
Return ==
    /\ phase = "returned"
    /\ phase' = "idle"
    /\ result' = IF signalled /\ result = "ok" THEN "shutdown" ELSE result
    /\ signalled' = FALSE /\ cursor' = 0 /\ progress' = NoProgress
    /\ UNCHANGED <<world, run, kind>>

\* The program dies with no destructor run.  The manager asked the kernel for
\* a SIGTERM in that case (PR_SET_PDEATHSIG).
HarnessDies ==
    /\ phase # "idle"
    /\ pending' = IF Alive /\ pending = "none" THEN "term" ELSE pending
    /\ phase' = "idle" /\ result' = "killed"
    /\ signalled' = FALSE /\ cursor' = 0 /\ progress' = NoProgress
    /\ UNCHANGED <<files, ledger, container, manager, exit_ok, crashes, run, kind>>

-----------------------------------------------------------------------------
(* The start of a run.                                                      *)

\* prepare_setup_run, prepare_test_run: the state directory, then the plan
\* (whose builds may fail).
Start(k, policy) ==
    LET dir == prepare_rollup_state_dir(ledger, policy)
    IN  /\ phase = "idle" /\ ~ Alive /\ run < MaxRuns
        /\ run' = run + 1 /\ kind' = k
        /\ ledger' = dir.ledger
        /\ \/ dir.ok /\ phase' = (IF k = "test" THEN "copy" ELSE "postgres") /\ result' = "none"
           \/ phase' = "idle" /\ result' = "refused"
        /\ manager' = "none" /\ pending' = "none" /\ exit_ok' = TRUE
        /\ UNCHANGED <<files, container, crashes, signalled, cursor, progress>>

\* rm -r acceptance-test-data: how the README starts a new setup.
RemoveData ==
    /\ phase = "idle" /\ ~ Alive /\ run < MaxRuns
    /\ snapshots' = [n \in DOMAIN snapshots |-> Missing]
    /\ persistent_da' = << >> /\ mock_da' = << >> /\ ledger' = << >>
    /\ UNCHANGED <<container, manager, pending, exit_ok, crashes, task>>

\* copy_persistent_mock_data: the old copy is removed first.
CopyMockData ==
    /\ phase = "copy"
    /\ mock_da' = persistent_da
    /\ IF persistent_da = << >> THEN phase' = "returned" /\ result' = "error"
                                ELSE phase' = "postgres" /\ UNCHANGED result
    /\ UNCHANGED <<snapshots, persistent_da, ledger, container, manager, pending, exit_ok,
                   crashes, run, kind, signalled, cursor, progress>>

\* PostgresContainerGuard::start removes a stale container, starts one and
\* waits for it.  Before the guard exists an error may leave the container.
StartPostgres ==
    /\ phase = "postgres"
    /\ \/ container' = TRUE /\ phase' = "spawn" /\ UNCHANGED result
       \/ container' \in BOOLEAN /\ phase' = "returned" /\ result' = "error"
    /\ UNCHANGED <<files, ledger, manager, pending, exit_ok, crashes, run, kind, signalled,
                   cursor, progress>>

\* spawn_rollup_manager.
Spawn ==
    /\ phase = "spawn"
    /\ manager' = "running" /\ phase' = "ready"
    /\ UNCHANGED <<files, ledger, container, pending, exit_ok, crashes, run, kind, result,
                   signalled, cursor, progress>>

\* The rollup answers (or the attempts are used up), and the task subscribes:
\* it will see the slots from now on.
Ready ==
    /\ phase = "ready" /\ manager = "running"
    /\ phase' = IF kind = "setup" THEN "manual" ELSE "resync"
    /\ cursor' = Len(ledger)
    /\ progress' = [NoProgress EXCEPT !.first = Len(ledger)]
    /\ UNCHANGED <<world, run, kind, result, signalled>>

-----------------------------------------------------------------------------
(* The manual part of the setup.                                            *)

\* SlotMonitor::get_next_slot: the slot is saved with its batches.
MonitorSlot ==
    /\ phase = "manual" /\ Alive /\ cursor < Len(ledger)
    /\ snapshots' = save_slot_snapshot(snapshots, cursor, ledger[cursor + 1], TRUE)
    /\ cursor' = cursor + 1
    /\ UNCHANGED <<persistent_da, mock_da, ledger, container, manager, pending, exit_ok, crashes,
                   run, kind, phase, result, signalled, progress>>

\* The three transactions are in: the token did not exist before (no batch of
\* an earlier setup is replayed) and both batches have been seen.  The slots
\* before the subscription are fetched and saved, the others compared.
FinishManual ==
    /\ phase = "manual" /\ manager = "running" /\ cursor > progress.first
    /\ ledger[cursor].end >= 2
    /\ \A i \in 1..cursor : ledger[i].end > 0 => ledger[i].gen = run
    /\ fetch_and_check(ledger, snapshots, progress.first..(cursor - 1))
    /\ snapshots' = fetch_and_save(ledger, snapshots, 0..(progress.first - 1))
    /\ phase' = "contracts"
    /\ UNCHANGED <<persistent_da, mock_da, ledger, container, manager, pending, exit_ok, crashes,
                   run, kind, result, signalled, cursor, progress>>

-----------------------------------------------------------------------------
(* The resync of the test.                                                  *)

Resync ==
    /\ phase = "resync" /\ manager = "running" /\ cursor < Len(ledger)
    /\ LET round == resync_round(ledger, snapshots, progress.checked, cursor, progress.latest,
                                 expected_setup_batches(manager_versions))
       IN  \/ /\ round.outcome \in {"more", "complete"}
              /\ progress' = [progress EXCEPT !.checked = cursor, !.latest = round.latest]
              /\ phase' = IF round.outcome = "more" THEN "resync" ELSE "sequencer"
              /\ cursor' = cursor + 1
              /\ UNCHANGED <<world, run, kind, result, signalled>>
           \/ round.outcome \in {"mismatch", "missing"} /\ Unwind(round.outcome)

-----------------------------------------------------------------------------
(* run_soak.                                                                *)

start_batch == IF kind = "setup" THEN throughput_start_batch(manager_versions)
                                 ELSE progress.latest

close_to_end == is_very_close_to_soak_test_end(progress.batches,
                    monus(stop_at_height(plan), start_batch))

\* The soak subscribes anew: slots since the last subscription are not its.
StartSoak ==
    /\ phase \in {"contracts", "sequencer"} /\ manager = "running"
    /\ phase' = "soak" /\ cursor' = Len(ledger)
    /\ UNCHANGED <<world, run, kind, result, signalled, progress>>

\* The loop breaks; the background tasks are aborted and joined.  After an
\* error the rollup is told to stop, else it is given time to.
Break(error) ==
    /\ result' = error
    /\ IF error = "ok"
         THEN phase' = "stopping" /\ UNCHANGED pending
         ELSE /\ phase' = "terminating"
              /\ pending' = IF Alive /\ pending = "none" THEN "term" ELSE pending
    /\ UNCHANGED <<files, ledger, container, manager, exit_ok, crashes, run, kind, signalled,
                   cursor, progress>>

SoakRollupExits ==
    /\ phase = "soak" /\ manager = "exited"
    /\ Break(IF exit_ok THEN "ok" ELSE "error")

\* A background task failed.  Near the end its error is ignored, but never a
\* panic.
SoakTaskFails ==
    /\ phase = "soak" /\ Alive
    /\ Break("error")

\* The counters, then the snapshot, every so often with the batches.
SoakSlot ==
    LET slot    == ledger[cursor + 1]
        counted == slot.first # slot.end /\ slot.end - 1 > start_batch
        batches == progress.batches + (IF counted THEN 1 ELSE 0)
        slots   == progress.slots + (IF batches = 0 THEN 0 ELSE 1)
        full    == batches # 0 /\ (slots % FullSlotSaveInterval) = 0
    IN  /\ phase = "soak" /\ Alive /\ cursor < Len(ledger)
        /\ slot.first # slot.end => manager = "running"
        /\ progress' = [progress EXCEPT !.batches = batches, !.slots = slots]
        /\ cursor' = cursor + 1
        /\ IF kind = "test"
             THEN UNCHANGED snapshots
             ELSE \E children \in {FALSE, full /\ manager = "running"} :
                     snapshots' = save_slot_snapshot(snapshots, cursor, slot, children)
        /\ UNCHANGED <<persistent_da, mock_da, ledger, container, manager, pending, exit_ok,
                       crashes, run, kind, phase, result, signalled>>

\* The batch of the slot cannot be fetched, or the stream is closed, and the
\* manager is still there: the end of the test if it is near.
SoakLosesRollup ==
    /\ phase = "soak" /\ Alive
    /\ manager = "running" => /\ cursor < Len(ledger)
                             /\ ledger[cursor + 1].first # ledger[cursor + 1].end
    /\ Break(IF close_to_end THEN "ok" ELSE "error")

\* Polled last: nothing else of the select is ready.
SoakShutdown ==
    /\ phase = "soak" /\ signalled /\ manager = "running" /\ cursor = Len(ledger)
    /\ Break("shutdown")

-----------------------------------------------------------------------------
(* The end of a soak.                                                       *)

\* run_soak returns once the rollup is gone: an error status is an error, and
\* so is what a background task had failed with when it was joined.
Reaped == manager = "exited" /\ result = "ok" /\ exit_ok

\* ensure_stopped's wait is over.
StopTimesOut ==
    /\ phase = "stopping" /\ Alive
    /\ phase' = "terminating" /\ pending' = "term"
    /\ UNCHANGED <<files, ledger, container, manager, exit_ok, crashes, run, kind, result,
                   signalled, cursor, progress>>

TermTimesOut ==
    /\ phase = "terminating" /\ Alive
    /\ phase' = "killing" /\ pending' = "kill"
    /\ UNCHANGED <<files, ledger, container, manager, exit_ok, crashes, run, kind, result,
                   signalled, cursor, progress>>

KillTimesOut ==
    /\ phase = "killing" /\ Alive
    /\ Unwind("error")

SoakFails ==
    /\ phase \in {"stopping", "terminating", "killing"} /\ manager = "exited"
    /\ Unwind(IF result = "ok" THEN "error" ELSE result)

SoakSucceeds ==
    /\ phase \in {"stopping", "terminating", "killing"} /\ Reaped
    /\ phase' = IF kind = "setup" THEN "save" ELSE "report"
    /\ UNCHANGED <<world, run, kind, result, signalled, cursor, progress>>

\* save_mock_data: the block history becomes the one the tests replay.
SaveMockData ==
    /\ phase = "save"
    /\ persistent_da' = mock_da /\ mock_da' = << >> /\ phase' = "clean"
    /\ UNCHANGED <<snapshots, ledger, container, manager, pending, exit_ok, crashes, run, kind,
                   result, signalled, cursor, progress>>

\* The throughput is good enough, and recorded.
Report ==
    /\ phase = "report"
    /\ phase' = "clean"
    /\ UNCHANGED <<world, run, kind, result, signalled, cursor, progress>>

\* cleanup_rollup_state_dir on the default directory; the guard is dropped.
CleanUp ==
    /\ phase = "clean"
    /\ ledger' = << >> /\ container' = FALSE /\ phase' = "returned"
    /\ UNCHANGED <<files, manager, pending, exit_ok, crashes, run, kind, result, signalled,
                   cursor, progress>>

-----------------------------------------------------------------------------
RollupNext ==
    \/ \E b \in BOOLEAN : Produce(b)
    \/ \E root \in {"right", "wrong"} : Replay(root)
    \/ ApiCloses \/ ManagerExits \/ ManagerCrashes \/ KillLands

TaskNext ==
    \/ CopyMockData \/ StartPostgres \/ Spawn \/ Ready
    \/ MonitorSlot \/ FinishManual \/ Resync \/ StartSoak
    \/ SoakRollupExits \/ SoakTaskFails \/ SoakSlot \/ SoakLosesRollup \/ SoakShutdown
    \/ StopTimesOut \/ TermTimesOut \/ KillTimesOut \/ SoakFails \/ SoakSucceeds
    \/ SaveMockData \/ Report \/ CleanUp
    \/ TaskFails \/ TaskSeesShutdown \/ Abort \/ Return

RunNext ==
    \/ RollupNext \/ TaskNext \/ Signal \/ HarnessDies \/ RemoveData
    \/ \E k \in {"setup", "test"}, policy \in Policies : Start(k, policy)

\* The timer of the abort fires, the program returns, and the steps with no
\* await in them end.  Nothing is assumed of the rollup or of its API.
RunFairness ==
    /\ WF_vars(Abort)
    /\ WF_vars(Return)
    /\ WF_vars(CopyMockData \/ StartPostgres \/ Spawn \/ SaveMockData \/ Report \/ CleanUp)
=============================================================================
