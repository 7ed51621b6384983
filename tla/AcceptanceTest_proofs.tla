----------------------- MODULE AcceptanceTest_proofs ------------------------
(***************************************************************************)
(* Invariants of the acceptance test's programs, for every plan of         *)
(* versions, every number of runs, slots and crashes.                      *)
(***************************************************************************)
EXTENDS AcceptanceTest, NatLemmas

-----------------------------------------------------------------------------
(* The inductive invariant, in parts.                                       *)

Preparing == {"copy", "postgres", "spawn"}
Finished == {"save", "report", "clean"}
Phases == {"idle", "returned"} \cup Preparing \cup Async \cup Finished

\* Which manager a phase can meet, and what its process group has been sent.
ControlInv ==
    /\ manager \in {"none", "running", "closing", "exited"}
    /\ pending \in {"none", "term", "kill"}
    /\ phase \in Phases /\ kind \in {"setup", "test"}
    /\ phase \in Preparing => manager = "none"
    /\ phase \in Async => manager # "none"
    /\ phase \in Finished => manager = "exited"
    /\ phase \in {"copy", "resync", "sequencer", "report"} => kind = "test"
    /\ phase \in {"manual", "contracts", "save"} => kind = "setup"
    /\ phase \notin {"idle", "returned"} => result \notin {"mismatch", "missing"}
    /\ phase = "returned" /\ Alive => pending = "kill"
    /\ NothingOutlives

Slot == [gen : Nat, first : Nat, end : Nat, root : {"right", "wrong"}, by : Nat]
Json == [gen : Nat, first : Nat, end : Nat, root : {"right", "wrong", "none"},
         batches : SUBSET Int]

\* A block history: batch ranges one after the other, at most one batch in a
\* slot and none in the first.
IsHistory(h) ==
    /\ h \in Seq(Slot) /\ Len(h) <= MaxSlots
    /\ \A i \in 1..Len(h) :
          /\ h[i].first <= h[i].end /\ h[i].end < i
          /\ i > 1 => h[i].first = h[i - 1].end

SameBlock(s, t) == s.gen = t.gen /\ s.first = t.first /\ s.end = t.end

\* The ledger executes the blocks of the history, in order.
Executes(l, h) ==
    /\ Len(l) <= Len(h)
    /\ \A i \in 1..Len(l) : SameBlock(l[i], h[i])

\* A history begins with another one.
Continues(h, old) ==
    /\ Len(old) <= Len(h)
    /\ \A i \in 1..Len(old) : h[i] = old[i]

\* The ledger is the work of this run, and right when it is a setup.
ByThisRun(l, r, k) ==
    \A i \in 1..Len(l) : l[i].by = r /\ (k = "setup" => l[i].root = "right")

FilesInv ==
    /\ IsHistory(persistent_da) /\ IsHistory(mock_da) /\ ledger \in Seq(Slot)
    /\ run \in Nat
    /\ Alive => Executes(ledger, mock_da)
    /\ manager # "none" => ByThisRun(ledger, run, kind)
    /\ phase \in Preparing => ledger = << >>
    /\ kind = "test" /\ phase \in {"postgres", "spawn", "ready", "resync"} =>
          Continues(mock_da, persistent_da)

ProgressInv ==
    /\ cursor \in Nat
    /\ progress \in [checked : Nat, latest : Nat, batches : Nat, slots : Nat, first : Nat]
    /\ phase = "manual" => progress.first <= Len(ledger)
    /\ phase = "resync" => progress.checked <= cursor

\* A snapshot is the JSON of a slot that a setup executed.
SnapshotsInv ==
    /\ snapshots \in [0..(MaxSlots - 1) -> Json]
    /\ \A n \in 0..(MaxSlots - 1) :
          \/ snapshots[n] = Missing
          \/ /\ snapshots[n].root = "right"
             /\ snapshots[n].batches \in {{}, snapshots[n].first..(snapshots[n].end - 1)}

\* Two entries for the same slot that the same run made are the same block.
Agree(s, t) == s.gen = t.gen => SameBlock(s, t)

\* A run and a slot number name one block, whichever file it is in.
PersistentGens ==
    \A i \in 1..Len(persistent_da) :
       /\ persistent_da[i].gen <= run
       /\ phase \in Preparing \/ Alive => persistent_da[i].gen < run
       /\ i <= Len(mock_da) => Agree(mock_da[i], persistent_da[i])

MockGens ==
    \A i \in 1..Len(mock_da) :
       mock_da[i].gen <= run /\ (phase \in Preparing => mock_da[i].gen < run)

SnapshotGens ==
    \A n \in 0..(MaxSlots - 1) :
       snapshots[n] # Missing =>
          /\ snapshots[n].gen <= run
          /\ phase \in Preparing => snapshots[n].gen < run
          /\ Alive /\ snapshots[n].gen = run => n < Len(mock_da)
          /\ n < Len(mock_da) => Agree(snapshots[n], mock_da[n + 1])
          /\ n < Len(persistent_da) => Agree(snapshots[n], persistent_da[n + 1])

GenerationsInv == PersistentGens /\ MockGens /\ SnapshotGens

\* Slot n passes the comparison of the resync loop.
Passes(n) ==
    /\ n < Len(ledger) /\ n < MaxSlots
    /\ IF snapshots[n] = Missing THEN n < EarlySlots
                                 ELSE compare_against_snapshot(ledger[n + 1], snapshots[n])

\* latest is the latest batch of a snapshot, and it and all before it pass.
ReadUpTo(m, latest) ==
    /\ snapshots[m] # Missing /\ latest = latest_batch(snapshots[m])
    /\ \A n \in 0..m : Passes(n)

ResyncInv ==
    phase = "resync" =>
        /\ progress.checked > 0 => \A n \in 0..progress.checked : Passes(n)
        /\ progress.latest > 0 => \E m \in 0..progress.checked : ReadUpTo(m, progress.latest)

\* A worker that has not failed.
IsWorker(w) ==
    /\ DOMAIN w = {"asked", "root", "heights", "failed"}
    /\ w = [f \in DOMAIN w |-> w[f]]
    /\ w.asked \in 0..2 /\ w.root \in Nat /\ w.heights \in Nat /\ ~ w.failed

\* What the worker has read is never ahead of the sequencer, and a state root
\* never behind the heights read before it.
WorkerInv ==
    /\ IsWorker(worker) /\ api \in [root : Nat, heights : Nat]
    /\ phase # "soak" => worker = Waiting /\ api = Shown(0)
    /\ phase = "soak" =>
          /\ api.heights <= api.root /\ api.root <= Height
          /\ worker.asked >= 1 => worker.heights <= api.root
          /\ worker.asked = 2 => worker.heights <= worker.root /\ worker.root <= Height

RunInv ==
    /\ ControlInv /\ FilesInv /\ ProgressInv /\ SnapshotsInv /\ GenerationsInv /\ ResyncInv
    /\ PassMeansReplayed /\ AlarmHasCause

Inv == RunInv /\ WorkerInv
-----------------------------------------------------------------------------
(* The control of the programs.                                             *)

\* The state before the first run.
LEMMA ControlInit == RunInit => ControlInv
BY DEF RunInit, ControlInv, Phases, Preparing, Async, Finished, Alive, NothingOutlives

\* Every step keeps a live rollup under a signal once its task is over.
LEMMA ControlStep ==
    ASSUME ControlInv, RunNext
    PROVE  ControlInv'
<1> USE DEF ControlInv, Phases, Preparing, Async, Finished, Alive, NothingOutlives, vars, world,
            files, task
<1>1. CASE \E b \in BOOLEAN : Produce(b)
  BY <1>1 DEF Produce
<1>2. CASE \E root \in {"right", "wrong"} : Replay(root)
  BY <1>2 DEF Replay
<1>3. CASE ApiCloses
  BY <1>3 DEF ApiCloses
<1>4. CASE ManagerExits
  BY <1>4 DEF ManagerExits
<1>5. CASE ManagerCrashes
  BY <1>5 DEF ManagerCrashes
<1>6. CASE KillLands
  BY <1>6 DEF KillLands
<1>7. CASE CopyMockData
  BY <1>7 DEF CopyMockData
<1>8. CASE StartPostgres
  BY <1>8 DEF StartPostgres
<1>9. CASE Spawn
  BY <1>9 DEF Spawn
<1>10. CASE Ready
  BY <1>10 DEF Ready
<1>11. CASE MonitorSlot
  BY <1>11 DEF MonitorSlot
<1>12. CASE FinishManual
  BY <1>12 DEF FinishManual
<1>13. CASE Resync
  BY <1>13 DEF Resync, Unwind, drop_rollup
<1>14. CASE StartSoak
  BY <1>14 DEF StartSoak
<1>15. CASE SoakRollupExits
  BY <1>15 DEF SoakRollupExits, Break
<1>16. CASE SoakTaskFails
  BY <1>16 DEF SoakTaskFails, Break
<1>17. CASE SoakSlot
  BY <1>17 DEF SoakSlot
<1>18. CASE SoakLosesRollup
  BY <1>18 DEF SoakLosesRollup, Break
<1>19. CASE SoakShutdown
  BY <1>19 DEF SoakShutdown, Break
<1>20. CASE StopTimesOut
  BY <1>20 DEF StopTimesOut
<1>21. CASE TermTimesOut
  BY <1>21 DEF TermTimesOut
<1>22. CASE KillTimesOut
  BY <1>22 DEF KillTimesOut, Unwind, drop_rollup
<1>23. CASE SoakFails
  BY <1>23 DEF SoakFails, Unwind, drop_rollup
<1>24. CASE SoakSucceeds
  BY <1>24 DEF SoakSucceeds, Reaped
<1>25. CASE SaveMockData
  BY <1>25 DEF SaveMockData
<1>26. CASE Report
  BY <1>26 DEF Report
<1>27. CASE CleanUp
  BY <1>27 DEF CleanUp
<1>28. CASE TaskFails
  BY <1>28 DEF TaskFails, Unwind, drop_rollup
<1>29. CASE TaskSeesShutdown
  BY <1>29 DEF TaskSeesShutdown, Unwind, drop_rollup
<1>30. CASE Abort
  BY <1>30 DEF Abort, Unwind, drop_rollup, abort_task
<1>31. CASE Return
  BY <1>31 DEF Return
<1>32. CASE Signal
  BY <1>32 DEF Signal
<1>33. CASE HarnessDies
  BY <1>33 DEF HarnessDies
<1>34. CASE RemoveData
  BY <1>34 DEF RemoveData
<1>35. CASE \E k \in {"setup", "test"}, policy \in Policies : Start(k, policy)
  BY <1>35 DEF Start
<1> QED
  BY <1>1, <1>2, <1>3, <1>4, <1>5, <1>6, <1>7, <1>8, <1>9, <1>10, <1>11, <1>12, <1>13, <1>14, <1>15, <1>16, <1>17, <1>18, <1>19, <1>20, <1>21, <1>22, <1>23, <1>24, <1>25, <1>26, <1>27, <1>28, <1>29, <1>30, <1>31, <1>32, <1>33, <1>34, <1>35
     DEF RunNext, RollupNext, TaskNext
\* A step that leaves the files, the ledger and the run alone and starts no
\* rollup.
Quiet ==
    /\ UNCHANGED <<snapshots, persistent_da, mock_da, ledger, run, kind>>
    /\ (manager' = "none") <=> (manager = "none")
    /\ Alive' => Alive
    /\ phase' \in Preparing => phase \in Preparing
    /\ phase' \in {"postgres", "spawn", "ready", "resync"} =>
          phase \in {"postgres", "spawn", "ready", "resync"}

\* The steps that do anything else.
Loud ==
    \/ \E b \in BOOLEAN : Produce(b)
    \/ \E root \in {"right", "wrong"} : Replay(root)
    \/ CopyMockData \/ Spawn \/ MonitorSlot \/ FinishManual \/ SoakSlot \/ SaveMockData
    \/ CleanUp \/ RemoveData
    \/ \E k \in {"setup", "test"}, policy \in Policies : Start(k, policy)

\* Most steps are quiet.
LEMMA QuietOrLoud ==
    ASSUME ControlInv, RunNext
    PROVE  Quiet \/ Loud
<1> USE DEF ControlInv, Phases, Preparing, Async, Finished, Alive, Quiet, vars, world, files, task
<1>1. CASE ApiCloses
  BY <1>1 DEF ApiCloses
<1>2. CASE ManagerExits
  BY <1>2 DEF ManagerExits
<1>3. CASE ManagerCrashes
  BY <1>3 DEF ManagerCrashes
<1>4. CASE KillLands
  BY <1>4 DEF KillLands
<1>5. CASE StartPostgres
  BY <1>5 DEF StartPostgres
<1>6. CASE Ready
  BY <1>6 DEF Ready
<1>7. CASE Resync
  BY <1>7 DEF Resync, Unwind, drop_rollup
<1>8. CASE StartSoak
  BY <1>8 DEF StartSoak
<1>9. CASE SoakRollupExits
  BY <1>9 DEF SoakRollupExits, Break
<1>10. CASE SoakTaskFails
  BY <1>10 DEF SoakTaskFails, Break
<1>11. CASE SoakLosesRollup
  BY <1>11 DEF SoakLosesRollup, Break
<1>12. CASE SoakShutdown
  BY <1>12 DEF SoakShutdown, Break
<1>13. CASE StopTimesOut
  BY <1>13 DEF StopTimesOut
<1>14. CASE TermTimesOut
  BY <1>14 DEF TermTimesOut
<1>15. CASE KillTimesOut
  BY <1>15 DEF KillTimesOut, Unwind, drop_rollup
<1>16. CASE SoakFails
  BY <1>16 DEF SoakFails, Unwind, drop_rollup
<1>17. CASE SoakSucceeds
  BY <1>17 DEF SoakSucceeds, Reaped
<1>18. CASE Report
  BY <1>18 DEF Report
<1>19. CASE TaskFails
  BY <1>19 DEF TaskFails, Unwind, drop_rollup
<1>20. CASE TaskSeesShutdown
  BY <1>20 DEF TaskSeesShutdown, Unwind, drop_rollup
<1>21. CASE Abort
  BY <1>21 DEF Abort, Unwind, drop_rollup, abort_task
<1>22. CASE Return
  BY <1>22 DEF Return
<1>23. CASE Signal
  BY <1>23 DEF Signal
<1>24. CASE HarnessDies
  BY <1>24 DEF HarnessDies
<1> QED
  BY <1>1, <1>2, <1>3, <1>4, <1>5, <1>6, <1>7, <1>8, <1>9, <1>10, <1>11, <1>12, <1>13, <1>14, <1>15, <1>16, <1>17, <1>18, <1>19, <1>20, <1>21, <1>22, <1>23, <1>24
     DEF RunNext, RollupNext, TaskNext, Loud
-----------------------------------------------------------------------------
(* The files.                                                               *)

\* What Append does, for any set of elements.
LEMMA AppendFacts ==
    ASSUME NEW S, NEW s \in Seq(S), NEW e \in S
    PROVE  /\ Append(s, e) \in Seq(S) /\ Len(s) \in Nat /\ Len(Append(s, e)) = Len(s) + 1
           /\ \A i \in 1..Len(s) : Append(s, e)[i] = s[i]
           /\ Append(s, e)[Len(s) + 1] = e
OBVIOUS

\* The entries of a sequence are of its set.
LEMMA EntryFacts ==
    ASSUME NEW S, NEW s \in Seq(S)
    PROVE  Len(s) \in Nat /\ \A i \in 1..Len(s) : s[i] \in S
OBVIOUS

LEMMA EmptyIff ==
    ASSUME NEW S, NEW s \in Seq(S)
    PROVE  (s = << >>) <=> (Len(s) = 0)
OBVIOUS

\* The heights of a plan.
LEMMA Heights ==
    /\ stop_at_height(manager_versions) = Versions * BlocksPerVersion
    /\ stop_at_height(manager_versions) \in Nat
    /\ Versions * BlocksPerVersion \in Nat
<1> DEFINE F == [i \in 1..Versions |->
        [start_height |-> IF i = 1 THEN 0 ELSE (i - 1) * BlocksPerVersion + 1,
         stop_height  |-> i * BlocksPerVersion]]
<1>1. Versions \in Nat \ {0} /\ BlocksPerVersion \in Nat
  BY PlanAssumption
<1>2. Len(F) = Versions /\ F[Versions].stop_height = Versions * BlocksPerVersion
  BY <1>1
<1>3. Versions * BlocksPerVersion \in Nat
  BY <1>1
<1> QED BY <1>2, <1>3 DEF stop_at_height, manager_versions

\* The end of a history.
LEMMA HistoryEnd ==
    ASSUME NEW h, IsHistory(h)
    PROVE  /\ Len(h) \in Nat /\ Batches(h) \in Nat
           /\ h # << >> => Len(h) > 0 /\ Batches(h) = h[Len(h)].end /\ Batches(h) < Len(h)
           /\ h = << >> => Len(h) = 0 /\ Batches(h) = 0
<1>1. Len(h) \in Nat /\ \A i \in 1..Len(h) : h[i] \in Slot
  BY EntryFacts DEF IsHistory
<1>2. (h = << >>) <=> (Len(h) = 0)
  BY EmptyIff DEF IsHistory
<1>3. ASSUME h # << >> PROVE Len(h) > 0 /\ h[Len(h)].end \in Nat /\ h[Len(h)].end < Len(h)
  <2>1. Len(h) \in 1..Len(h)
    BY <1>1, <1>2, <1>3
  <2> QED BY <1>1, <2>1 DEF IsHistory, Slot
<1> QED BY <1>1, <1>2, <1>3 DEF Batches

\* A new block continues the batch range.
LEMMA HistoryGrows ==
    ASSUME NEW h, IsHistory(h), NEW s \in Slot, Len(h) < MaxSlots, s.first = Batches(h),
           s.end = s.first \/ (s.end = s.first + 1 /\ h # << >>)
    PROVE  IsHistory(Append(h, s))
<1> DEFINE g == Append(h, s)  N == Len(h)
<1>1. /\ g \in Seq(Slot) /\ N \in Nat /\ Len(g) = N + 1
      /\ \A i \in 1..N : g[i] = h[i]
      /\ g[N + 1] = s
  BY AppendFacts, Zenon DEF IsHistory
<1>2. /\ N > 0 => s.first = h[N].end /\ s.first < N /\ h # << >>
      /\ N = 0 => s.first = 0 /\ h = << >>
      /\ s.first \in Nat
  <2>1. h \in Seq(Slot)
    BY DEF IsHistory
  <2>2. (h = << >>) <=> (N = 0)
    BY <2>1, EmptyIff
  <2> QED BY HistoryEnd, <1>1, <2>2
<1>3. MaxSlots \in Nat
  BY RunAssumption
<1> HIDE DEF g, N
<1>4. ASSUME NEW i \in 1..(N + 1)
      PROVE  g[i].first <= g[i].end /\ g[i].end < i /\ (i > 1 => g[i].first = g[i - 1].end)
  <2>1. CASE i = N + 1
    <3>1. N > 0 => g[N] = h[N] /\ N = i - 1
      BY <1>1, <2>1
    <3>2. g[i] = s /\ s.end \in Nat
      BY <1>1, <2>1 DEF Slot
    <3>3. s.first <= s.end /\ s.end < N + 1
      BY <1>1, <1>2, <3>2
    <3> QED BY <3>1, <3>2, <3>3, <1>1, <1>2, <2>1
  <2>2. CASE i \in 1..N
    <3>1. i > 1 => i - 1 \in 1..N
      BY <2>2, <1>1
    <3>2. h[i].first <= h[i].end /\ h[i].end < i /\ (i > 1 => h[i].first = h[i - 1].end)
      BY <2>2 DEF IsHistory, N
    <3> QED BY <3>1, <3>2, <2>2, <1>1
  <2> QED BY <2>1, <2>2, <1>1
<1>5. Len(g) <= MaxSlots
  BY <1>1, <1>3 DEF N
<1> QED BY <1>1, <1>4, <1>5 DEF IsHistory, g
\* What a completed setup leaves is a history.
LEMMA CompletedHistory == IsHistory(CompletedSetup)
<1> DEFINE H == Versions * BlocksPerVersion
           C == [i \in 1..(H + 1) |->
                   [gen |-> 1, first |-> monus(i, 2), end |-> i - 1, root |-> "right", by |-> 1]]
<1>0. CompletedSetup = C
  BY Heights, Zenon DEF CompletedSetup
<1>1. H \in Nat /\ MaxSlots \in Nat /\ H < MaxSlots
  <2>1. H \in Nat
    BY Heights
  <2>2. MaxSlots \in Nat /\ H < MaxSlots
    BY RunAssumption
  <2> QED BY <2>1, <2>2
<1> HIDE DEF H
<1>2. ASSUME NEW i \in 1..(H + 1)
      PROVE  /\ C[i] \in Slot /\ C[i].first <= C[i].end /\ C[i].end < i
             /\ i > 1 => C[i].first = C[i - 1].end
  <2>1. C[i].first = monus(i, 2) /\ C[i].end = i - 1
    OBVIOUS
  <2>2. i > 1 => i - 1 \in 1..(H + 1) /\ C[i - 1].end = i - 2 /\ monus(i, 2) = i - 2
    BY <1>1 DEF monus
  <2>3. monus(i, 2) \in Nat /\ monus(i, 2) <= i - 1
    BY <1>1 DEF monus
  <2>4. C[i] \in Slot
    BY <2>3, <1>1 DEF Slot
  <2> QED BY <2>1, <2>2, <2>3, <2>4, <1>1
<1>3. C \in [1..(H + 1) -> Slot]
  <2>1. C = [i \in 1..(H + 1) |-> C[i]]
    OBVIOUS
  <2> HIDE DEF C
  <2> QED BY <1>2, <2>1
<1> HIDE DEF C
<1>4. C \in Seq(Slot) /\ Len(C) = H + 1
  BY <1>1, <1>3
<1> QED BY <1>0, <1>1, <1>2, <1>4 DEF IsHistory

\* The empty history.
LEMMA EmptyHistory == IsHistory(<< >>)
BY RunAssumption DEF IsHistory

LEMMA FilesInit == RunInit => FilesInv
<1> SUFFICES ASSUME RunInit PROVE FilesInv
  OBVIOUS
<1>1. IsHistory(persistent_da) /\ IsHistory(mock_da)
  BY CompletedHistory, EmptyHistory DEF RunInit
<1>2. ledger = << >> /\ ledger \in Seq(Slot) /\ Len(ledger) = 0 /\ run \in Nat
  BY DEF RunInit
<1> QED BY <1>1, <1>2 DEF RunInit, FilesInv, Alive, Preparing

\* A block the rollup makes is appended to the history and to the ledger.
LEMMA ProduceFacts ==
    ASSUME ControlInv, FilesInv, NEW b \in BOOLEAN, Produce(b)
    PROVE  \E slot \in Slot :
              /\ mock_da' = Append(mock_da, slot) /\ ledger' = Append(ledger, slot)
              /\ Len(ledger) = Len(mock_da) /\ Len(ledger) < MaxSlots
              /\ slot.gen = run /\ slot.by = run
              /\ slot.first = Batches(mock_da)
              /\ slot.end = slot.first \/ (slot.end = slot.first + 1 /\ mock_da # << >>)
              /\ kind = "setup" => slot.root = "right"
<1> DEFINE n == Batches(mock_da)
           r == IF ledger # << >> THEN ledger[Len(ledger)].root ELSE "right"
           slot == [gen |-> run, first |-> n, end |-> IF b THEN n + 1 ELSE n,
                    root |-> r, by |-> run]
<1>1. n \in Nat /\ run \in Nat
  BY HistoryEnd DEF FilesInv
<1>2. ledger # << >> => Len(ledger) \in 1..Len(ledger)
  BY EmptyIff, EntryFacts DEF FilesInv
<1>3. r \in {"right", "wrong"} /\ (kind = "setup" => r = "right")
  <2>1. manager # "none"
    BY DEF Produce
  <2>2. \A i \in 1..Len(ledger) : ledger[i] \in Slot
    BY EntryFacts DEF FilesInv
  <2> QED BY <1>2, <2>1, <2>2 DEF FilesInv, ByThisRun, Slot
<1>4. ledger # << >> /\ Len(ledger) = Len(mock_da) => mock_da # << >>
  <2>1. mock_da \in Seq(Slot) /\ ledger \in Seq(Slot)
    BY DEF FilesInv, IsHistory
  <2> QED BY <2>1, EmptyIff
<1>5. mock_da' = Append(mock_da, slot) /\ ledger' = Append(ledger, slot)
  BY DEF Produce
<1>6. /\ Len(ledger) = Len(mock_da) /\ Len(ledger) < MaxSlots
      /\ b => ledger # << >>
  BY DEF Produce
<1> HIDE DEF n, r
<1>7. slot \in Slot
  BY <1>1, <1>3 DEF Slot
<1>8. slot.end = slot.first \/ (slot.end = slot.first + 1 /\ mock_da # << >>)
  BY <1>4, <1>6
<1>9. slot.gen = run /\ slot.by = run /\ slot.first = n /\ slot.root = r
  OBVIOUS
<1> HIDE DEF slot
<1> QED BY <1>3, <1>5, <1>6, <1>7, <1>8, <1>9 DEF n
\* A block executed again.
LEMMA ReplayFacts ==
    ASSUME ControlInv, FilesInv, NEW root \in {"right", "wrong"}, Replay(root)
    PROVE  \E slot \in Slot :
              /\ ledger' = Append(ledger, slot) /\ Len(ledger) < Len(mock_da)
              /\ SameBlock(slot, mock_da[Len(ledger) + 1])
              /\ slot.by = run /\ (kind = "setup" => slot.root = "right")
<1> DEFINE old == mock_da[Len(ledger) + 1]
           slot == [old EXCEPT !.root = root, !.by = run]
<1>1. Len(ledger) \in Nat /\ Len(mock_da) \in Nat /\ Len(ledger) < Len(mock_da)
  BY EntryFacts DEF FilesInv, IsHistory, Replay
<1>2. old \in Slot
  <2>1. Len(ledger) + 1 \in 1..Len(mock_da)
    BY <1>1
  <2> QED BY <2>1, EntryFacts DEF FilesInv, IsHistory
<1>3. ledger' = Append(ledger, slot)
  BY DEF Replay
<1>4. kind = "setup" => root = "right"
  BY DEF Replay
<1>5. run \in Nat
  BY DEF FilesInv
<1> HIDE DEF old
<1>6. /\ slot \in Slot /\ slot.root = root /\ slot.by = run
      /\ slot.gen = old.gen /\ slot.first = old.first /\ slot.end = old.end
  BY <1>2, <1>5 DEF Slot
<1> HIDE DEF slot
<1> QED BY <1>1, <1>3, <1>4, <1>6 DEF old, SameBlock

\* A ledger that executes a history grows with it.
LEMMA ExecutesGrows ==
    ASSUME NEW l \in Seq(Slot), NEW h \in Seq(Slot), NEW s \in Slot, Executes(l, h)
    PROVE  /\ Len(l) = Len(h) => Executes(Append(l, s), Append(h, s))
           /\ Len(l) < Len(h) /\ SameBlock(s, h[Len(l) + 1]) => Executes(Append(l, s), h)
<1>1. /\ Len(l) \in Nat /\ Len(Append(l, s)) = Len(l) + 1
      /\ \A i \in 1..Len(l) : Append(l, s)[i] = l[i]
      /\ Append(l, s)[Len(l) + 1] = s
  BY AppendFacts
<1>2. /\ Len(h) \in Nat /\ Len(Append(h, s)) = Len(h) + 1
      /\ \A i \in 1..Len(h) : Append(h, s)[i] = h[i]
      /\ Append(h, s)[Len(h) + 1] = s
  BY AppendFacts
<1>3. ASSUME Len(l) = Len(h) PROVE Executes(Append(l, s), Append(h, s))
  <2>1. ASSUME NEW i \in 1..(Len(l) + 1) PROVE SameBlock(Append(l, s)[i], Append(h, s)[i])
    <3>1. CASE i \in 1..Len(l)
      BY <3>1, <1>1, <1>2, <1>3 DEF Executes
    <3>2. CASE i = Len(l) + 1
      BY <3>2, <1>1, <1>2, <1>3 DEF SameBlock
    <3>3. i \in 1..Len(l) \/ i = Len(l) + 1
      BY <1>1
    <3> QED BY <3>1, <3>2, <3>3
  <2> QED BY <2>1, <1>1, <1>2, <1>3 DEF Executes
<1>4. ASSUME Len(l) < Len(h), SameBlock(s, h[Len(l) + 1]) PROVE Executes(Append(l, s), h)
  <2>1. ASSUME NEW i \in 1..(Len(l) + 1) PROVE SameBlock(Append(l, s)[i], h[i])
    <3>1. CASE i \in 1..Len(l)
      BY <3>1, <1>1 DEF Executes
    <3>2. CASE i = Len(l) + 1
      BY <3>2, <1>1, <1>4
    <3>3. i \in 1..Len(l) \/ i = Len(l) + 1
      BY <1>1
    <3> QED BY <3>1, <3>2, <3>3
  <2> QED BY <2>1, <1>1, <1>2, <1>4 DEF Executes
<1> QED BY <1>3, <1>4

\* Appending leaves what was there.
LEMMA ContinuesGrows ==
    ASSUME NEW h \in Seq(Slot), NEW old \in Seq(Slot), NEW s \in Slot, Continues(h, old)
    PROVE  Continues(Append(h, s), old)
<1>1. /\ Len(h) \in Nat /\ Len(Append(h, s)) = Len(h) + 1 /\ Len(old) \in Nat
      /\ \A i \in 1..Len(h) : Append(h, s)[i] = h[i]
  BY AppendFacts, EntryFacts
<1>2. ASSUME NEW i \in 1..Len(old) PROVE Append(h, s)[i] = old[i]
  <2>1. i \in 1..Len(h)
    BY <1>1 DEF Continues
  <2> QED BY <2>1, <1>1 DEF Continues
<1> QED BY <1>1, <1>2 DEF Continues

LEMMA ByThisRunGrows ==
    ASSUME NEW l \in Seq(Slot), NEW s \in Slot, NEW r, NEW k, ByThisRun(l, r, k),
           s.by = r, k = "setup" => s.root = "right"
    PROVE  ByThisRun(Append(l, s), r, k)
<1>1. /\ Len(l) \in Nat /\ Len(Append(l, s)) = Len(l) + 1
      /\ \A i \in 1..Len(l) : Append(l, s)[i] = l[i]
      /\ Append(l, s)[Len(l) + 1] = s
  BY AppendFacts
<1>2. \A i \in 1..(Len(l) + 1) : i \in 1..Len(l) \/ i = Len(l) + 1
  BY <1>1
<1> QED BY <1>1, <1>2 DEF ByThisRun
LEMMA FilesStep ==
    ASSUME ControlInv, FilesInv, RunNext
    PROVE  FilesInv'
<1> USE DEF Alive, Preparing, files, world, task
<1>1. CASE Quiet
  BY <1>1 DEF FilesInv, Quiet
<1>2. ASSUME NEW b \in BOOLEAN, Produce(b) PROVE FilesInv'
  <2>1. PICK slot \in Slot :
              /\ mock_da' = Append(mock_da, slot) /\ ledger' = Append(ledger, slot)
              /\ Len(ledger) = Len(mock_da) /\ Len(ledger) < MaxSlots
              /\ slot.gen = run /\ slot.by = run
              /\ slot.first = Batches(mock_da)
              /\ slot.end = slot.first \/ (slot.end = slot.first + 1 /\ mock_da # << >>)
              /\ kind = "setup" => slot.root = "right"
    BY <1>2, ProduceFacts
  <2>2. manager = "running" /\ UNCHANGED <<persistent_da, manager, run, kind, phase>>
    BY <1>2 DEF Produce
  <2>3. mock_da \in Seq(Slot) /\ persistent_da \in Seq(Slot) /\ ledger \in Seq(Slot)
    BY DEF FilesInv, IsHistory
  <2>4. IsHistory(mock_da')
    BY <2>1, HistoryGrows DEF FilesInv
  <2>5. ledger' \in Seq(Slot)
    BY <2>1, <2>3, AppendFacts
  <2>6. Executes(ledger', mock_da')
    BY <2>1, <2>2, <2>3, ExecutesGrows DEF FilesInv
  <2>7. ByThisRun(ledger', run, kind)
    BY <2>1, <2>2, <2>3, ByThisRunGrows DEF FilesInv
  <2>8. Continues(mock_da, persistent_da) => Continues(mock_da', persistent_da)
    BY <2>1, <2>3, ContinuesGrows
  <2> QED BY <2>2, <2>4, <2>5, <2>6, <2>7, <2>8 DEF FilesInv, ControlInv
<1>3. ASSUME NEW root \in {"right", "wrong"}, Replay(root) PROVE FilesInv'
  <2>1. PICK slot \in Slot :
              /\ ledger' = Append(ledger, slot) /\ Len(ledger) < Len(mock_da)
              /\ SameBlock(slot, mock_da[Len(ledger) + 1])
              /\ slot.by = run /\ (kind = "setup" => slot.root = "right")
    BY <1>3, ReplayFacts
  <2>2. manager = "running" /\ UNCHANGED <<persistent_da, mock_da, manager, run, kind, phase>>
    BY <1>3 DEF Replay
  <2>3. mock_da \in Seq(Slot) /\ ledger \in Seq(Slot)
    BY DEF FilesInv, IsHistory
  <2>4. ledger' \in Seq(Slot)
    BY <2>1, <2>3, AppendFacts
  <2>5. Executes(ledger', mock_da)
    BY <2>1, <2>2, <2>3, ExecutesGrows DEF FilesInv
  <2>6. ByThisRun(ledger', run, kind)
    BY <2>1, <2>2, <2>3, ByThisRunGrows DEF FilesInv
  <2> QED BY <2>2, <2>4, <2>5, <2>6 DEF FilesInv, ControlInv
<1>4. CASE CopyMockData
  <2>1. Len(persistent_da) \in Nat
    BY EntryFacts DEF FilesInv, IsHistory
  <2>2. Continues(persistent_da, persistent_da)
    BY <2>1 DEF Continues
  <2>3. manager = "none"
    BY <1>4 DEF ControlInv, CopyMockData
  <2> QED BY <1>4, <2>2, <2>3 DEF FilesInv, CopyMockData
<1>5. CASE Spawn
  <2>1. ledger = << >> /\ Len(mock_da) \in Nat /\ Len(<< >>) = 0
    BY <1>5, EntryFacts DEF FilesInv, Spawn, IsHistory
  <2>2. Executes(ledger, mock_da) /\ ByThisRun(ledger, run, kind)
    BY <2>1 DEF Executes, ByThisRun
  <2> QED BY <1>5, <2>2 DEF FilesInv, Spawn
<1>6. CASE MonitorSlot
  BY <1>6 DEF FilesInv, MonitorSlot
<1>7. CASE FinishManual
  BY <1>7 DEF FilesInv, FinishManual
<1>8. CASE SoakSlot
  BY <1>8 DEF FilesInv, SoakSlot
<1>9. CASE SaveMockData
  BY <1>9, EmptyHistory DEF FilesInv, SaveMockData, ControlInv, Finished
<1>10. CASE CleanUp
  <2>1. << >> \in Seq(Slot) /\ ByThisRun(<< >>, run, kind)
    BY DEF ByThisRun
  <2> QED BY <1>10, <2>1 DEF FilesInv, CleanUp, ControlInv, Finished
<1>11. CASE RemoveData
  <2>1. << >> \in Seq(Slot) /\ ByThisRun(<< >>, run, kind)
    BY DEF ByThisRun
  <2> QED BY <1>11, <2>1, EmptyHistory DEF FilesInv, RemoveData
<1>12. ASSUME NEW k \in {"setup", "test"}, NEW policy \in Policies, Start(k, policy)
       PROVE  FilesInv'
  <2>1. policy \in {"error", "clobber"}
    BY RunAssumption
  <2>2. /\ ledger' = ledger \/ ledger' = << >>
        /\ phase' # "idle" => ledger' = << >>
    BY <1>12, <2>1 DEF Start, prepare_rollup_state_dir
  <2>3. << >> \in Seq(Slot)
    OBVIOUS
  <2>4. /\ UNCHANGED <<persistent_da, mock_da>> /\ manager' = "none" /\ run' = run + 1
        /\ phase' \in {"copy", "postgres", "idle"} /\ kind' = k
        /\ k = "test" => phase' # "postgres"
    BY <1>12 DEF Start
  <2>5. ledger' \in Seq(Slot)
    BY <2>2, <2>3 DEF FilesInv
  <2>6. run' \in Nat
    BY <2>4 DEF FilesInv
  <2> QED BY <2>2, <2>4, <2>5, <2>6 DEF FilesInv
<1> QED BY <1>1, <1>2, <1>3, <1>4, <1>5, <1>6, <1>7, <1>8, <1>9, <1>10, <1>11, <1>12,
           QuietOrLoud DEF Loud
-----------------------------------------------------------------------------
(* One round of the resync loop.                                            *)

LEMMA MinFacts ==
    ASSUME NEW T \in SUBSET Nat, T # {}
    PROVE  Min(T) \in T /\ \A y \in T : Min(T) <= y
BY LeastElement DEF Min

LEMMA MaxFacts ==
    ASSUME NEW b \in Nat, NEW T \in SUBSET (0..b), T # {}
    PROVE  Max(T) \in T /\ \A y \in T : Max(T) >= y
<1> DEFINE U == {b - x : x \in T}
<1>0. \A x \in T : x \in Nat /\ b - x \in Nat
  OBVIOUS
<1>1. U \in SUBSET Nat /\ U # {}
  BY <1>0, Zenon
<1>2. PICK u \in U : \A y \in U : u <= y
  BY <1>1, LeastElement
<1>3. PICK x \in T : u = b - x
  OBVIOUS
<1>4. \A y \in T : b - y \in U
  OBVIOUS
<1>5. ASSUME NEW y \in T PROVE x >= y
  <2>1. b - x <= b - y
    BY <1>2, <1>3, <1>4
  <2> HIDE DEF U
  <2> QED BY <1>0, <2>1
<1> QED BY <1>5 DEF Max

\* The number of batches the resync waits for.
expected == expected_setup_batches(manager_versions)

\* A round that ended at slot last with this outcome and this latest batch.
RoundEnds(last, outcome, latest) ==
    /\ \A n \in progress.checked..(last - 1) : Passes(n)
    /\ outcome \in {"more", "mismatch", "missing", "complete"}
    /\ outcome = "more" => last = cursor /\ Passes(last)
    /\ outcome = "mismatch" => snapshots[last] # Missing /\ ~ Passes(last)
    /\ outcome \in {"missing", "complete"} => snapshots[last] = Missing /\ last >= EarlySlots
    /\ outcome = "missing" => latest < expected
    /\ outcome = "complete" => ~ (latest < expected)
    /\ \/ latest = progress.latest /\ \A n \in progress.checked..last : snapshots[n] = Missing
       \/ \E m \in progress.checked..last :
             /\ snapshots[m] # Missing /\ latest = latest_batch(snapshots[m])
             /\ \A n \in (m + 1)..last : snapshots[n] = Missing

LEMMA RoundFacts ==
    ASSUME ControlInv, FilesInv, ProgressInv, phase = "resync", manager = "running",
           cursor < Len(ledger), NEW round,
           round = resync_round(ledger, snapshots, progress.checked, cursor, progress.latest,
                                expected_setup_batches(manager_versions))
    PROVE  \E last \in progress.checked..cursor : RoundEnds(last, round.outcome, round.latest)
<1> DEFINE c == progress.checked
           Stops(n) == IF snapshots[n] = Missing
                      THEN n >= EarlySlots
                      ELSE ~ compare_against_snapshot(ledger[n + 1], snapshots[n])
           stops == {n \in c..cursor : Stops(n)}
           last  == IF stops = {} THEN cursor ELSE Min(stops)
           read  == {n \in c..last : snapshots[n] # Missing}
           batch == IF read = {} THEN progress.latest ELSE latest_batch(snapshots[Max(read)])
           outcome == IF stops = {} THEN "more"
                     ELSE IF snapshots[last] # Missing THEN "mismatch"
                     ELSE IF batch < expected THEN "missing"
                     ELSE "complete"
<1>1. round = [latest |-> batch, outcome |-> outcome]
  BY DEF resync_round, expected
<1>2. c \in Nat /\ cursor \in Nat /\ c <= cursor /\ EarlySlots \in Nat /\ MaxSlots \in Nat
  BY PlanAssumption, RunAssumption DEF ProgressInv
<1>3. Len(ledger) <= MaxSlots /\ Len(ledger) \in Nat
  <2>1. Len(ledger) <= Len(mock_da) /\ Len(mock_da) <= MaxSlots
    BY DEF FilesInv, Alive, Executes, IsHistory
  <2>2. Len(ledger) \in Nat /\ Len(mock_da) \in Nat
    BY EntryFacts DEF FilesInv, IsHistory
  <2> QED BY <1>2, <2>1, <2>2
<1>4. \A n \in c..cursor : Passes(n) <=> ~ Stops(n)
  <2> SUFFICES ASSUME NEW n \in c..cursor PROVE Passes(n) <=> ~ Stops(n)
    OBVIOUS
  <2>1. n < Len(ledger) /\ n < MaxSlots /\ n \in Nat
    BY <1>2, <1>3
  <2> QED BY <2>1, <1>2 DEF Passes
<1>5. round.latest = batch /\ round.outcome = outcome
  BY <1>1
<1> HIDE DEF Stops
<1>6. last \in c..cursor /\ (stops # {} => Stops(last)) /\ \A n \in c..(last - 1) : ~ Stops(n)
  <2>1. CASE stops = {}
    BY <2>1, <1>2
  <2>2. CASE stops # {}
    <3>1. stops \in SUBSET Nat
      BY <1>2
    <3>2. Min(stops) \in stops /\ \A y \in stops : Min(stops) <= y
      BY <3>1, <2>2, MinFacts
    <3>3. last = Min(stops)
      BY <2>2
    <3> HIDE DEF last
    <3>4. last \in c..cursor /\ Stops(last)
      BY <3>2, <3>3
    <3>5. ASSUME NEW n \in c..(last - 1), Stops(n) PROVE FALSE
      <4>1. n \in c..cursor /\ n < last
        BY <3>4, <1>2
      <4>2. n \in stops
        BY <4>1, <3>5
      <4> QED BY <4>1, <4>2, <3>2, <3>3, <3>4, <1>2
    <3> QED BY <3>4, <3>5
  <2> QED BY <2>1, <2>2
<1>7. stops = {} => last = cursor /\ ~ Stops(last)
  BY <1>2
<1> HIDE DEF stops, last
<1>8. \/ batch = progress.latest /\ \A n \in c..last : snapshots[n] = Missing
      \/ \E m \in c..last :
             /\ snapshots[m] # Missing /\ batch = latest_batch(snapshots[m])
             /\ \A n \in (m + 1)..last : snapshots[n] = Missing
  <2>1. CASE read = {}
    BY <2>1
  <2>2. CASE read # {}
    <3>1. last \in Nat /\ read \in SUBSET (0..last)
      BY <1>2, <1>6
    <3>2. Max(read) \in read /\ \A y \in read : Max(read) >= y
      BY <3>1, <2>2, MaxFacts
    <3> DEFINE m == Max(read)
    <3>3. m \in c..last /\ snapshots[m] # Missing
      BY <3>2
    <3>4. batch = latest_batch(snapshots[m])
      BY <2>2
    <3> HIDE DEF m
    <3>5. ASSUME NEW n \in (m + 1)..last, snapshots[n] # Missing PROVE FALSE
      <4>1. n \in read
        BY <3>5, <3>3, <3>1, <1>2
      <4> QED BY <4>1, <3>2, <3>3, <3>1, <1>2 DEF m
    <3> QED BY <3>3, <3>4, <3>5
  <2> QED BY <2>1, <2>2
<1> HIDE DEF batch
<1>9. /\ outcome \in {"more", "mismatch", "missing", "complete"}
      /\ outcome = "more" => stops = {}
      /\ outcome # "more" => stops # {}
      /\ outcome = "mismatch" => snapshots[last] # Missing
      /\ outcome \in {"missing", "complete"} => snapshots[last] = Missing
      /\ outcome = "missing" => batch < expected
      /\ outcome = "complete" => ~ (batch < expected)
  OBVIOUS
<1>10. Stops(last) /\ snapshots[last] = Missing => last >= EarlySlots
  BY DEF Stops
<1> HIDE DEF outcome
<1>11. /\ \A n \in c..(last - 1) : Passes(n)
       /\ outcome = "more" => last = cursor /\ Passes(last)
       /\ outcome = "mismatch" => ~ Passes(last)
  <2>1. \A n \in c..(last - 1) : n \in c..cursor
    BY <1>2, <1>6
  <2> QED BY <2>1, <1>4, <1>6, <1>7, <1>9
<1>12. RoundEnds(last, outcome, batch)
  BY <1>6, <1>8, <1>9, <1>10, <1>11 DEF RoundEnds
<1> QED BY <1>5, <1>6, <1>12
\* The snapshot of a slot that has been read tells a batch number.
LEMMA LatestNat ==
    ASSUME SnapshotsInv, NEW n \in 0..(MaxSlots - 1)
    PROVE  latest_batch(snapshots[n]) \in Nat
<1>1. snapshots[n].end \in Nat
  BY DEF SnapshotsInv, Json
<1> QED BY <1>1 DEF latest_batch, monus

\* The slots that a round may read have a number below MaxSlots.
LEMMA RoundRange ==
    ASSUME FilesInv, ProgressInv, manager = "running", cursor < Len(ledger)
    PROVE  /\ Len(ledger) \in Nat /\ Len(ledger) <= MaxSlots /\ MaxSlots \in Nat
           /\ \A n \in 0..cursor : n \in 0..(MaxSlots - 1)
<1>1. Len(ledger) <= Len(mock_da) /\ Len(mock_da) <= MaxSlots
  BY DEF FilesInv, Alive, Executes, IsHistory
<1>2. Len(ledger) \in Nat /\ Len(mock_da) \in Nat
  BY EntryFacts DEF FilesInv, IsHistory
<1>3. cursor \in Nat /\ MaxSlots \in Nat
  BY RunAssumption DEF ProgressInv
<1> QED BY <1>1, <1>2, <1>3

LEMMA ProgressInit == RunInit => ProgressInv
BY DEF RunInit, ProgressInv, NoProgress

LEMMA ProgressStep ==
    ASSUME ControlInv, FilesInv, ProgressInv, SnapshotsInv, RunNext
    PROVE  ProgressInv'
<1> DEFINE P == [checked : Nat, latest : Nat, batches : Nat, slots : Nat, first : Nat]
<1>1. Len(ledger) \in Nat
  BY EntryFacts DEF FilesInv
<1>2. NoProgress \in P
  BY DEF NoProgress
<1> USE DEF vars, world, files, task
<1>3. ASSUME NEW b \in BOOLEAN, Produce(b) PROVE ProgressInv'
  <2>1. PICK slot \in Slot : ledger' = Append(ledger, slot)
    BY <1>3, ProduceFacts
  <2>2. Len(ledger') = Len(ledger) + 1
    BY <2>1, AppendFacts DEF FilesInv
  <2>3. UNCHANGED <<phase, cursor, progress>>
    BY <1>3 DEF Produce
  <2> QED BY <1>1, <2>2, <2>3 DEF ProgressInv
<1>4. ASSUME NEW root \in {"right", "wrong"}, Replay(root) PROVE ProgressInv'
  <2>1. PICK slot \in Slot : ledger' = Append(ledger, slot)
    BY <1>4, ReplayFacts
  <2>2. Len(ledger') = Len(ledger) + 1
    BY <2>1, AppendFacts DEF FilesInv
  <2>3. UNCHANGED <<phase, cursor, progress>>
    BY <1>4 DEF Replay
  <2> QED BY <1>1, <2>2, <2>3 DEF ProgressInv
<1>5. CASE Ready
  <2>1. progress' = [NoProgress EXCEPT !.first = Len(ledger)]
    BY <1>5 DEF Ready
  <2>2. progress' \in P /\ progress'.first = Len(ledger) /\ progress'.checked = 0
    BY <2>1, <1>1 DEF NoProgress
  <2> QED BY <1>1, <1>5, <2>2 DEF Ready, ProgressInv
<1>6. CASE MonitorSlot
  BY <1>6 DEF MonitorSlot, ProgressInv
<1>7. CASE Resync
  <2> DEFINE round == resync_round(ledger, snapshots, progress.checked, cursor, progress.latest,
                                   expected_setup_batches(manager_versions))
  <2>1. CASE UNCHANGED <<cursor, progress>> /\ phase' = "returned"
    BY <2>1 DEF ProgressInv
  <2>2. CASE /\ progress' = [progress EXCEPT !.checked = cursor, !.latest = round.latest]
             /\ cursor' = cursor + 1 /\ phase' \in {"resync", "sequencer"}
    <3>1. PICK last \in progress.checked..cursor : RoundEnds(last, round.outcome, round.latest)
      BY <1>7, RoundFacts DEF Resync
    <3>2. round.latest \in Nat
      <4>1. CASE round.latest = progress.latest
        BY <4>1 DEF ProgressInv
      <4>2. ASSUME NEW m \in progress.checked..last, round.latest = latest_batch(snapshots[m])
            PROVE  round.latest \in Nat
        <5>1. m \in 0..cursor
          BY DEF ProgressInv
        <5>2. m \in 0..(MaxSlots - 1)
          BY <1>7, <5>1, RoundRange DEF Resync
        <5> QED BY <4>2, <5>2, LatestNat
      <4> QED BY <3>1, <4>1, <4>2 DEF RoundEnds
    <3> HIDE DEF round
    <3>3. progress' \in P /\ progress'.checked = cursor /\ cursor \in Nat
      BY <2>2, <3>2 DEF ProgressInv
    <3> QED BY <2>2, <3>3 DEF ProgressInv
  <2> QED BY <1>7, <2>1, <2>2 DEF Resync, Unwind
<1>8. CASE StartSoak
  BY <1>1, <1>8 DEF StartSoak, ProgressInv
<1>9. CASE SoakSlot
  <2> DEFINE counted == ledger[cursor + 1].first # ledger[cursor + 1].end
                           /\ ledger[cursor + 1].end - 1 > start_batch
             batches == progress.batches + (IF counted THEN 1 ELSE 0)
             slots   == progress.slots + (IF batches = 0 THEN 0 ELSE 1)
  <2>1. /\ progress' = [progress EXCEPT !.batches = batches, !.slots = slots]
        /\ cursor' = cursor + 1 /\ phase' = "soak"
    BY <1>9 DEF SoakSlot
  <2>2. batches \in Nat
    BY DEF ProgressInv
  <2> HIDE DEF batches
  <2>3. slots \in Nat
    BY DEF ProgressInv
  <2> HIDE DEF slots
  <2>4. progress' \in P
    BY <2>1, <2>2, <2>3 DEF ProgressInv
  <2> QED BY <2>1, <2>4 DEF ProgressInv
<1>10. CASE Return
  BY <1>2, <1>10 DEF Return, ProgressInv
<1>11. CASE HarnessDies
  BY <1>2, <1>11 DEF HarnessDies, ProgressInv
<1>12. CASE UNCHANGED <<cursor, progress>> /\ phase' \notin {"manual", "resync"}
  BY <1>12 DEF ProgressInv
<1>13. CASE UNCHANGED <<cursor, progress, phase, ledger>>
  BY <1>13 DEF ProgressInv
<1>14. CASE ApiCloses
  BY <1>14, <1>12, <1>13 DEF ApiCloses
<1>15. CASE ManagerExits
  BY <1>15, <1>12, <1>13 DEF ManagerExits
<1>16. CASE ManagerCrashes
  BY <1>16, <1>12, <1>13 DEF ManagerCrashes
<1>17. CASE KillLands
  BY <1>17, <1>12, <1>13 DEF KillLands
<1>18. CASE CopyMockData
  BY <1>18, <1>12, <1>13 DEF CopyMockData
<1>19. CASE StartPostgres
  BY <1>19, <1>12, <1>13 DEF StartPostgres
<1>20. CASE Spawn
  BY <1>20, <1>12, <1>13 DEF Spawn
<1>21. CASE FinishManual
  BY <1>21, <1>12, <1>13 DEF FinishManual
<1>22. CASE SoakRollupExits
  BY <1>22, <1>12, <1>13 DEF SoakRollupExits, Break
<1>23. CASE SoakTaskFails
  BY <1>23, <1>12, <1>13 DEF SoakTaskFails, Break
<1>24. CASE SoakLosesRollup
  BY <1>24, <1>12, <1>13 DEF SoakLosesRollup, Break
<1>25. CASE SoakShutdown
  BY <1>25, <1>12, <1>13 DEF SoakShutdown, Break
<1>26. CASE StopTimesOut
  BY <1>26, <1>12, <1>13 DEF StopTimesOut
<1>27. CASE TermTimesOut
  BY <1>27, <1>12, <1>13 DEF TermTimesOut
<1>28. CASE KillTimesOut
  BY <1>28, <1>12, <1>13 DEF KillTimesOut, Unwind
<1>29. CASE SoakFails
  BY <1>29, <1>12, <1>13 DEF SoakFails, Unwind
<1>30. CASE SoakSucceeds
  BY <1>30, <1>12, <1>13 DEF SoakSucceeds
<1>31. CASE SaveMockData
  BY <1>31, <1>12, <1>13 DEF SaveMockData
<1>32. CASE Report
  BY <1>32, <1>12, <1>13 DEF Report
<1>33. CASE CleanUp
  BY <1>33, <1>12, <1>13 DEF CleanUp
<1>34. CASE TaskFails
  BY <1>34, <1>12, <1>13 DEF TaskFails, Unwind
<1>35. CASE TaskSeesShutdown
  BY <1>35, <1>12, <1>13 DEF TaskSeesShutdown, Unwind
<1>36. CASE Abort
  BY <1>36, <1>12, <1>13 DEF Abort, Unwind
<1>37. CASE Signal
  BY <1>37, <1>12, <1>13 DEF Signal
<1>38. CASE RemoveData
  BY <1>38, <1>12, <1>13 DEF RemoveData
<1>39. ASSUME NEW k \in {"setup", "test"}, NEW policy \in Policies, Start(k, policy)
       PROVE  ProgressInv'
  BY <1>39, <1>12 DEF Start
<1> QED
  BY <1>3, <1>4, <1>5, <1>6, <1>7, <1>8, <1>9, <1>10, <1>11, <1>14, <1>15, <1>16,
     <1>17, <1>18, <1>19, <1>20, <1>21, <1>22, <1>23, <1>24, <1>25, <1>26, <1>27,
     <1>28, <1>29, <1>30, <1>31, <1>32, <1>33, <1>34, <1>35, <1>36, <1>37, <1>38,
     <1>39
     DEF RunNext, RollupNext, TaskNext
-----------------------------------------------------------------------------
(* The snapshots.                                                           *)

LEMMA JsonFacts ==
    ASSUME NEW slot \in Slot, NEW c \in BOOLEAN
    PROVE  /\ slot_to_json(slot, c) \in Json
           /\ SameBlock(slot_to_json(slot, c), slot)
           /\ slot_to_json(slot, c).root = slot.root
           /\ slot_to_json(slot, c).batches
                 \in {{}, slot_to_json(slot, c).first..(slot_to_json(slot, c).end - 1)}
<1> DEFINE B == IF c THEN slot.first..(slot.end - 1) ELSE {}
           j == [gen |-> slot.gen, first |-> slot.first, end |-> slot.end, root |-> slot.root,
                 batches |-> B]
<1>1. slot_to_json(slot, c) = j
  BY DEF slot_to_json
<1>2. B \in SUBSET Int /\ B \in {{}, slot.first..(slot.end - 1)}
  BY DEF Slot
<1> HIDE DEF B
<1>3. j \in Json
  BY <1>2 DEF Json, Slot
<1>4. /\ j.gen = slot.gen /\ j.first = slot.first /\ j.end = slot.end
      /\ j.root = slot.root /\ j.batches = B
  OBVIOUS
<1> HIDE DEF j
<1> QED BY <1>1, <1>2, <1>3, <1>4 DEF SameBlock

LEMMA MissingFacts == Missing \in Json /\ Missing.root = "none"
BY DEF Missing, Json

\* A snapshot stays, or is written by a setup from the slot of the same number.
SavedFromLedger ==
    /\ snapshots' = [n \in 0..(MaxSlots - 1) |-> snapshots'[n]]
    /\ \A n \in 0..(MaxSlots - 1) :
          \/ snapshots'[n] = snapshots[n]
          \/ /\ kind = "setup" /\ n < Len(ledger)
             /\ \E c \in BOOLEAN : snapshots'[n] = slot_to_json(ledger[n + 1], c)

LEMMA SavingSteps ==
    ASSUME ControlInv, FilesInv, ProgressInv, SnapshotsInv,
           MonitorSlot \/ FinishManual \/ SoakSlot
    PROVE  /\ SavedFromLedger /\ Alive /\ Alive' /\ phase' \notin Preparing
           /\ UNCHANGED <<persistent_da, mock_da, ledger, run, kind, manager>>
<1>1. /\ Len(ledger) \in Nat /\ cursor \in Nat /\ progress.first \in Nat /\ MaxSlots \in Nat
      /\ snapshots = [n \in 0..(MaxSlots - 1) |-> snapshots[n]]
  BY EntryFacts, RunAssumption DEF FilesInv, ProgressInv, SnapshotsInv
<1>2. CASE MonitorSlot
  <2>1. /\ snapshots' = [snapshots EXCEPT ![cursor] = slot_to_json(ledger[cursor + 1], TRUE)]
        /\ cursor < Len(ledger) /\ phase = "manual"
    BY <1>2 DEF MonitorSlot, save_slot_snapshot
  <2>2. kind = "setup"
    BY <2>1 DEF ControlInv
  <2>3. SavedFromLedger
    BY <1>1, <2>1, <2>2 DEF SavedFromLedger
  <2> QED BY <1>2, <2>3 DEF MonitorSlot, Alive, Preparing
<1>3. CASE FinishManual
  <2> DEFINE range == 0..(progress.first - 1)
  <2>1. /\ snapshots' = [n \in 0..(MaxSlots - 1) |->
               IF n \in range THEN slot_to_json(ledger[n + 1], TRUE) ELSE snapshots[n]]
        /\ phase = "manual"
    BY <1>1, <1>3 DEF FinishManual, fetch_and_save
  <2>2. kind = "setup" /\ progress.first <= Len(ledger)
    BY <2>1 DEF ControlInv, ProgressInv
  <2>3. \A n \in range : n < Len(ledger)
    BY <1>1, <2>2
  <2> HIDE DEF range
  <2>4. SavedFromLedger
    BY <1>1, <2>1, <2>2, <2>3 DEF SavedFromLedger
  <2> QED BY <1>3, <2>4 DEF FinishManual, Alive, Preparing
<1>4. CASE SoakSlot
  <2>1. \/ snapshots' = snapshots
        \/ /\ kind # "test"
           /\ \E c \in BOOLEAN : snapshots' = [snapshots EXCEPT ![cursor] =
                                               slot_to_json(ledger[cursor + 1], c)]
    BY <1>4 DEF SoakSlot, save_slot_snapshot
  <2>2. cursor < Len(ledger) /\ (kind # "test" => kind = "setup")
    BY <1>4 DEF SoakSlot, ControlInv
  <2>3. ASSUME snapshots' = snapshots PROVE SavedFromLedger
    BY <1>1, <2>3 DEF SavedFromLedger
  <2>4. ASSUME kind = "setup", NEW c \in BOOLEAN,
               snapshots' = [snapshots EXCEPT ![cursor] = slot_to_json(ledger[cursor + 1], c)]
        PROVE  SavedFromLedger
    BY <1>1, <2>2, <2>4 DEF SavedFromLedger
  <2>5. SavedFromLedger
    BY <2>1, <2>2, <2>3, <2>4
  <2> QED BY <1>4, <2>5 DEF SoakSlot, Alive, Preparing
<1> QED BY <1>2, <1>3, <1>4

LEMMA SnapshotsInit == RunInit => SnapshotsInv
<1> SUFFICES ASSUME RunInit PROVE SnapshotsInv
  OBVIOUS
<1> DEFINE S(n) == IF n < Len(persistent_da) THEN slot_to_json(persistent_da[n + 1], TRUE)
                                             ELSE Missing
<1>1. snapshots = [n \in 0..(MaxSlots - 1) |-> S(n)] /\ persistent_da \in {<< >>, CompletedSetup}
  BY DEF RunInit
<1>2. IsHistory(persistent_da)
  BY FilesInit DEF FilesInv
<1>3. \A i \in 1..Len(persistent_da) : persistent_da[i] \in Slot /\ persistent_da[i].root = "right"
  <2>1. \A i \in 1..Len(persistent_da) : persistent_da[i] \in Slot
    BY <1>2, EntryFacts DEF IsHistory
  <2>2. CASE persistent_da = << >>
    BY <2>2
  <2>3. CASE persistent_da = CompletedSetup
    <3> DEFINE M == stop_at_height(manager_versions) + 1
    <3>1. M \in Nat
      BY Heights
    <3> HIDE DEF M
    <3>2. persistent_da = [i \in 1..M |->
            [gen |-> 1, first |-> monus(i, 2), end |-> i - 1, root |-> "right", by |-> 1]]
      BY <2>3 DEF CompletedSetup, M
    <3>3. Len(persistent_da) = M
      BY <3>1, <3>2
    <3> QED BY <2>1, <3>2, <3>3
  <2> QED BY <1>1, <2>2, <2>3
<1>4. Len(persistent_da) \in Nat /\ MaxSlots \in Nat
  BY <1>2, EntryFacts, RunAssumption DEF IsHistory
<1>5. ASSUME NEW n \in 0..(MaxSlots - 1)
      PROVE  /\ S(n) \in Json
             /\ \/ S(n) = Missing
                \/ S(n).root = "right" /\ S(n).batches \in {{}, S(n).first..(S(n).end - 1)}
  <2>1. CASE n < Len(persistent_da)
    <3>1. n + 1 \in 1..Len(persistent_da) /\ S(n) = slot_to_json(persistent_da[n + 1], TRUE)
      BY <2>1, <1>4
    <3> DEFINE slot == persistent_da[n + 1]  j == slot_to_json(slot, TRUE)
    <3>2. slot \in Slot /\ slot.root = "right"
      BY <3>1, <1>3
    <3>3. j \in Json /\ j.root = slot.root /\ j.batches \in {{}, j.first..(j.end - 1)}
      BY <3>2, JsonFacts, Zenon
    <3> QED BY <3>1, <3>2, <3>3
  <2>2. CASE ~ (n < Len(persistent_da))
    BY <2>2, MissingFacts
  <2> QED BY <2>1, <2>2
<1> HIDE DEF S
<1> QED BY <1>1, <1>5 DEF SnapshotsInv

LEMMA SnapshotsStep ==
    ASSUME ControlInv, FilesInv, ProgressInv, SnapshotsInv, RunNext
    PROVE  SnapshotsInv'
<1>1. CASE UNCHANGED snapshots
  BY <1>1 DEF SnapshotsInv
<1>2. CASE MonitorSlot \/ FinishManual \/ SoakSlot
  <2>1. SavedFromLedger /\ Alive
    BY <1>2, SavingSteps
  <2>2. \A i \in 1..Len(ledger) : ledger[i] \in Slot /\ (kind = "setup" => ledger[i].root = "right")
    BY <2>1, EntryFacts DEF FilesInv, Alive, ByThisRun
  <2>3. Len(ledger) \in Nat /\ MaxSlots \in Nat
    BY EntryFacts, RunAssumption DEF FilesInv
  <2>4. ASSUME NEW n \in 0..(MaxSlots - 1)
        PROVE  /\ snapshots'[n] \in Json
               /\ \/ snapshots'[n] = Missing
                  \/ /\ snapshots'[n].root = "right"
                     /\ snapshots'[n].batches
                           \in {{}, snapshots'[n].first..(snapshots'[n].end - 1)}
    <3>1. CASE snapshots'[n] = snapshots[n]
      BY <3>1 DEF SnapshotsInv
    <3>2. ASSUME kind = "setup", n < Len(ledger), NEW c \in BOOLEAN,
                 snapshots'[n] = slot_to_json(ledger[n + 1], c)
          PROVE  /\ snapshots'[n] \in Json
                 /\ snapshots'[n].root = "right"
                 /\ snapshots'[n].batches
                           \in {{}, snapshots'[n].first..(snapshots'[n].end - 1)}
      <4>1. n + 1 \in 1..Len(ledger)
        BY <3>2, <2>3
      <4> QED BY <4>1, <3>2, <2>2, JsonFacts
    <3> QED BY <2>1, <3>1, <3>2 DEF SavedFromLedger
  <2>5. snapshots' = [n \in 0..(MaxSlots - 1) |-> snapshots'[n]]
    BY <2>1 DEF SavedFromLedger
  <2> QED BY <2>4, <2>5 DEF SnapshotsInv
<1>3. CASE RemoveData
  BY <1>3, MissingFacts DEF RemoveData, SnapshotsInv
<1>4. Quiet => UNCHANGED snapshots
  BY DEF Quiet
<1>5. (\E b \in BOOLEAN : Produce(b)) => UNCHANGED snapshots
  BY DEF Produce
<1>6. (\E root \in {"right", "wrong"} : Replay(root)) => UNCHANGED snapshots
  BY DEF Replay, files
<1>7. CopyMockData \/ Spawn \/ SaveMockData \/ CleanUp => UNCHANGED snapshots
  BY DEF CopyMockData, Spawn, SaveMockData, CleanUp, files
<1>8. (\E k \in {"setup", "test"}, policy \in Policies : Start(k, policy)) => UNCHANGED snapshots
  BY DEF Start, files
<1> QED BY <1>1, <1>2, <1>3, <1>4, <1>5, <1>6, <1>7, <1>8, QuietOrLoud DEF Loud
-----------------------------------------------------------------------------
(* Which run made a block.                                                  *)

LEMMA GenerationsInit == RunInit => GenerationsInv
<1> SUFFICES ASSUME RunInit PROVE GenerationsInv
  OBVIOUS
<1>1. /\ run = 1 /\ phase = "idle" /\ ~ Alive /\ mock_da = << >> /\ Len(mock_da) = 0
      /\ persistent_da \in {<< >>, CompletedSetup}
  BY DEF RunInit, Alive
<1>2. IsHistory(persistent_da)
  BY FilesInit DEF FilesInv
<1>3. \A i \in 1..Len(persistent_da) : persistent_da[i] \in Slot /\ persistent_da[i].gen = 1
  <2>1. \A i \in 1..Len(persistent_da) : persistent_da[i] \in Slot
    BY <1>2, EntryFacts DEF IsHistory
  <2>2. CASE persistent_da = << >>
    BY <2>2
  <2>3. CASE persistent_da = CompletedSetup
    <3> DEFINE M == stop_at_height(manager_versions) + 1
    <3>1. M \in Nat
      BY Heights
    <3> HIDE DEF M
    <3>2. persistent_da = [i \in 1..M |->
            [gen |-> 1, first |-> monus(i, 2), end |-> i - 1, root |-> "right", by |-> 1]]
      BY <2>3 DEF CompletedSetup, M
    <3>3. Len(persistent_da) = M
      BY <3>1, <3>2
    <3> QED BY <2>1, <3>2, <3>3
  <2> QED BY <1>1, <2>2, <2>3
<1>4. Len(persistent_da) \in Nat /\ MaxSlots \in Nat
  BY <1>2, EntryFacts, RunAssumption DEF IsHistory
<1>5. ASSUME NEW n \in 0..(MaxSlots - 1), snapshots[n] # Missing
      PROVE  /\ snapshots[n].gen = 1 /\ n + 1 \in 1..Len(persistent_da)
             /\ SameBlock(snapshots[n], persistent_da[n + 1])
  <2>1. snapshots[n] = IF n < Len(persistent_da) THEN slot_to_json(persistent_da[n + 1], TRUE)
                                                 ELSE Missing
    BY DEF RunInit
  <2>2. n < Len(persistent_da) /\ snapshots[n] = slot_to_json(persistent_da[n + 1], TRUE)
    BY <1>5, <2>1
  <2>3. n + 1 \in 1..Len(persistent_da)
    BY <2>2, <1>4
  <2>4. SameBlock(snapshots[n], persistent_da[n + 1])
    BY <2>2, <2>3, <1>3, JsonFacts, Zenon
  <2> QED BY <2>3, <2>4, <1>3 DEF SameBlock
<1>6. PersistentGens
  <2>1. \A i \in 1..Len(persistent_da) : ~ (i <= Len(mock_da))
    BY <1>1, <1>4
  <2> QED BY <1>1, <1>3, <2>1 DEF PersistentGens, Preparing
<1>7. MockGens
  BY <1>1 DEF MockGens
<1>8. SnapshotGens
  <2>1. \A n \in 0..(MaxSlots - 1) : ~ (n < Len(mock_da))
    BY <1>1, <1>4
  <2> QED BY <1>1, <1>5, <2>1 DEF SnapshotGens, Preparing, Agree
<1> QED BY <1>6, <1>7, <1>8 DEF GenerationsInv

\* The types of the numbers that are compared.
LEMMA GenTypes ==
    ASSUME FilesInv, SnapshotsInv
    PROVE  /\ run \in Nat /\ MaxSlots \in Nat
           /\ Len(persistent_da) \in Nat /\ Len(mock_da) \in Nat /\ Len(ledger) \in Nat
           /\ \A i \in 1..Len(persistent_da) : persistent_da[i].gen \in Nat
           /\ \A i \in 1..Len(mock_da) : mock_da[i].gen \in Nat
           /\ \A n \in 0..(MaxSlots - 1) : snapshots[n].gen \in Nat
<1>1. run \in Nat /\ MaxSlots \in Nat
  BY RunAssumption DEF FilesInv
<1>2. /\ Len(persistent_da) \in Nat
      /\ \A i \in 1..Len(persistent_da) : persistent_da[i] \in Slot
  BY EntryFacts DEF FilesInv, IsHistory
<1>3. Len(mock_da) \in Nat /\ \A i \in 1..Len(mock_da) : mock_da[i] \in Slot
  BY EntryFacts DEF FilesInv, IsHistory
<1>4. Len(ledger) \in Nat
  BY EntryFacts DEF FilesInv
<1> QED BY <1>1, <1>2, <1>3, <1>4 DEF Slot, Json, SnapshotsInv

LEMMA GenerationsStep ==
    ASSUME ControlInv, FilesInv, ProgressInv, SnapshotsInv, GenerationsInv, RunNext
    PROVE  GenerationsInv'
<1> USE DEF Preparing, Alive, GenerationsInv
<1>0. /\ run \in Nat /\ MaxSlots \in Nat
      /\ Len(persistent_da) \in Nat /\ Len(mock_da) \in Nat /\ Len(ledger) \in Nat
      /\ \A i \in 1..Len(persistent_da) : persistent_da[i].gen \in Nat
      /\ \A i \in 1..Len(mock_da) : mock_da[i].gen \in Nat
      /\ \A n \in 0..(MaxSlots - 1) : snapshots[n].gen \in Nat
  BY GenTypes
<1>1. CASE Quiet
  BY <1>1 DEF Quiet, PersistentGens, MockGens, SnapshotGens
<1>2. ASSUME NEW b \in BOOLEAN, Produce(b) PROVE GenerationsInv'
  <2>1. PICK slot \in Slot : mock_da' = Append(mock_da, slot) /\ slot.gen = run
    BY <1>2, ProduceFacts
  <2>2. /\ manager = "running" /\ phase \notin Preparing
        /\ UNCHANGED <<snapshots, persistent_da, manager, run, phase>>
    BY <1>2 DEF Produce, ControlInv, task
  <2>3. /\ Len(mock_da') = Len(mock_da) + 1 /\ mock_da'[Len(mock_da) + 1] = slot
        /\ \A i \in 1..Len(mock_da) : mock_da'[i] = mock_da[i]
    BY <2>1, AppendFacts DEF FilesInv, IsHistory
  <2>4. \A i \in 1..Len(mock_da') : i \in 1..Len(mock_da) \/ i = Len(mock_da) + 1
    BY <2>3, <1>0
  <2>5. PersistentGens'
    <3>1. ASSUME NEW i \in 1..Len(persistent_da), i <= Len(mock_da')
          PROVE  Agree(mock_da'[i], persistent_da[i])
      <4>1. CASE i = Len(mock_da) + 1
        <5>1. persistent_da[i].gen < run
          BY <2>2 DEF PersistentGens
        <5> QED BY <5>1, <4>1, <2>1, <2>3, <1>0 DEF Agree
      <4>2. CASE i \in 1..Len(mock_da)
        <5>1. i <= Len(mock_da)
          BY <4>2, <1>0
        <5> QED BY <5>1, <4>2, <2>3 DEF PersistentGens
      <4>3. i \in 1..Len(mock_da')
        BY <3>1, <2>3, <1>0
      <4> QED BY <4>1, <4>2, <4>3, <2>4
    <3> QED BY <3>1, <2>2 DEF PersistentGens
  <2>6. MockGens'
    <3>1. ASSUME NEW i \in 1..Len(mock_da') PROVE mock_da'[i].gen <= run
      <4>1. CASE i \in 1..Len(mock_da)
        BY <4>1, <2>3 DEF MockGens
      <4>2. CASE i = Len(mock_da) + 1
        BY <4>2, <2>1, <2>3, <1>0
      <4> QED BY <4>1, <4>2, <2>4
    <3> QED BY <3>1, <2>2 DEF MockGens
  <2>7. SnapshotGens'
    <3>1. ASSUME NEW n \in 0..(MaxSlots - 1), snapshots[n] # Missing, n < Len(mock_da')
          PROVE  Agree(snapshots[n], mock_da'[n + 1])
      <4>1. CASE n = Len(mock_da)
        <5>1. snapshots[n].gen # run
          BY <4>1, <3>1, <2>2, <1>0 DEF SnapshotGens
        <5> QED BY <5>1, <4>1, <2>1, <2>3 DEF Agree
      <4>2. CASE n < Len(mock_da)
        <5>1. n + 1 \in 1..Len(mock_da)
          BY <4>2, <1>0
        <5> QED BY <5>1, <4>2, <3>1, <2>3 DEF SnapshotGens
      <4> QED BY <4>1, <4>2, <3>1, <2>3, <1>0
    <3>2. ASSUME NEW n \in 0..(MaxSlots - 1), snapshots[n] # Missing, snapshots[n].gen = run
          PROVE  n < Len(mock_da')
      <4>1. n < Len(mock_da)
        BY <3>2, <2>2 DEF SnapshotGens
      <4> QED BY <4>1, <2>3, <1>0
    <3> QED BY <3>1, <3>2, <2>2 DEF SnapshotGens
  <2> QED BY <2>5, <2>6, <2>7
<1>3. ASSUME NEW root \in {"right", "wrong"}, Replay(root) PROVE GenerationsInv'
  BY <1>3 DEF Replay, files, task, PersistentGens, MockGens, SnapshotGens
<1>4. CASE CopyMockData
  <2>1. /\ phase = "copy" /\ mock_da' = persistent_da /\ manager = "none"
        /\ UNCHANGED <<snapshots, persistent_da, manager, run>>
    BY <1>4 DEF CopyMockData, ControlInv
  <2>2. PersistentGens'
    BY <2>1 DEF PersistentGens, Agree, SameBlock
  <2>3. MockGens'
    BY <2>1 DEF MockGens, PersistentGens
  <2>4. SnapshotGens'
    BY <2>1 DEF SnapshotGens
  <2> QED BY <2>2, <2>3, <2>4
<1>5. CASE Spawn
  BY <1>0, <1>5 DEF Spawn, files, PersistentGens, MockGens, SnapshotGens
<1>6. CASE MonitorSlot \/ FinishManual \/ SoakSlot
  <2>1. /\ SavedFromLedger /\ Alive /\ Alive' /\ phase' \notin Preparing
        /\ UNCHANGED <<persistent_da, mock_da, ledger, run, kind, manager>>
    BY <1>6, SavingSteps
  <2>2. PersistentGens' /\ MockGens'
    BY <2>1 DEF PersistentGens, MockGens
  <2>3. ASSUME NEW n \in 0..(MaxSlots - 1), n < Len(ledger), NEW c \in BOOLEAN,
               snapshots'[n] = slot_to_json(ledger[n + 1], c)
        PROVE  /\ n < Len(mock_da) /\ SameBlock(snapshots'[n], mock_da[n + 1])
               /\ mock_da[n + 1].gen <= run
               /\ n < Len(persistent_da) => Agree(mock_da[n + 1], persistent_da[n + 1])
    <3>1. n + 1 \in 1..Len(ledger)
      BY <2>3, <1>0
    <3>2. ledger[n + 1] \in Slot
      BY <3>1, EntryFacts DEF FilesInv
    <3>3. Len(ledger) <= Len(mock_da) /\ SameBlock(ledger[n + 1], mock_da[n + 1])
      BY <2>1, <3>1 DEF FilesInv, Executes
    <3>4. SameBlock(snapshots'[n], ledger[n + 1])
      <4>1. SameBlock(slot_to_json(ledger[n + 1], c), ledger[n + 1])
        BY <3>2, JsonFacts, Zenon
      <4> QED BY <4>1, <2>3
    <3>5. n < Len(mock_da) /\ n + 1 \in 1..Len(mock_da) /\ n + 1 <= Len(mock_da)
      BY <3>1, <3>3, <1>0
    <3>6. n < Len(persistent_da) => n + 1 \in 1..Len(persistent_da)
      BY <1>0
    <3> QED BY <3>3, <3>4, <3>5, <3>6 DEF SameBlock, MockGens, PersistentGens
  <2>4. ASSUME NEW n \in 0..(MaxSlots - 1), snapshots'[n] # Missing
        PROVE  /\ snapshots'[n].gen <= run
               /\ snapshots'[n].gen = run => n < Len(mock_da)
               /\ n < Len(mock_da) => Agree(snapshots'[n], mock_da[n + 1])
               /\ n < Len(persistent_da) => Agree(snapshots'[n], persistent_da[n + 1])
    <3>1. CASE snapshots'[n] = snapshots[n]
      BY <3>1, <2>1, <2>4 DEF SnapshotGens
    <3>2. ASSUME n < Len(ledger), NEW c \in BOOLEAN,
                 snapshots'[n] = slot_to_json(ledger[n + 1], c)
          PROVE  /\ snapshots'[n].gen <= run /\ n < Len(mock_da)
                 /\ Agree(snapshots'[n], mock_da[n + 1])
                 /\ n < Len(persistent_da) => Agree(snapshots'[n], persistent_da[n + 1])
      <4>1. /\ n < Len(mock_da) /\ SameBlock(snapshots'[n], mock_da[n + 1])
            /\ mock_da[n + 1].gen <= run
            /\ n < Len(persistent_da) => Agree(mock_da[n + 1], persistent_da[n + 1])
        BY <3>2, <2>3, Zenon
      <4> QED BY <4>1 DEF Agree, SameBlock
    <3> QED BY <3>1, <3>2, <2>1 DEF SavedFromLedger
  <2>5. SnapshotGens'
    BY <2>1, <2>4 DEF SnapshotGens
  <2> QED BY <2>2, <2>5
<1>7. CASE SaveMockData
  <2>1. /\ phase = "save" /\ persistent_da' = mock_da /\ mock_da' = << >> /\ phase' = "clean"
        /\ UNCHANGED <<snapshots, manager, run>> /\ manager = "exited"
    BY <1>7 DEF SaveMockData, ControlInv, Finished
  <2>2. Len(mock_da') = 0
    BY <2>1
  <2>3. PersistentGens'
    <3>1. \A i \in 1..Len(mock_da) : ~ (i <= Len(mock_da'))
      BY <2>2, <1>0
    <3> QED BY <2>1, <3>1 DEF PersistentGens, MockGens
  <2>4. MockGens'
    BY <2>2 DEF MockGens
  <2>5. SnapshotGens'
    <3>1. \A n \in 0..(MaxSlots - 1) : ~ (n < Len(mock_da'))
      BY <2>2, <1>0
    <3> QED BY <2>1, <3>1 DEF SnapshotGens
  <2> QED BY <2>3, <2>4, <2>5
<1>8. CASE CleanUp
  BY <1>8 DEF CleanUp, files, PersistentGens, MockGens, SnapshotGens
<1>9. CASE RemoveData
  <2>1. /\ persistent_da' = << >> /\ mock_da' = << >>
        /\ \A n \in 0..(MaxSlots - 1) : snapshots'[n] = Missing
    BY <1>9 DEF RemoveData, SnapshotsInv
  <2>2. Len(persistent_da') = 0 /\ Len(mock_da') = 0
    BY <2>1
  <2> QED BY <2>1, <2>2 DEF PersistentGens, MockGens, SnapshotGens
<1>10. ASSUME NEW k \in {"setup", "test"}, NEW policy \in Policies, Start(k, policy)
       PROVE  GenerationsInv'
  <2>1. manager' = "none" /\ run' = run + 1 /\ UNCHANGED <<snapshots, persistent_da, mock_da>>
    BY <1>10 DEF Start, files
  <2> QED BY <2>1, <1>0 DEF PersistentGens, MockGens, SnapshotGens
<1> QED BY <1>1, <1>2, <1>3, <1>4, <1>5, <1>6, <1>7, <1>8, <1>9, <1>10, QuietOrLoud DEF Loud
-----------------------------------------------------------------------------
(* What the resync loop has checked.                                        *)

\* The batch ranges of a history do not overlap.
LEMMA HistoryOrder ==
    ASSUME NEW h, IsHistory(h), NEW i \in 1..Len(h), NEW j \in 1..Len(h), i < j
    PROVE  h[i].end <= h[j].first
<1>0. Len(h) \in Nat /\ \A k \in 1..Len(h) : h[k] \in Slot
  BY EntryFacts DEF IsHistory
<1>1. Len(h) \in Nat /\ \A k \in 1..Len(h) : h[k].first \in Nat /\ h[k].end \in Nat
  BY <1>0 DEF Slot
<1>2. \A k \in 1..Len(h) : h[k].first <= h[k].end /\ (k > 1 => h[k].first = h[k - 1].end)
  BY DEF IsHistory
<1> DEFINE T == {d \in Nat : i + 1 + d <= Len(h) => h[i].end <= h[i + 1 + d].first}
<1>3. 0 \in T
  <2>1. i + 1 <= Len(h) => i + 1 \in 1..Len(h) /\ i + 1 > 1 /\ (i + 1) - 1 = i
    BY <1>1
  <2> QED BY <2>1, <1>1, <1>2
<1>4. ASSUME NEW d \in T PROVE d + 1 \in T
  <2> SUFFICES ASSUME i + 1 + (d + 1) <= Len(h)
               PROVE  h[i].end <= h[i + 1 + (d + 1)].first
    OBVIOUS
  <2> DEFINE k == i + 1 + d
  <2>1. /\ k \in 1..Len(h) /\ k + 1 \in 1..Len(h) /\ k + 1 > 1 /\ (k + 1) - 1 = k
        /\ k <= Len(h) /\ i + 1 + (d + 1) = k + 1
    BY <1>1
  <2>2. h[i].end <= h[k].first
    BY <2>1
  <2> HIDE DEF k
  <2>3. h[k].first <= h[k].end /\ h[k + 1].first = h[k].end
    BY <1>2, <2>1
  <2> QED BY <1>1, <2>1, <2>2, <2>3
<1>5. \A d \in Nat : d \in T
  <2> HIDE DEF T
  <2>1. T \in SUBSET Nat
    BY DEF T
  <2> QED BY <1>3, <1>4, <2>1, SetInduction
<1>6. j - i - 1 \in Nat /\ i + 1 + (j - i - 1) = j /\ j <= Len(h)
  BY <1>1
<1>7. j - i - 1 \in T
  BY <1>5, <1>6
<1> QED BY <1>6, <1>7

\* What the rounds so far and this one have checked.
LEMMA RoundPassed ==
    ASSUME ProgressInv, ResyncInv, phase = "resync",
           NEW last \in progress.checked..cursor, NEW outcome, NEW latest,
           RoundEnds(last, outcome, latest)
    PROVE  /\ \A n \in 0..(last - 1) : Passes(n)
           /\ latest > 0 /\ outcome # "mismatch" => \E m \in 0..last : ReadUpTo(m, latest)
<1>1. progress.checked \in Nat /\ cursor \in Nat /\ last \in Nat /\ progress.checked <= last
  BY DEF ProgressInv
<1>2. ASSUME NEW n \in 0..(last - 1) PROVE Passes(n)
  <2>1. CASE n >= progress.checked
    <3>1. n \in progress.checked..(last - 1)
      BY <2>1, <1>1
    <3> QED BY <3>1 DEF RoundEnds
  <2>2. CASE n < progress.checked
    <3>1. n \in 0..progress.checked /\ progress.checked > 0
      BY <2>2, <1>1
    <3> QED BY <3>1 DEF ResyncInv
  <2> QED BY <2>1, <2>2, <1>1
<1>3. ASSUME latest > 0, outcome # "mismatch" PROVE \E m \in 0..last : ReadUpTo(m, latest)
  <2>1. CASE latest = progress.latest
    <3>1. PICK m \in 0..progress.checked : ReadUpTo(m, latest)
      BY <1>3, <2>1 DEF ResyncInv
    <3>2. m \in 0..last
      BY <1>1
    <3> QED BY <3>1, <3>2
  <2>2. ASSUME NEW m \in progress.checked..last, snapshots[m] # Missing,
               latest = latest_batch(snapshots[m])
        PROVE  \E mm \in 0..last : ReadUpTo(mm, latest)
    <3>1. ASSUME NEW n \in 0..m PROVE Passes(n)
      <4>1. CASE n \in 0..(last - 1)
        BY <4>1, <1>2
      <4>2. CASE n = last
        <5>1. m = last
          BY <4>2, <1>1
        <5>2. outcome = "more"
          BY <1>3, <2>2, <5>1 DEF RoundEnds
        <5> QED BY <4>2, <5>2 DEF RoundEnds
      <4> QED BY <4>1, <4>2, <1>1
    <3>2. m \in 0..last
      BY <1>1
    <3> QED BY <3>1, <3>2, <2>2 DEF ReadUpTo
  <2>3. \/ latest = progress.latest
        \/ \E m \in progress.checked..last :
              snapshots[m] # Missing /\ latest = latest_batch(snapshots[m])
    BY DEF RoundEnds
  <2> QED BY <2>1, <2>2, <2>3
<1> QED BY <1>2, <1>3

\* The slots of the ledger stay what they are.
Kept ==
    /\ Len(ledger) <= Len(ledger')
    /\ \A i \in 1..Len(ledger) : ledger'[i] = ledger[i]

LEMMA LedgerKept ==
    ASSUME ControlInv, FilesInv, RunNext, phase # "idle", phase = "clean" => phase' # "returned"
    PROVE  Kept
<1>1. Len(ledger) \in Nat
  BY EntryFacts DEF FilesInv
<1>2. CASE UNCHANGED ledger
  BY <1>1, <1>2 DEF Kept
<1>3. ASSUME NEW slot \in Slot, ledger' = Append(ledger, slot) PROVE Kept
  <2>1. Len(ledger') = Len(ledger) + 1 /\ \A i \in 1..Len(ledger) : ledger'[i] = ledger[i]
    BY <1>3, AppendFacts DEF FilesInv
  <2> QED BY <1>1, <2>1 DEF Kept
<1>4. (\E b \in BOOLEAN : Produce(b)) => \E slot \in Slot : ledger' = Append(ledger, slot)
  BY ProduceFacts
<1>5. (\E root \in {"right", "wrong"} : Replay(root)) =>
          \E slot \in Slot : ledger' = Append(ledger, slot)
  BY ReplayFacts
<1>6. Quiet => UNCHANGED ledger
  BY DEF Quiet
<1>7. CopyMockData \/ Spawn \/ MonitorSlot \/ FinishManual \/ SoakSlot \/ SaveMockData =>
          UNCHANGED ledger
  BY DEF CopyMockData, Spawn, MonitorSlot, FinishManual, SoakSlot, SaveMockData
<1>8. ~ CleanUp /\ ~ RemoveData
  BY DEF CleanUp, RemoveData
<1>9. ~ \E k \in {"setup", "test"}, policy \in Policies : Start(k, policy)
  BY DEF Start
<1> QED BY <1>2, <1>3, <1>4, <1>5, <1>6, <1>7, <1>8, <1>9, QuietOrLoud DEF Loud

\* A slot that passed goes on to.
LEMMA PassesKept ==
    ASSUME FilesInv, FilesInv', Kept, UNCHANGED snapshots, NEW n \in Nat, Passes(n)
    PROVE  Passes(n)'
<1>1. Len(ledger) \in Nat /\ Len(ledger') \in Nat
  BY EntryFacts DEF FilesInv
<1>2. n + 1 \in 1..Len(ledger) /\ n < Len(ledger')
  BY <1>1 DEF Passes, Kept
<1>3. ledger'[n + 1] = ledger[n + 1]
  BY <1>2 DEF Kept
<1> QED BY <1>2, <1>3 DEF Passes

LEMMA ResyncInit == RunInit => ResyncInv
BY DEF RunInit, ResyncInv

\* The steps inside the resync loop.
LEMMA ResyncPhase ==
    ASSUME ControlInv, RunNext, phase' = "resync"
    PROVE  \/ phase = "resync" /\ UNCHANGED <<snapshots, progress>>
           \/ progress' = [NoProgress EXCEPT !.first = Len(ledger)]
           \/ Resync
<1> USE DEF vars, world, files, task, NoProgress
<1>1. CASE \E b \in BOOLEAN : Produce(b)
  BY <1>1 DEF Produce
<1>2. CASE \E root \in {"right", "wrong"} : Replay(root)
  BY <1>2 DEF Replay
<1>3. CASE ApiCloses
  BY <1>3 DEF ApiCloses
<1>4. CASE ManagerExits
  BY <1>4 DEF ManagerExits
<1>5. CASE ManagerCrashes
  BY <1>5 DEF ManagerCrashes
<1>6. CASE KillLands
  BY <1>6 DEF KillLands
<1>7. CASE CopyMockData
  BY <1>7 DEF CopyMockData
<1>8. CASE StartPostgres
  BY <1>8 DEF StartPostgres
<1>9. CASE Spawn
  BY <1>9 DEF Spawn
<1>10. CASE Ready
  BY <1>10 DEF Ready
<1>11. CASE MonitorSlot
  BY <1>11 DEF MonitorSlot
<1>12. CASE FinishManual
  BY <1>12 DEF FinishManual
<1>13. CASE StartSoak
  BY <1>13 DEF StartSoak
<1>14. CASE SoakRollupExits
  BY <1>14 DEF SoakRollupExits, Break
<1>15. CASE SoakTaskFails
  BY <1>15 DEF SoakTaskFails, Break
<1>16. CASE SoakSlot
  BY <1>16 DEF SoakSlot
<1>17. CASE SoakLosesRollup
  BY <1>17 DEF SoakLosesRollup, Break
<1>18. CASE SoakShutdown
  BY <1>18 DEF SoakShutdown, Break
<1>19. CASE StopTimesOut
  BY <1>19 DEF StopTimesOut
<1>20. CASE TermTimesOut
  BY <1>20 DEF TermTimesOut
<1>21. CASE KillTimesOut
  BY <1>21 DEF KillTimesOut, Unwind
<1>22. CASE SoakFails
  BY <1>22 DEF SoakFails, Unwind
<1>23. CASE SoakSucceeds
  BY <1>23 DEF SoakSucceeds
<1>24. CASE SaveMockData
  BY <1>24 DEF SaveMockData
<1>25. CASE Report
  BY <1>25 DEF Report
<1>26. CASE CleanUp
  BY <1>26 DEF CleanUp
<1>27. CASE TaskFails
  BY <1>27 DEF TaskFails, Unwind
<1>28. CASE TaskSeesShutdown
  BY <1>28 DEF TaskSeesShutdown, Unwind
<1>29. CASE Abort
  BY <1>29 DEF Abort, Unwind
<1>30. CASE Return
  BY <1>30 DEF Return
<1>31. CASE Signal
  BY <1>31 DEF Signal
<1>32. CASE HarnessDies
  BY <1>32 DEF HarnessDies
<1>33. CASE RemoveData
  BY <1>33 DEF RemoveData
<1>34. CASE \E k \in {"setup", "test"}, policy \in Policies : Start(k, policy)
  BY <1>34 DEF Start
<1> QED
  BY <1>1, <1>2, <1>3, <1>4, <1>5, <1>6, <1>7, <1>8, <1>9, <1>10, <1>11, <1>12,
     <1>13, <1>14, <1>15, <1>16, <1>17, <1>18, <1>19, <1>20, <1>21, <1>22, <1>23,
     <1>24, <1>25, <1>26, <1>27, <1>28, <1>29, <1>30, <1>31, <1>32, <1>33, <1>34
     DEF RunNext, RollupNext, TaskNext
LEMMA ResyncStep ==
    ASSUME ControlInv, FilesInv, FilesInv', ProgressInv, ProgressInv', ResyncInv, RunNext
    PROVE  ResyncInv'
<1> SUFFICES ASSUME phase' = "resync" PROVE ResyncInv'
  BY DEF ResyncInv
<1>1. ASSUME phase = "resync" PROVE Kept
  BY <1>1, LedgerKept
<1>2. ASSUME phase = "resync", UNCHANGED <<snapshots, progress>> PROVE ResyncInv'
  <2>1. \A n \in Nat : Passes(n) => Passes(n)'
    BY <1>1, <1>2, PassesKept
  <2>2. progress.checked \in Nat
    BY DEF ProgressInv
  <2>3. \A m \in 0..progress.checked : \A l : ReadUpTo(m, l) => ReadUpTo(m, l)'
    BY <1>2, <2>1, <2>2 DEF ReadUpTo
  <2> QED BY <1>2, <2>1, <2>2, <2>3 DEF ResyncInv
<1>3. ASSUME progress' = [NoProgress EXCEPT !.first = Len(ledger)] PROVE ResyncInv'
  <2>1. progress'.checked = 0 /\ progress'.latest = 0
    BY <1>3 DEF NoProgress
  <2> QED BY <2>1 DEF ResyncInv
<1>4. ASSUME Resync PROVE ResyncInv'
  <2> DEFINE round == resync_round(ledger, snapshots, progress.checked, cursor, progress.latest,
                                   expected_setup_batches(manager_versions))
  <2>1. /\ phase = "resync" /\ manager = "running" /\ cursor < Len(ledger)
        /\ progress' = [progress EXCEPT !.checked = cursor, !.latest = round.latest]
        /\ round.outcome = "more" /\ UNCHANGED <<snapshots, ledger>>
    BY <1>4 DEF Resync, Unwind, world, files
  <2>2. PICK last \in progress.checked..cursor : RoundEnds(last, round.outcome, round.latest)
    BY <2>1, RoundFacts
  <2> HIDE DEF round
  <2>3. last = cursor /\ Passes(cursor) /\ cursor \in Nat
    BY <2>1, <2>2 DEF RoundEnds, ProgressInv
  <2>4. /\ \A n \in 0..(cursor - 1) : Passes(n)
        /\ round.latest > 0 => \E m \in 0..cursor : ReadUpTo(m, round.latest)
    BY <2>1, <2>2, <2>3, RoundPassed
  <2>5. \A n \in 0..cursor : Passes(n)
    <3>1. \A n \in 0..cursor : n \in 0..(cursor - 1) \/ n = cursor
      BY <2>3
    <3> QED BY <2>3, <2>4, <3>1
  <2>6. progress'.checked = cursor /\ progress'.latest = round.latest
    BY <2>1 DEF ProgressInv
  <2>7. \A n : Passes(n) <=> Passes(n)'
    BY <2>1 DEF Passes
  <2>8. \A m, l : ReadUpTo(m, l) <=> ReadUpTo(m, l)'
    BY <2>1, <2>7 DEF ReadUpTo
  <2> QED BY <2>4, <2>5, <2>6, <2>7, <2>8 DEF ResyncInv
<1> QED BY <1>2, <1>3, <1>4, ResyncPhase
-----------------------------------------------------------------------------
(* What a finished resync means.                                            *)

Resynced == {"sequencer", "soak", "stopping", "terminating", "killing", "report", "clean"}

\* The conclusion of PassMeansReplayed.
Replayed ==
    \A n \in SetupSlots :
        n < Len(ledger) /\ ledger[n + 1].root = "right" /\ ledger[n + 1].by = run

LEMMA PassIsReplayed == PassMeansReplayed <=> (kind = "test" /\ phase \in Resynced => Replayed)
BY DEF PassMeansReplayed, Resynced, Replayed

\* The number of batches expected, and the plan it comes from.
LEMMA ExpectedFacts ==
    LET stop == stop_at_height(manager_versions)
    IN  stop \in Nat /\ stop >= 2 /\ expected = stop - 1 /\ EarlySlots <= stop
<1> DEFINE H == Versions * BlocksPerVersion
<1>1. H \in Nat /\ stop_at_height(manager_versions) = H
  BY Heights
<1>2. H >= 2 /\ EarlySlots <= H
  BY RunAssumption
<1>3. expected = monus(H, 1)
  BY <1>1 DEF expected, expected_setup_batches
<1> HIDE DEF H
<1>4. monus(H, 1) = H - 1
  BY <1>1, <1>2 DEF monus
<1> QED BY <1>1, <1>2, <1>3, <1>4

\* A slot that passed and has a snapshot is the slot of the snapshot.
LEMMA PassesMatches ==
    ASSUME FilesInv, SnapshotsInv, NEW n \in Nat, Passes(n), snapshots[n] # Missing
    PROVE  /\ n \in 0..(MaxSlots - 1) /\ n + 1 \in 1..Len(ledger)
           /\ SameBlock(ledger[n + 1], snapshots[n])
           /\ ledger[n + 1].root = "right" /\ snapshots[n].end \in Nat
<1>1. /\ n < Len(ledger) /\ n < MaxSlots /\ Len(ledger) \in Nat /\ MaxSlots \in Nat
      /\ slot_to_json(ledger[n + 1], include_children(snapshots[n])) = snapshots[n]
  BY EntryFacts, RunAssumption DEF Passes, compare_against_snapshot, FilesInv
<1>2. n \in 0..(MaxSlots - 1) /\ n + 1 \in 1..Len(ledger)
  BY <1>1
<1>3. ledger[n + 1] \in Slot
  BY <1>2, EntryFacts DEF FilesInv
<1>4. include_children(snapshots[n]) \in BOOLEAN
  BY DEF include_children
<1>5. SameBlock(snapshots[n], ledger[n + 1]) /\ snapshots[n].root = ledger[n + 1].root
  <2> DEFINE c == include_children(snapshots[n])  j == slot_to_json(ledger[n + 1], c)
  <2>1. SameBlock(j, ledger[n + 1]) /\ j.root = ledger[n + 1].root
    BY <1>3, <1>4, JsonFacts, Zenon
  <2> QED BY <1>1, <2>1
<1>6. snapshots[n].root = "right" /\ snapshots[n].end \in Nat
  BY <1>2 DEF SnapshotsInv, Json
<1> QED BY <1>2, <1>5, <1>6 DEF SameBlock

\* The blocks of the persisted history are those the ledger executes.
LEMMA LedgerIsPersistent ==
    ASSUME ControlInv, FilesInv, manager = "running", phase = "resync",
           NEW i \in 1..Len(ledger), i <= Len(persistent_da)
    PROVE  i \in 1..Len(persistent_da) /\ SameBlock(ledger[i], persistent_da[i])
<1>1. kind = "test"
  BY DEF ControlInv
<1>2. Continues(mock_da, persistent_da) /\ Executes(ledger, mock_da)
  BY <1>1 DEF FilesInv, Alive
<1>3. Len(persistent_da) \in Nat /\ Len(ledger) \in Nat
  BY EntryFacts DEF FilesInv, IsHistory
<1>4. i \in 1..Len(persistent_da)
  BY <1>3
<1> QED BY <1>2, <1>4 DEF Continues, Executes

\* When the resync is complete, every slot of the setup has passed.
LEMMA CompleteMeansReplayed ==
    ASSUME ControlInv, FilesInv, ProgressInv, SnapshotsInv, ResyncInv, manager = "running",
           phase = "resync", cursor < Len(ledger), NEW last \in progress.checked..cursor, NEW latest,
           RoundEnds(last, "complete", latest)
    PROVE  Replayed
<1> DEFINE stop == stop_at_height(manager_versions)
<1>1. stop \in Nat /\ stop >= 2 /\ expected = stop - 1 /\ EarlySlots \in Nat
  BY ExpectedFacts, PlanAssumption
<1> HIDE DEF stop
<1>2. progress.checked \in Nat /\ cursor \in Nat /\ last \in Nat
  BY DEF ProgressInv
<1>3. latest \in Nat
  <2>1. \/ latest = progress.latest
        \/ \E m \in progress.checked..last : latest = latest_batch(snapshots[m])
    BY DEF RoundEnds
  <2>2. ASSUME NEW m \in progress.checked..last, latest = latest_batch(snapshots[m])
        PROVE  latest \in Nat
    <3>1. m \in 0..cursor
      BY <1>2
    <3>2. m \in 0..(MaxSlots - 1)
      BY <3>1, RoundRange
    <3> QED BY <2>2, <3>2, LatestNat
  <2> QED BY <2>1, <2>2 DEF ProgressInv
<1>4. latest > 0 /\ latest >= stop - 1
  BY <1>1, <1>3 DEF RoundEnds
<1>5. PICK m \in 0..last : ReadUpTo(m, latest)
  BY <1>4, RoundPassed
<1>6. snapshots[m] # Missing /\ Passes(m) /\ m \in Nat /\ latest = latest_batch(snapshots[m])
  BY <1>2, <1>5 DEF ReadUpTo
<1>7. /\ m + 1 \in 1..Len(ledger) /\ SameBlock(ledger[m + 1], snapshots[m])
      /\ snapshots[m].end \in Nat
  BY <1>6, PassesMatches
<1>8. ledger[m + 1].end >= stop
  <2>1. snapshots[m].end >= stop
    BY <1>1, <1>3, <1>4, <1>6, <1>7 DEF latest_batch, monus
  <2> QED BY <1>7, <2>1 DEF SameBlock
<1>9. /\ Len(persistent_da) \in Nat /\ IsHistory(persistent_da)
      /\ \A i \in 1..Len(persistent_da) : persistent_da[i] \in Slot
  BY EntryFacts DEF FilesInv, IsHistory
<1>10. ASSUME NEW n \in SetupSlots
       PROVE  n < Len(ledger) /\ ledger[n + 1].root = "right" /\ ledger[n + 1].by = run
  <2>1. n \in EarlySlots..(Len(persistent_da) - 1) /\ persistent_da[n + 1].first < stop
    BY DEF SetupSlots, stop
  <2>2. n \in Nat /\ n >= EarlySlots /\ n + 1 \in 1..Len(persistent_da)
    BY <1>1, <1>9, <2>1
  <2>3. n <= m
    <3> SUFFICES ASSUME n > m PROVE FALSE
      BY <1>6, <2>2
    <3>1. m + 1 \in 1..Len(persistent_da) /\ m + 1 <= Len(persistent_da) /\ m + 1 < n + 1
      BY <1>6, <1>9, <2>2
    <3>2. SameBlock(ledger[m + 1], persistent_da[m + 1])
      BY <1>7, <3>1, LedgerIsPersistent
    <3>3. persistent_da[m + 1].end <= persistent_da[n + 1].first
      BY <1>9, <2>2, <3>1, HistoryOrder
    <3>4. persistent_da[m + 1].end \in Nat /\ persistent_da[n + 1].first \in Nat
      BY <1>9, <2>2, <3>1 DEF Slot
    <3>5. persistent_da[m + 1].end >= stop
      BY <1>8, <3>2 DEF SameBlock
    <3> QED BY <1>1, <2>1, <3>3, <3>4, <3>5
  <2>4. Passes(n) /\ n \in 0..m
    BY <1>5, <1>6, <2>2, <2>3 DEF ReadUpTo
  <2>5. snapshots[n] # Missing
    BY <1>1, <2>2, <2>4 DEF Passes
  <2>6. n + 1 \in 1..Len(ledger) /\ ledger[n + 1].root = "right"
    BY <2>2, <2>4, <2>5, PassesMatches
  <2>7. ledger[n + 1].by = run
    BY <2>6 DEF FilesInv, ByThisRun
  <2>8. n < Len(ledger)
    BY <2>4 DEF Passes
  <2> QED BY <2>6, <2>7, <2>8
<1> QED BY <1>10 DEF Replayed

\* How a task gets past the resync.
LEMMA ResyncedPhase ==
    ASSUME ControlInv, RunNext, kind' = "test", phase' \in Resynced
    PROVE  \/ kind = "test" /\ phase \in Resynced /\ UNCHANGED <<run, persistent_da>>
           \/ Resync /\ phase' = "sequencer"
<1> USE DEF vars, world, files, task, Resynced
<1>1. CASE \E b \in BOOLEAN : Produce(b)
  BY <1>1 DEF Produce
<1>2. CASE \E root \in {"right", "wrong"} : Replay(root)
  BY <1>2 DEF Replay
<1>3. CASE ApiCloses
  BY <1>3 DEF ApiCloses
<1>4. CASE ManagerExits
  BY <1>4 DEF ManagerExits
<1>5. CASE ManagerCrashes
  BY <1>5 DEF ManagerCrashes
<1>6. CASE KillLands
  BY <1>6 DEF KillLands
<1>7. CASE CopyMockData
  BY <1>7 DEF CopyMockData
<1>8. CASE StartPostgres
  BY <1>8 DEF StartPostgres
<1>9. CASE Spawn
  BY <1>9 DEF Spawn
<1>10. CASE Ready
  BY <1>10 DEF Ready
<1>11. CASE MonitorSlot
  BY <1>11 DEF MonitorSlot
<1>12. CASE FinishManual
  BY <1>12 DEF FinishManual
<1>13. CASE Resync
  BY <1>13 DEF Resync, Unwind
<1>14. CASE StartSoak
  BY <1>14 DEF StartSoak, ControlInv
<1>15. CASE SoakRollupExits
  BY <1>15 DEF SoakRollupExits, Break
<1>16. CASE SoakTaskFails
  BY <1>16 DEF SoakTaskFails, Break
<1>17. CASE SoakSlot
  BY <1>17 DEF SoakSlot
<1>18. CASE SoakLosesRollup
  BY <1>18 DEF SoakLosesRollup, Break
<1>19. CASE SoakShutdown
  BY <1>19 DEF SoakShutdown, Break
<1>20. CASE StopTimesOut
  BY <1>20 DEF StopTimesOut
<1>21. CASE TermTimesOut
  BY <1>21 DEF TermTimesOut
<1>22. CASE KillTimesOut
  BY <1>22 DEF KillTimesOut, Unwind
<1>23. CASE SoakFails
  BY <1>23 DEF SoakFails, Unwind
<1>24. CASE SoakSucceeds
  BY <1>24 DEF SoakSucceeds, ControlInv
<1>25. CASE SaveMockData
  BY <1>25 DEF SaveMockData, ControlInv
<1>26. CASE Report
  BY <1>26 DEF Report
<1>27. CASE CleanUp
  BY <1>27 DEF CleanUp
<1>28. CASE TaskFails
  BY <1>28 DEF TaskFails, Unwind
<1>29. CASE TaskSeesShutdown
  BY <1>29 DEF TaskSeesShutdown, Unwind
<1>30. CASE Abort
  BY <1>30 DEF Abort, Unwind
<1>31. CASE Return
  BY <1>31 DEF Return
<1>32. CASE Signal
  BY <1>32 DEF Signal
<1>33. CASE HarnessDies
  BY <1>33 DEF HarnessDies
<1>34. CASE RemoveData
  BY <1>34 DEF RemoveData
<1>35. CASE \E k \in {"setup", "test"}, policy \in Policies : Start(k, policy)
  BY <1>35 DEF Start
<1> QED
  BY <1>1, <1>2, <1>3, <1>4, <1>5, <1>6, <1>7, <1>8, <1>9, <1>10, <1>11, <1>12,
     <1>13, <1>14, <1>15, <1>16, <1>17, <1>18, <1>19, <1>20, <1>21, <1>22, <1>23,
     <1>24, <1>25, <1>26, <1>27, <1>28, <1>29, <1>30, <1>31, <1>32, <1>33, <1>34,
     <1>35
     DEF RunNext, RollupNext, TaskNext
LEMMA PassStep ==
    ASSUME ControlInv, FilesInv, FilesInv', ProgressInv, SnapshotsInv, ResyncInv,
           PassMeansReplayed, RunNext
    PROVE  PassMeansReplayed'
<1> SUFFICES ASSUME kind' = "test", phase' \in Resynced PROVE Replayed'
  BY PassIsReplayed DEF PassMeansReplayed, Resynced, Replayed
<1>1. ASSUME kind = "test", phase \in Resynced, UNCHANGED <<run, persistent_da>>
      PROVE  Replayed'
  <2>1. Kept
    BY <1>1, LedgerKept DEF Resynced
  <2>2. SetupSlots' = SetupSlots
    BY <1>1 DEF SetupSlots
  <2>3. Replayed
    BY <1>1, PassIsReplayed
  <2>4. Len(ledger) \in Nat /\ Len(ledger') \in Nat /\ Len(persistent_da) \in Nat /\ EarlySlots \in Nat
    BY EntryFacts, PlanAssumption DEF FilesInv, IsHistory
  <2>5. ASSUME NEW n \in SetupSlots
        PROVE  n < Len(ledger') /\ ledger'[n + 1].root = "right" /\ ledger'[n + 1].by = run
    <3>1. n \in Nat
      BY <2>4 DEF SetupSlots
    <3>2. n < Len(ledger) /\ ledger[n + 1].root = "right" /\ ledger[n + 1].by = run
      BY <2>3 DEF Replayed
    <3>3. n + 1 \in 1..Len(ledger) /\ n < Len(ledger')
      BY <2>1, <2>4, <3>1, <3>2 DEF Kept
    <3> QED BY <2>1, <3>2, <3>3 DEF Kept
  <2> QED BY <1>1, <2>2, <2>5 DEF Replayed
<1>2. ASSUME Resync, phase' = "sequencer" PROVE Replayed'
  <2> DEFINE round == resync_round(ledger, snapshots, progress.checked, cursor, progress.latest,
                                   expected_setup_batches(manager_versions))
  <2>1. /\ phase = "resync" /\ manager = "running" /\ cursor < Len(ledger)
        /\ round.outcome = "complete" /\ UNCHANGED <<persistent_da, ledger, run>>
    BY <1>2 DEF Resync, Unwind, world, files
  <2>2. PICK last \in progress.checked..cursor : RoundEnds(last, round.outcome, round.latest)
    BY <2>1, RoundFacts
  <2> HIDE DEF round
  <2>3. Replayed
    BY <2>1, <2>2, CompleteMeansReplayed
  <2> QED BY <2>1, <2>3 DEF Replayed, SetupSlots
<1> QED BY <1>1, <1>2, ResyncedPhase
-----------------------------------------------------------------------------
(* What an alarm means.                                                     *)

\* The conclusion of AlarmHasCause, in its four parts.
WentWrong == \E i \in DOMAIN ledger : ledger[i].root = "wrong"
NeverSaved == \E n \in SetupSlots : snapshots[n] = Missing
ForeignSnapshot ==
    \E n \in DOMAIN snapshots :
       /\ snapshots[n] # Missing
       /\ n < Len(persistent_da) => snapshots[n].gen # persistent_da[n + 1].gen
CutShort == Batches(persistent_da) < stop_at_height(manager_versions)

Cause == WentWrong \/ NeverSaved \/ ForeignSnapshot \/ CutShort

LEMMA AlarmIsCaused ==
    AlarmHasCause <=> (result \in {"mismatch", "missing"} /\ phase = "returned" => Cause)
BY DEF AlarmHasCause, Cause, WentWrong, NeverSaved, ForeignSnapshot, CutShort

\* A snapshot that no other setup wrote is of the block that is replayed.
LEMMA OwnSnapshot ==
    ASSUME FilesInv, SnapshotsInv, GenerationsInv, ~ ForeignSnapshot,
           NEW n \in 0..(MaxSlots - 1), snapshots[n] # Missing
    PROVE  /\ n < Len(persistent_da) /\ n + 1 \in 1..Len(persistent_da)
           /\ SameBlock(snapshots[n], persistent_da[n + 1])
<1>1. n \in DOMAIN snapshots
  BY DEF SnapshotsInv
<1>2. n < Len(persistent_da) /\ snapshots[n].gen = persistent_da[n + 1].gen
  BY <1>1 DEF ForeignSnapshot
<1>3. SameBlock(snapshots[n], persistent_da[n + 1])
  BY <1>2 DEF GenerationsInv, SnapshotGens, Agree
<1>4. Len(persistent_da) \in Nat /\ MaxSlots \in Nat
  BY GenTypes
<1> QED BY <1>2, <1>3, <1>4

\* A mismatch.
LEMMA MismatchHasCause ==
    ASSUME ControlInv, FilesInv, ProgressInv, SnapshotsInv, GenerationsInv,
           manager = "running", phase = "resync", cursor < Len(ledger),
           NEW last \in 0..cursor, snapshots[last] # Missing, ~ Passes(last)
    PROVE  Cause
<1> SUFFICES ASSUME ~ WentWrong, ~ ForeignSnapshot PROVE FALSE
  BY DEF Cause
<1> DEFINE slot == ledger[last + 1]  snap == snapshots[last]
<1>1. /\ last \in 0..(MaxSlots - 1) /\ last \in Nat /\ cursor \in Nat
      /\ Len(ledger) \in Nat /\ MaxSlots \in Nat
  BY RoundRange DEF ProgressInv
<1>2. last + 1 \in 1..Len(ledger) /\ last < Len(ledger) /\ last < MaxSlots
  BY <1>1
<1>3. slot \in Slot
  BY <1>2, EntryFacts DEF FilesInv
<1>4. slot.root = "right"
  <2>1. last + 1 \in DOMAIN ledger
    BY <1>2 DEF FilesInv
  <2> QED BY <1>3, <2>1 DEF WentWrong, Slot
<1>5. last + 1 \in 1..Len(persistent_da) /\ SameBlock(snap, persistent_da[last + 1])
  BY <1>1, OwnSnapshot
<1>6. SameBlock(slot, persistent_da[last + 1])
  <2>1. last + 1 <= Len(persistent_da)
    BY <1>5
  <2> QED BY <1>2, <2>1, LedgerIsPersistent
<1>7. /\ snap \in Json /\ snap.root = "right"
      /\ snap.batches \in {{}, snap.first..(snap.end - 1)}
  BY <1>1 DEF SnapshotsInv
<1>8. ~ compare_against_snapshot(slot, snap)
  BY <1>2 DEF Passes
<1> HIDE DEF slot, snap
<1>9. snap.gen = slot.gen /\ snap.first = slot.first /\ snap.end = slot.end
  BY <1>5, <1>6 DEF SameBlock
<1>10. snap = [gen |-> snap.gen, first |-> snap.first, end |-> snap.end, root |-> snap.root,
               batches |-> snap.batches]
  BY <1>7 DEF Json
<1>11. slot_to_json(slot, include_children(snap)) = snap
  <2>1. snap.batches = IF include_children(snap) THEN slot.first..(slot.end - 1) ELSE {}
    BY <1>7, <1>9 DEF include_children
  <2> QED BY <1>4, <1>7, <1>9, <1>10, <2>1 DEF slot_to_json
<1> QED BY <1>8, <1>11 DEF compare_against_snapshot

\* A missing snapshot.
LEMMA MissingHasCause ==
    ASSUME ControlInv, FilesInv, ProgressInv, SnapshotsInv, GenerationsInv, ResyncInv,
           manager = "running", phase = "resync", cursor < Len(ledger),
           NEW last \in progress.checked..cursor, NEW latest, RoundEnds(last, "missing", latest)
    PROVE  Cause
<1> SUFFICES ASSUME ~ NeverSaved, ~ ForeignSnapshot, ~ CutShort PROVE FALSE
  BY DEF Cause
<1> DEFINE stop == stop_at_height(manager_versions)  P == persistent_da
<1>1. stop \in Nat /\ stop >= 2 /\ expected = stop - 1 /\ EarlySlots \in Nat /\ EarlySlots <= stop
  BY ExpectedFacts, PlanAssumption
<1>2. /\ progress.checked \in Nat /\ cursor \in Nat /\ last \in Nat
      /\ last \in 0..(MaxSlots - 1) /\ \A n \in 0..last : n \in 0..(MaxSlots - 1)
  BY RoundRange DEF ProgressInv
<1>3. snapshots[last] = Missing /\ last >= EarlySlots /\ latest < expected
  BY DEF RoundEnds
<1>4. /\ IsHistory(P) /\ Len(P) \in Nat /\ Batches(P) \in Nat
      /\ \A i \in 1..Len(P) : P[i] \in Slot
  BY EntryFacts, HistoryEnd DEF FilesInv, IsHistory
<1>5. Batches(P) >= stop
  BY <1>1, <1>4 DEF CutShort
<1>6. P # << >> /\ Len(P) > 0 /\ Batches(P) = P[Len(P)].end /\ Batches(P) < Len(P)
  BY <1>1, <1>4, <1>5, HistoryEnd
<1>7. last + 1 <= Len(P) => P[last + 1].first >= stop
  <2> SUFFICES ASSUME last + 1 <= Len(P), P[last + 1].first < stop PROVE FALSE
    <3>1. last + 1 <= Len(P) => P[last + 1].first \in Nat
      BY <1>2, <1>4 DEF Slot
    <3> QED BY <1>1, <3>1
  <2>1. last \in EarlySlots..(Len(P) - 1)
    BY <1>1, <1>2, <1>3, <1>4
  <2>2. last \in SetupSlots
    BY <2>1 DEF SetupSlots
  <2> QED BY <1>3, <2>2 DEF NeverSaved
<1> HIDE DEF stop, P
<1>8. last > EarlySlots
  <2> SUFFICES ASSUME last = EarlySlots PROVE FALSE
    BY <1>1, <1>2, <1>3
  <2>1. last + 1 <= Len(P)
    BY <1>1, <1>2, <1>4, <1>5, <1>6
  <2>2. last + 1 \in 1..Len(P) /\ (last > 0 => last \in 1..Len(P))
    BY <2>1, <1>2, <1>4
  <2>3. /\ P[last + 1].first \in Nat /\ P[last + 1].end \in Nat
        /\ last > 0 => P[last].end \in Nat
    BY <2>2, <1>4 DEF Slot
  <2>4. /\ P[last + 1].first <= P[last + 1].end /\ P[last + 1].end < last + 1
        /\ last + 1 > 1 => P[last + 1].first = P[(last + 1) - 1].end
        /\ last > 0 => P[last].end < last
    BY <2>2, <1>4 DEF IsHistory
  <2>5. (last + 1) - 1 = last
    BY <1>2
  <2> QED BY <1>1, <1>2, <1>7, <2>1, <2>3, <2>4, <2>5
<1>9. last - 1 \in Nat /\ last - 1 \in 0..(last - 1) /\ last - 1 \in 0..last /\ last - 1 >= EarlySlots
  BY <1>1, <1>2, <1>8
<1>10. Passes(last - 1) /\ snapshots[last - 1] # Missing
  <2>1. Passes(last - 1)
    BY <1>9, RoundPassed
  <2> QED BY <2>1, <1>1, <1>9 DEF Passes
<1>11. last \in 1..Len(P) /\ SameBlock(snapshots[last - 1], P[last])
  <2>1. last - 1 \in 0..(MaxSlots - 1) /\ (last - 1) + 1 = last
    BY <1>2, <1>9
  <2> QED BY <2>1, <1>10, OwnSnapshot DEF P
<1>12. P[last].end >= stop /\ P[last].end \in Nat
  <2>1. P[last].end \in Nat
    BY <1>11, <1>4 DEF Slot
  <2>2. CASE last = Len(P)
    BY <2>1, <2>2, <1>5, <1>6
  <2>3. CASE last + 1 <= Len(P)
    <3>1. last + 1 \in 1..Len(P) /\ last + 1 > 1 /\ (last + 1) - 1 = last
      BY <2>3, <1>2, <1>4, <1>11
    <3>2. P[last + 1].first = P[(last + 1) - 1].end
      BY <3>1, <1>4 DEF IsHistory
    <3> QED BY <2>1, <2>3, <3>1, <3>2, <1>7
  <2> QED BY <2>1, <2>2, <2>3, <1>2, <1>4, <1>11
<1>13. latest_batch(snapshots[last - 1]) >= expected /\ latest_batch(snapshots[last - 1]) \in Nat
  <2>1. snapshots[last - 1].end = P[last].end
    BY <1>11 DEF SameBlock
  <2> QED BY <2>1, <1>1, <1>12 DEF latest_batch, monus
<1>14. progress.checked < last
  <2> SUFFICES ASSUME progress.checked = last PROVE FALSE
    BY <1>2
  <2>1. progress.checked > 0 /\ last \in 0..progress.checked
    BY <1>1, <1>2, <1>8
  <2>2. Passes(last)
    BY <2>1 DEF ResyncInv
  <2> QED BY <1>1, <1>2, <1>3, <2>2 DEF Passes
<1>15. latest = latest_batch(snapshots[last - 1])
  <2>1. last - 1 \in progress.checked..last
    BY <1>2, <1>9, <1>14
  <2>2. PICK m \in progress.checked..last :
             /\ snapshots[m] # Missing /\ latest = latest_batch(snapshots[m])
             /\ \A n \in (m + 1)..last : snapshots[n] = Missing
    BY <1>10, <2>1 DEF RoundEnds
  <2>3. ~ (last - 1 \in (m + 1)..last)
    BY <1>10, <2>2
  <2>4. m # last
    BY <1>3, <2>2
  <2>5. m = last - 1
    BY <1>2, <1>9, <2>3, <2>4
  <2> QED BY <2>2, <2>5
<1> QED BY <1>1, <1>3, <1>13, <1>15

\* How a task comes to raise an alarm.
LEMMA AlarmPhase ==
    ASSUME ControlInv, RunNext, result' \in {"mismatch", "missing"}, phase' = "returned"
    PROVE  \/ /\ phase = "returned" /\ result = result'
              /\ UNCHANGED <<snapshots, persistent_da>>
           \/ Resync
<1> USE DEF vars, world, files, task
<1>1. CASE \E b \in BOOLEAN : Produce(b)
  BY <1>1 DEF Produce
<1>2. CASE \E root \in {"right", "wrong"} : Replay(root)
  BY <1>2 DEF Replay
<1>3. CASE ApiCloses
  BY <1>3 DEF ApiCloses
<1>4. CASE ManagerExits
  BY <1>4 DEF ManagerExits
<1>5. CASE ManagerCrashes
  BY <1>5 DEF ManagerCrashes
<1>6. CASE KillLands
  BY <1>6 DEF KillLands
<1>7. CASE CopyMockData
  BY <1>7 DEF CopyMockData
<1>8. CASE StartPostgres
  BY <1>8 DEF StartPostgres
<1>9. CASE Spawn
  BY <1>9 DEF Spawn
<1>10. CASE Ready
  BY <1>10 DEF Ready
<1>11. CASE MonitorSlot
  BY <1>11 DEF MonitorSlot
<1>12. CASE FinishManual
  BY <1>12 DEF FinishManual
<1>13. CASE StartSoak
  BY <1>13 DEF StartSoak
<1>14. CASE SoakRollupExits
  BY <1>14 DEF SoakRollupExits, Break
<1>15. CASE SoakTaskFails
  BY <1>15 DEF SoakTaskFails, Break
<1>16. CASE SoakSlot
  BY <1>16 DEF SoakSlot
<1>17. CASE SoakLosesRollup
  BY <1>17 DEF SoakLosesRollup, Break
<1>18. CASE SoakShutdown
  BY <1>18 DEF SoakShutdown, Break
<1>19. CASE StopTimesOut
  BY <1>19 DEF StopTimesOut
<1>20. CASE TermTimesOut
  BY <1>20 DEF TermTimesOut
<1>21. CASE KillTimesOut
  BY <1>21 DEF KillTimesOut, Unwind
<1>22. CASE SoakFails
  BY <1>22 DEF SoakFails, Unwind, ControlInv
<1>23. CASE SoakSucceeds
  BY <1>23 DEF SoakSucceeds
<1>24. CASE SaveMockData
  BY <1>24 DEF SaveMockData
<1>25. CASE Report
  BY <1>25 DEF Report
<1>26. CASE CleanUp
  BY <1>26 DEF CleanUp, ControlInv
<1>27. CASE TaskFails
  BY <1>27 DEF TaskFails, Unwind
<1>28. CASE TaskSeesShutdown
  BY <1>28 DEF TaskSeesShutdown, Unwind
<1>29. CASE Abort
  BY <1>29 DEF Abort, Unwind
<1>30. CASE Return
  BY <1>30 DEF Return
<1>31. CASE Signal
  BY <1>31 DEF Signal
<1>32. CASE HarnessDies
  BY <1>32 DEF HarnessDies
<1>33. CASE RemoveData
  BY <1>33 DEF RemoveData
<1>34. CASE \E k \in {"setup", "test"}, policy \in Policies : Start(k, policy)
  BY <1>34 DEF Start
<1> QED
  BY <1>1, <1>2, <1>3, <1>4, <1>5, <1>6, <1>7, <1>8, <1>9, <1>10, <1>11, <1>12,
     <1>13, <1>14, <1>15, <1>16, <1>17, <1>18, <1>19, <1>20, <1>21, <1>22, <1>23,
     <1>24, <1>25, <1>26, <1>27, <1>28, <1>29, <1>30, <1>31, <1>32, <1>33, <1>34
     DEF RunNext, RollupNext, TaskNext
LEMMA AlarmStep ==
    ASSUME ControlInv, FilesInv, FilesInv', ProgressInv, SnapshotsInv, GenerationsInv, ResyncInv,
           AlarmHasCause, RunNext
    PROVE  AlarmHasCause'
<1> SUFFICES ASSUME result' \in {"mismatch", "missing"}, phase' = "returned" PROVE Cause'
  BY DEF AlarmHasCause, Cause, WentWrong, NeverSaved, ForeignSnapshot, CutShort
<1>1. ASSUME phase = "returned", result = result', UNCHANGED <<snapshots, persistent_da>>
      PROVE  Cause'
  <2>1. Cause
    BY <1>1, AlarmIsCaused
  <2>2. Kept
    BY <1>1, LedgerKept
  <2>3. WentWrong => WentWrong'
    <3>1. DOMAIN ledger = 1..Len(ledger) /\ DOMAIN ledger' = 1..Len(ledger')
      BY DEF FilesInv
    <3>2. Len(ledger) \in Nat /\ Len(ledger') \in Nat
      BY EntryFacts DEF FilesInv
    <3> SUFFICES ASSUME NEW i \in 1..Len(ledger), ledger[i].root = "wrong" PROVE WentWrong'
      BY <3>1 DEF WentWrong
    <3>3. i \in 1..Len(ledger') /\ ledger'[i] = ledger[i]
      BY <2>2, <3>2 DEF Kept
    <3> QED BY <3>1, <3>3 DEF WentWrong
  <2>4. (NeverSaved => NeverSaved') /\ (ForeignSnapshot => ForeignSnapshot') /\ (CutShort => CutShort')
    BY <1>1 DEF NeverSaved, ForeignSnapshot, CutShort, SetupSlots, Batches
  <2> QED BY <2>1, <2>3, <2>4 DEF Cause
<1>2. ASSUME Resync PROVE Cause'
  <2> DEFINE round == resync_round(ledger, snapshots, progress.checked, cursor, progress.latest,
                                   expected_setup_batches(manager_versions))
  <2>1. /\ phase = "resync" /\ manager = "running" /\ cursor < Len(ledger)
        /\ round.outcome \in {"mismatch", "missing"}
        /\ UNCHANGED <<snapshots, persistent_da, ledger>>
    BY <1>2 DEF Resync, Unwind, world, files
  <2>2. PICK last \in progress.checked..cursor : RoundEnds(last, round.outcome, round.latest)
    BY <2>1, RoundFacts
  <2> HIDE DEF round
  <2>3. CASE round.outcome = "mismatch"
    <3>1. snapshots[last] # Missing /\ ~ Passes(last) /\ last \in 0..cursor
      BY <2>2, <2>3 DEF RoundEnds, ProgressInv
    <3>2. Cause
      BY <2>1, <3>1, MismatchHasCause
    <3> QED BY <2>1, <3>2 DEF Cause, WentWrong, NeverSaved, ForeignSnapshot, CutShort,
                             SetupSlots, Batches
  <2>4. CASE round.outcome = "missing"
    <3>1. Cause
      BY <2>1, <2>2, <2>4, MissingHasCause
    <3> QED BY <2>1, <3>1 DEF Cause, WentWrong, NeverSaved, ForeignSnapshot, CutShort,
                             SetupSlots, Batches
  <2> QED BY <2>1, <2>3, <2>4
<1> QED BY <1>1, <1>2, AlarmPhase
-----------------------------------------------------------------------------
(* The state validation worker.                                             *)

LEMMA HeightNat ==
    ASSUME FilesInv
    PROVE  Height \in Nat /\ Len(ledger) \in Nat
           /\ (Len(ledger) > 0 => Height = ledger[Len(ledger)].end) /\ (Len(ledger) = 0 => Height = 0)
<1>1. Len(ledger) \in Nat /\ \A i \in 1..Len(ledger) : ledger[i] \in Slot
  BY EntryFacts DEF FilesInv
<1>2. (ledger = << >>) <=> (Len(ledger) = 0)
  BY EmptyIff DEF FilesInv
<1>3. Len(ledger) > 0 => ledger[Len(ledger)].end \in Nat
  <2>1. Len(ledger) > 0 => Len(ledger) \in 1..Len(ledger)
    BY <1>1
  <2> QED BY <1>1, <2>1 DEF Slot
<1> QED BY <1>1, <1>2, <1>3 DEF Height, Batches

\* The height never falls while the rollup runs.
LEMMA HeightGrows ==
    ASSUME FilesInv, FilesInv', Kept, Alive'
    PROVE  Height <= Height'
<1> DEFINE a == Len(ledger)  b == Len(ledger')
<1>1. /\ Height \in Nat /\ a \in Nat /\ (a > 0 => Height = ledger[a].end) /\ (a = 0 => Height = 0)
  BY HeightNat
<1>2. /\ Height' \in Nat /\ b \in Nat /\ (b > 0 => Height' = ledger'[b].end)
  <2>1. Len(ledger') \in Nat /\ \A i \in 1..Len(ledger') : ledger'[i] \in Slot
    BY EntryFacts DEF FilesInv
  <2>2. (ledger' = << >>) <=> (Len(ledger') = 0)
    BY EmptyIff DEF FilesInv
  <2>3. Len(ledger') > 0 => ledger'[Len(ledger')].end \in Nat
    <3>1. Len(ledger') > 0 => Len(ledger') \in 1..Len(ledger')
      BY <2>1
    <3> QED BY <2>1, <3>1 DEF Slot
  <2> QED BY <2>1, <2>2, <2>3 DEF Height, Batches
<1>3. a <= b /\ (a > 0 => ledger'[a] = ledger[a])
  <2>1. a > 0 => a \in 1..a
    BY <1>1
  <2> QED BY <2>1 DEF Kept
<1>4. IsHistory(mock_da') /\ Executes(ledger', mock_da')
  BY DEF FilesInv
<1>5. Len(mock_da') \in Nat /\ \A i \in 1..Len(mock_da') : mock_da'[i] \in Slot
  BY <1>4, EntryFacts DEF IsHistory
<1>6. CASE a = 0
  BY <1>1, <1>2, <1>6
<1>7. CASE a > 0 /\ a = b
  BY <1>1, <1>2, <1>3, <1>7
<1>8. CASE a > 0 /\ a < b
  <2>1. b <= Len(mock_da') /\ \A i \in 1..b : SameBlock(ledger'[i], mock_da'[i])
    BY <1>4 DEF Executes
  <2>2. a \in 1..b /\ b \in 1..b /\ a \in 1..Len(mock_da') /\ b \in 1..Len(mock_da')
    BY <1>1, <1>2, <1>5, <1>8, <2>1
  <2>3. mock_da'[a].end <= mock_da'[b].first
    BY <1>4, <1>8, <2>2, HistoryOrder
  <2>4. mock_da'[b].first <= mock_da'[b].end
    BY <1>4, <2>2 DEF IsHistory
  <2>5. mock_da'[a].end \in Nat /\ mock_da'[b].first \in Nat /\ mock_da'[b].end \in Nat
    BY <1>5, <2>2 DEF Slot
  <2>6. Height = mock_da'[a].end /\ Height' = mock_da'[b].end
    BY <1>1, <1>2, <1>3, <1>8, <2>1, <2>2 DEF SameBlock
  <2> QED BY <2>3, <2>4, <2>5, <2>6
<1> QED BY <1>1, <1>2, <1>3, <1>6, <1>7, <1>8

LEMMA WaitingFacts ==
    /\ IsWorker(Waiting) /\ Waiting.asked = 0
    /\ \A h \in Nat : /\ Shown(h) \in [root : Nat, heights : Nat]
                       /\ Shown(h).root = h /\ Shown(h).heights = h
BY DEF Waiting, IsWorker, Shown

LEMMA WorkerRunStep ==
    ASSUME ControlInv, FilesInv, FilesInv', WorkerInv, RunStep
    PROVE  WorkerInv'
<1>1. Height \in Nat
  BY HeightNat
<1>2. Height' \in Nat /\ Height' = Batches(ledger')
  <2>1. Len(ledger') \in Nat /\ \A i \in 1..Len(ledger') : ledger'[i] \in Slot
    BY EntryFacts DEF FilesInv
  <2>2. (ledger' = << >>) <=> (Len(ledger') = 0)
    BY EmptyIff DEF FilesInv
  <2>3. Len(ledger') > 0 => ledger'[Len(ledger')].end \in Nat
    <3>1. Len(ledger') > 0 => Len(ledger') \in 1..Len(ledger')
      BY <2>1
    <3> QED BY <2>1, <3>1 DEF Slot
  <2> QED BY <2>1, <2>2, <2>3 DEF Height, Batches
<1>3. CASE phase = "soak" /\ phase' = "soak" /\ manager' = "running"
  <2>1. RunNext /\ UNCHANGED <<api, worker>>
    BY <1>3 DEF RunStep
  <2>2. Kept
    BY <1>3, <2>1, LedgerKept
  <2>3. Height <= Height'
    BY <1>3, <2>2, HeightGrows DEF Alive
  <2>4. /\ worker.asked \in 0..2 /\ worker.root \in Nat /\ worker.heights \in Nat
        /\ api.root \in Nat /\ api.heights \in Nat
    BY DEF WorkerInv, IsWorker
  <2> QED BY <1>1, <1>2, <1>3, <2>1, <2>3, <2>4 DEF WorkerInv
<1>4. CASE ~ (phase = "soak" /\ phase' = "soak" /\ manager' = "running")
  <2> DEFINE h == IF phase' = "soak" THEN Height' ELSE 0
  <2>1. worker' = Waiting /\ api' = Shown(h) /\ h \in Nat
    BY <1>2, <1>4 DEF RunStep
  <2>2. phase' # "soak" => h = 0
    OBVIOUS
  <2>3. phase' = "soak" => h = Height'
    OBVIOUS
  <2> HIDE DEF h
  <2>4. /\ IsWorker(worker') /\ worker'.asked = 0
        /\ api' \in [root : Nat, heights : Nat] /\ api'.root = h /\ api'.heights = h
    BY <2>1, WaitingFacts
  <2> QED BY <1>2, <2>1, <2>2, <2>3, <2>4 DEF WorkerInv
<1> QED BY <1>3, <1>4

\* A worker that has asked one query more.
LEMMA WorkerReads ==
    ASSUME NEW w, IsWorker(w), NEW u, DOMAIN u = DOMAIN w, u = [f \in DOMAIN u |-> u[f]],
           u.asked \in 0..2, u.root \in Nat, u.heights \in Nat, u.failed = w.failed
    PROVE  IsWorker(u)
<1>1. ~ w.failed
  BY DEF IsWorker
<1>2. ~ u.failed
  BY <1>1, Zenon
<1> QED BY <1>2 DEF IsWorker

LEMMA WorkerOwnStep ==
    ASSUME FilesInv, WorkerInv, WorkerQuery \/ send_assert_block_tx \/ ShowRoot \/ ShowHeights
    PROVE  WorkerInv'
<1>1. Height \in Nat
  BY HeightNat
<1>2. phase = "soak" /\ UNCHANGED <<phase, ledger>>
  BY DEF WorkerQuery, send_assert_block_tx, ShowRoot, ShowHeights, vars, world, task
<1>3. Height' = Height
  BY <1>2 DEF Height, Batches
<1>4. /\ IsWorker(worker) /\ api \in [root : Nat, heights : Nat]
      /\ api.heights <= api.root /\ api.root <= Height
      /\ worker.asked >= 1 => worker.heights <= api.root
      /\ worker.asked = 2 => worker.heights <= worker.root /\ worker.root <= Height
  BY <1>2 DEF WorkerInv
<1>5. CASE WorkerQuery
  <2>1. /\ worker.asked + 1 \in 1..2 /\ UNCHANGED api
        /\ worker' = [worker EXCEPT !.asked = worker.asked + 1,
                       ![queries[worker.asked + 1]] = api[queries[worker.asked + 1]]]
    BY <1>5 DEF WorkerQuery, queries
  <2>2. CASE worker.asked = 0
    <3>1. queries[worker.asked + 1] = "heights" /\ worker.asked + 1 = 1
      BY <2>2 DEF queries
    <3>2. worker' = [worker EXCEPT !["asked"] = 1, !["heights"] = api["heights"]]
      BY <2>1, <3>1
    <3>3. IsWorker(worker') /\ worker'.asked = 1 /\ worker'.heights = api.heights
      <4>1. /\ IsWorker(worker) /\ DOMAIN worker = {"asked", "root", "heights", "failed"}
            /\ worker.root \in Nat /\ worker.heights \in Nat /\ api.heights \in Nat
        BY <1>4 DEF IsWorker
      <4>2. /\ DOMAIN worker' = DOMAIN worker
            /\ worker' = [f \in DOMAIN worker' |-> worker'[f]]
            /\ worker'.asked = 1 /\ worker'.heights = api.heights /\ worker'.root = worker.root
            /\ worker'.failed = worker.failed
        BY <3>2, <4>1
      <4> QED BY <4>1, <4>2, WorkerReads
    <3> QED BY <1>1, <1>2, <1>3, <1>4, <2>1, <3>3 DEF WorkerInv
  <2>3. CASE worker.asked = 1
    <3>1. queries[worker.asked + 1] = "root" /\ worker.asked + 1 = 2
      BY <2>3 DEF queries
    <3>2. worker' = [worker EXCEPT !["asked"] = 2, !["root"] = api["root"]]
      BY <2>1, <3>1
    <3>3. /\ IsWorker(worker') /\ worker'.asked = 2 /\ worker'.root = api.root
          /\ worker'.heights = worker.heights
      <4>1. /\ IsWorker(worker) /\ DOMAIN worker = {"asked", "root", "heights", "failed"}
            /\ worker.root \in Nat /\ worker.heights \in Nat /\ api.root \in Nat
        BY <1>4 DEF IsWorker
      <4>2. /\ DOMAIN worker' = DOMAIN worker
            /\ worker' = [f \in DOMAIN worker' |-> worker'[f]]
            /\ worker'.asked = 2 /\ worker'.root = api.root /\ worker'.heights = worker.heights
            /\ worker'.failed = worker.failed
        BY <3>2, <4>1
      <4> QED BY <4>1, <4>2, WorkerReads
    <3> QED BY <1>1, <1>2, <1>3, <1>4, <2>1, <2>3, <3>3 DEF WorkerInv
  <2>4. worker.asked \in {0, 1}
    BY <1>4, <2>1 DEF IsWorker
  <2> QED BY <2>2, <2>3, <2>4
<1>6. CASE send_assert_block_tx
  <2> DEFINE fails == /\ Height < stop_at_height(plan)
                      /\ worker.heights # Height \/ worker.root # Height
                      /\ ~ is_too_late_error(Height, worker.heights)
  <2>1. worker.asked = 2 /\ worker' = [Waiting EXCEPT !.failed = fails] /\ UNCHANGED api
    BY <1>6 DEF send_assert_block_tx, queries
  <2>2. ~ fails
    <3>1. worker.heights \in Nat /\ worker.root \in Nat
      BY <1>4 DEF IsWorker
    <3> QED BY <1>1, <1>4, <2>1, <3>1 DEF is_too_late_error
  <2>3. fails = FALSE
    BY <2>2, Zenon
  <2> HIDE DEF fails
  <2>4. IsWorker(worker') /\ worker'.asked = 0
    BY <2>1, <2>3 DEF Waiting, IsWorker
  <2> QED BY <1>2, <1>3, <1>4, <2>1, <2>4 DEF WorkerInv
<1>7. CASE ShowRoot
  <2>1. api' = [api EXCEPT !.root = Height] /\ UNCHANGED worker
    BY <1>7 DEF ShowRoot
  <2>2. api' \in [root : Nat, heights : Nat] /\ api'.root = Height /\ api'.heights = api.heights
    BY <1>1, <1>4, <2>1
  <2>3. worker.heights \in Nat /\ api.root \in Nat /\ api.heights \in Nat
    BY <1>4 DEF IsWorker
  <2> QED BY <1>1, <1>2, <1>3, <1>4, <2>1, <2>2, <2>3 DEF WorkerInv
<1>8. CASE ShowHeights
  <2>1. api' = [api EXCEPT !.heights = Height] /\ api.root = Height /\ UNCHANGED worker
    BY <1>8 DEF ShowHeights
  <2>2. api' \in [root : Nat, heights : Nat] /\ api'.root = Height /\ api'.heights = Height
    BY <1>1, <1>4, <2>1
  <2> QED BY <1>1, <1>2, <1>3, <1>4, <2>1, <2>2 DEF WorkerInv
<1> QED BY <1>5, <1>6, <1>7, <1>8

-----------------------------------------------------------------------------
(* The theorems.                                                            *)

\* The invariant holds before the first run.
LEMMA InvInit == Init => Inv
<1> SUFFICES ASSUME Init PROVE Inv
  OBVIOUS
<1>1. RunInit /\ api = Shown(0) /\ worker = Waiting /\ phase = "idle" /\ result = "none"
  BY DEF Init, RunInit
<1>2. PassMeansReplayed /\ AlarmHasCause
  BY <1>1 DEF PassMeansReplayed, AlarmHasCause
<1>3. WorkerInv
  BY <1>1, WaitingFacts DEF WorkerInv
<1> QED BY <1>1, <1>2, <1>3, ControlInit, FilesInit, ProgressInit, SnapshotsInit, GenerationsInit,
           ResyncInit DEF Inv, RunInv

\* A step of the programs or of the rollup.
LEMMA RunInvStep ==
    ASSUME RunInv, RunNext
    PROVE  RunInv'
<1>1. ControlInv' /\ FilesInv' /\ ProgressInv' /\ SnapshotsInv' /\ GenerationsInv'
  BY ControlStep, FilesStep, ProgressStep, SnapshotsStep, GenerationsStep DEF RunInv
<1>2. ResyncInv'
  BY <1>1, ResyncStep DEF RunInv
<1>3. PassMeansReplayed' /\ AlarmHasCause'
  BY <1>1, PassStep, AlarmStep DEF RunInv
<1> QED BY <1>1, <1>2, <1>3 DEF RunInv

\* The other steps leave the programs alone.
LEMMA RunInvStutter ==
    ASSUME RunInv, UNCHANGED vars
    PROVE  RunInv'
<1>0. UNCHANGED <<snapshots, persistent_da, mock_da, ledger, manager, pending, run, kind, phase,
                  result, cursor, progress>>
  BY DEF vars, world, files, task
<1>1. ControlInv'
  BY <1>0 DEF RunInv, ControlInv, Alive, NothingOutlives
<1>2. FilesInv'
  BY <1>0 DEF RunInv, FilesInv, Alive
<1>3. ProgressInv' /\ SnapshotsInv'
  BY <1>0 DEF RunInv, ProgressInv, SnapshotsInv
<1>4. GenerationsInv'
  BY <1>0 DEF RunInv, GenerationsInv, PersistentGens, MockGens, SnapshotGens, Alive
<1>5. ResyncInv'
  <2>1. \A n : Passes(n) <=> Passes(n)'
    BY <1>0 DEF Passes
  <2>2. \A m, l : ReadUpTo(m, l) <=> ReadUpTo(m, l)'
    BY <1>0, <2>1 DEF ReadUpTo
  <2> QED BY <1>0, <2>1, <2>2 DEF RunInv, ResyncInv
<1>6. PassMeansReplayed'
  BY <1>0 DEF RunInv, PassMeansReplayed, SetupSlots
<1>7. AlarmHasCause'
  BY <1>0 DEF RunInv, AlarmHasCause, SetupSlots, Batches
<1> QED BY <1>1, <1>2, <1>3, <1>4, <1>5, <1>6, <1>7 DEF RunInv

LEMMA InvStep == Inv /\ [Next]_allvars => Inv'
<1> SUFFICES ASSUME Inv, [Next]_allvars PROVE Inv'
  OBVIOUS
<1>1. CASE RunStep
  <2>1. RunNext /\ RunInv
    BY <1>1 DEF RunStep, Inv
  <2>2. RunInv'
    BY <2>1, RunInvStep
  <2>3. WorkerInv'
    BY <1>1, <2>1, <2>2, WorkerRunStep DEF Inv, RunInv
  <2> QED BY <2>2, <2>3 DEF Inv
<1>2. CASE WorkerQuery \/ send_assert_block_tx \/ ShowRoot \/ ShowHeights
  <2>1. UNCHANGED vars
    BY <1>2 DEF WorkerQuery, send_assert_block_tx, ShowRoot, ShowHeights
  <2>2. RunInv'
    BY <2>1, RunInvStutter DEF Inv
  <2>3. WorkerInv'
    BY <1>2, WorkerOwnStep DEF Inv, RunInv
  <2> QED BY <2>2, <2>3 DEF Inv
<1>3. CASE UNCHANGED allvars
  <2>1. UNCHANGED <<vars, api, worker>>
    BY <1>3 DEF allvars
  <2>2. RunInv'
    BY <2>1, RunInvStutter DEF Inv
  <2>3. WorkerInv'
    BY <2>1 DEF Inv, WorkerInv, Height, Batches, vars, world, task
  <2> QED BY <2>2, <2>3 DEF Inv
<1> QED BY <1>1, <1>2, <1>3 DEF Next

LEMMA InvAlways == Spec => []Inv
BY InvInit, InvStep, PTL DEF Spec

\* No rollup outlives the program: for any number of runs, crashes and
\* signals, a manager that is alive between runs has been sent SIGKILL by the
\* drop of its handle, or SIGTERM by the kernel.
THEOREM NothingOutlivesAlways == Spec => []NothingOutlives
<1>1. Inv => NothingOutlives
  BY DEF Inv, RunInv, ControlInv
<1> QED BY <1>1, InvAlways, PTL

\* A resync of run_test that is over has executed every slot of the setup
\* again, to the state root the setup recorded, whatever files earlier runs,
\* interrupted or not, have left.
THEOREM PassMeansReplayedAlways == Spec => []PassMeansReplayed
<1>1. Inv => PassMeansReplayed
  BY DEF Inv, RunInv
<1> QED BY <1>1, InvAlways, PTL

\* A mismatch or a missing snapshot that run_test reports has one of four
\* causes, and never none.
THEOREM AlarmHasCauseAlways == Spec => []AlarmHasCause
<1>1. Inv => AlarmHasCause
  BY DEF Inv, RunInv
<1> QED BY <1>1, InvAlways, PTL

\* The state validation worker's assertions never fail a run of a sequencer
\* that is right, wherever its blocks start between the worker's queries.
THEOREM NoFalseAssertionAlways == Spec => []NoFalseAssertion
<1>1. Inv => NoFalseAssertion
  BY DEF Inv, WorkerInv, IsWorker, NoFalseAssertion
<1> QED BY <1>1, InvAlways, PTL
=============================================================================
