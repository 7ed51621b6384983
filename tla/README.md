# Obscura Network: TLA+ models and proofs

This directory models the parts of the repository that hold state and must
agree with each other: the shielded pool of the rollup, the bridge module on
top of it, the bridge contract on Ethereum, the relayer processes between the
chains, the light client, the sanctions oracle, the wallets with the circuits and
the note encryption, and the acceptance test that decides whether a rollup still
computes what it used to. TLC checks the models on small instances; TLAPS proves, for
all values of the constants, the invariants of the pool, the bridge, the contract
and the three relayers, and that the bridge end to end implements the lifecycle of
a deposit.

    cd tla
    tlc -config MCShieldedPool.cfg MCShieldedPool      # any run of PROJECT.json
    tlapm ObscuraBridge_proofs.tla                     # any module *_proofs

## The system

| Part | Source | State | Operations |
|---|---|---|---|
| Commitment tree | `crates/privacy/src/merkle.rs` | none (functions) | `compute_insert`, `MerkleProof::verify`, `build_proof_paths` |
| Privacy module | `crates/privacy/src/lib.rs`, `types.rs`, `zk/mod.rs` | commitments, filled subtrees, root, ring of roots, nullifiers, supply, compliance counters, sanctions root, encrypted notes | shield, transfer, unshield, update sanctions root |
| Rollup bridge | `crates/zk-bridge/src/module.rs`, `verifier.rs`, `helios.rs` | replay map, claimed amounts, totals, withdrawal records, trusted beacon head, finalized blocks | claim deposit, withdraw, update Helios head |
| Contract V2 | `foundry-tests/src/ObscuraBridgeV2.sol` | signers, threshold, deposits, nonces | deposit, release by multisig, rotate signers |
| JS relayer | `relayer/relayer.mjs` | position, claimed and queued deposits, in memory and in a JSON file | scan and claim, retry, serve withdrawal requests |
| Rust relayer | `crates/zk-bridge/src/relayer.rs`, `beacon_api.rs` | processed deposits, last epoch (memory only) | scan, Helios update, claim |
| Vault relayer | `relayer/relayer-vault.mjs` | shared state file of several chains | watch, prove, release |
| Sanctions oracle | `crates/sanctions-oracle` | sorted Merkle tree of hashed addresses | refresh, root, witness, check |
| Circuits and provers | `crates/provers/sp1/guest-*`, `crates/privacy/src/sp1_prover.rs`, `combined_prover.rs` | none | prove transfer, unshield, compliance, transfer with sanctions, Helios step |
| Note encryption | `crates/privacy/src/encryption.rs`, `keys.rs` | none | derive keys, encrypt for recipient and oracle, scan |
| Beacon client | `crates/zk-bridge/src/beacon_api.rs` | none | finality update, genesis, committee key, witness |
| Acceptance test | `scripts/acceptance-test` | snapshots, mock DA database, rollup state directory, rollup process, container | setup, resync, soak, report, clean up |
| Other contracts | `ObscuraBridge.sol` (V1), `ObscuraBilling.sol`, `ObscuraToken.sol` | deposits; subscriptions; balances | |

How they interact. A user locks USDC in the contract; the relayer sees the
event and submits a claim to the rollup; the bridge module marks the deposit
and, in the same transaction, inserts the recipient's commitment into the
privacy module's tree. From there the note moves by transfers. A withdrawal
request reaches the relayer's HTTP server, which records it on the rollup and
then signs and sends a release to the contract. The sanctions oracle publishes
the root that transfers are checked against. Wallets find their notes in the
ciphertexts the pool keeps, rebuild paths from its flat list of commitments, and
prove transfers and unshields that are executed when the sequencer gets to them.
A relayer moves the trusted beacon head: it reads it from the rollup, fetches a
finality update from a beacon node, builds a witness for the Helios circuit and
submits the result. The acceptance test has two programs: `setup` records a
history of blocks and snapshots of its slots, `acceptance-test` lets a rollup
replay it, compares, and goes on with a soak.

What is hard. Within the rollup transactions are sequential and atomic, so the
hazards are long sequences: the ring of roots wrapping around, the incremental
tree drifting from the rebuild, one replay map with two kinds of keys, u64
sums. Between the chains everything interleaves: requests and answers get lost
or arrive late, the process dies between a claim and the save of its result,
a save is torn, two withdrawal requests run between each other's awaits, blocks
are reorganised before they are final, polls on a timer overlap and write back
stale copies of a shared file, refreshes of the oracle overlap, proofs age while
others insert, relayers submit updates against a head that has moved. The
acceptance test meets signals, a rollup that exits, hangs or gets no answer
through, and files that an interrupted run left behind.
`PROJECT.json` lists these hazards with the lines they concern and the
properties that cover them.

## Modules

| Module | Models |
|---|---|
| `MerkleTree` | the hash tree functions, over an arbitrary `hash_pair` |
| `CommitmentTree` | the tree as state: flat list, filled subtrees, root, ring of roots |
| `ShieldedPool` | the privacy module |
| `ObscuraBridge` | the bridge module, composed with `ShieldedPool`, which it writes to |
| `EthBridgeV2` | the contract, with the token and the blocks as external parts |
| `JsRelayer` | the relayer's main loop, split at its awaits |
| `BridgeSystem` | `EthBridgeV2`, `ObscuraBridge` and `JsRelayer` together, with the withdrawal server, the network and crashes |
| `RustRelayer` | the Rust relayer against `ObscuraBridge`, with a chain that finalizes late and reorganises |
| `VaultRelayer` | the relayer between vaults, with its shared state file |
| `SanctionsTree` | the sorted tree, its witnesses and the sanctions circuit, as functions |
| `SanctionsOracle` | the oracle's server around it |
| `PrivacyCircuits` | the transfer, unshield, compliance and combined programs and their host side, as functions |
| `NoteEncryption` | keys, ciphertexts and their encoding, as functions over symbolic cryptography |
| `ShieldedWallets` | wallets that shield, prove, send and scan, composed with `ShieldedPool` |
| `HeliosCircuit` | the Helios program and its SSZ code, as functions |
| `BeaconApi` | the beacon client's parsing and SSZ code and the witness it builds, as functions |
| `LightClient` | relayers moving the head, composed with `ObscuraBridge`; the beacon chain and its API are external |
| `AcceptanceFiles` | the acceptance test's plan, snapshots and state directory, as functions |
| `AcceptanceRun` | its two programs run after run, with the rollup process, signals and deaths |
| `AcceptanceTest` | `AcceptanceRun` with the state validation worker of the soak |
| `DepositLifecycle` | abstract specification: what is promised of one deposit |
| `Sums` | the sum of a function over a finite set, for the properties about amounts |
| `MC*` | instances for TLC |
| `NatLemmas` | induction, arithmetic of the ring, sums over finite sets |
| `ObscuraBridge_proofs` | theorems about the rollup: the tree, the pool, the bridge |
| `ShieldedWallets_proofs` | theorems about the wallets, their proofs and the auditor |
| `Relayers_proofs` | theorems about the Rust and the vault relayer |
| `BridgeSystem_proofs` | theorems about the contract, the bridge end to end, and the refinements |
| `LightClient_proofs` | theorems about the trusted head and the host's witnesses |
| `SanctionsOracle_proofs` | theorems about the sanctions tree, its circuit and the server |
| `AcceptanceTest_proofs` | theorems about the acceptance test |

Correspondence with the code:

* One action is one accepted transaction. A handler that returns an error is
  reverted by the rollup runtime (and a Solidity call by the EVM), so its
  guards are conjuncts and all of its insertions happen or none does.
* State keeps the names of the code. A map is a function on the keys written
  so far, or a set when it only ever stores `true`. Keys built by `format!` are
  tuples that start with the prefix that tells the kinds apart.
* `u64` balances are numbers below the constant `U64` and additions wrap: the
  release profile does not check overflow. `saturating_sub` is modelled as is.
  The counters of claims, withdrawals, head updates and insertions cannot
  reach their width (one per deposit id, slot or leaf) and do not wrap.
* Hashes are operators that are constants of the modules. For TLC a hash is
  the record of its arguments, so it is injective (in `wallet` a number of its own for
  each argument that occurs); the proofs about the rollup
  assume nothing of it. In the sanctions tree and the beacon chain's SSZ trees a
  hash is such a record in the module itself.
* Proofs are checked as the default build does, by their header: the
  verifiers do not look at the public inputs. Whatever the properties say
  holds without help from the circuits.
* The clock in `handle_transfer` is an input: any reading in `Clock` (the wallets'
  one clock in `ShieldedWallets`).
* History variables (`root_log`, `minted`, `burned`, `reveals`, `claims`,
  `releases`, `origin`) record what happened; no guard reads them.
  `ClaimedRoots`, the roots a transfer may claim, is drawn from `root_log`.
* `JsRelayer` takes one step per stretch of code between two awaits. Its for
  loops are the sequence `todo`; a claim in flight is a `pc` in `Waiting`. The
  state file is `disk`; a torn or missing file is `NoState`, which is what
  `loadState` makes of it. An event is a record of what the contract logged; a
  claim that failed goes into the queue of the state file as a copy of it
  (`pending`), and a retry makes its transaction of that copy, not of the chain.
* In `BridgeSystem` a call to the rollup is executed and answered, or fails
  for its caller; a failed call may leave its transaction in `net`, executed
  or lost later. A transaction carries the public inputs it was made with.
  Others call the rollup as well (`OtherCaller`): they claim any deposit, as a
  verified proof would make them, or withdraw one. A release goes through the gas estimate of `writeContract`
  into `mempool` and is mined or reverts later. A crash loses the loop and the
  handlers; whatever they awaited may linger.
* `RustRelayer` has one block per slot and lets a block's hash stand for its
  roots. Blocks above the finalized height may be dropped and mined anew, with
  other deposits under the same ids. A transaction is executed before its
  answer, later, or never, whatever the answer. Only mock proofs are modelled,
  so what `get_storage_proof` returns is not used. A failure of any request is
  always possible.
* `VaultRelayer` takes one step per stretch of code between two awaits of a
  watcher; `Polls` bounds how many polls of a chain overlap. The vault contract
  is not in the repository; a release pays, reverts, or is not sent, and the
  caller sees a hash or an exception (`Outcomes`).
* In `SanctionsTree` a key is a number, because only the order of the hashed
  addresses matters, and hashes of leaves and nodes are records with different
  fields, as their prefixes make them. Indices wrap at `INDEX_WIDTH`.
* `SanctionsOracle` builds the tree from the list in force when a refresh loads
  it and keeps the list until the refresh has the lock; time counts
  publications.

* In `PrivacyCircuits` a circuit is a predicate on the witness (every assertion of
  the program) and a record of what it commits. The index of a leaf is not
  bounded by the path's length, as in the program, and sums are checked
  where the program checks them.
* In `NoteEncryption` a key stream is an element of the set of masks on a text,
  applying it twice removes it; a Diffie-Hellman secret is the set of the two
  secrets. Lengths are numbers, and the encodings refuse what is too short.
* `ShieldedWallets` has honest wallets: each proves with its own key, and a
  proof of the circuit is what a message holds. A message stays in flight after
  it was executed, so it may be executed again, until one of the three reasons
  in `Retire` holds. A transfer's sanctions proof is for the root and the time
  of its making; the oracle publishes another root (`ListUpdated`) and time
  passes (`Tick`) while it waits, and when the pool would refuse it for either,
  its sender makes that proof again (`Renew`). The prover of the library does
  that part separately, so the rest of the message stays as it was. Wallets and
  nodes read one clock here; `ShieldedPool` by itself takes any reading.
* In `HeliosCircuit` and `BeaconApi` a hash is the pair of its arguments, so
  trees, roots and branches are computed as the code does and compared as terms.
  `LightClient` writes the trees of the beacon chain down by generalized index
  and takes one step per await of `submit_helios_update`. `Answer` says how an
  answer may be flawed; `Mixture` is a witness with parts of several updates.
* `AcceptanceRun` has one phase per stretch of the task; every `?`, panic and
  abort is `Unwind`, which drops the locals as Rust does. A slot of a ledger
  says which run put its block there, its batches, whether its state root is
  the one the setup computed and which run executed it. `HarnessDies` is a
  death without destructors.
* In `AcceptanceTest` the API shows the root of a starting block before its
  heights, and the worker's queries fall in between.

Definitions called mutants (`..._unchecked`, `..._short` and so on) are
deliberately wrong variants of the definition that follows them. No
specification uses them. Each breaks the property `PROJECT.json` names, which
shows that the property notices that mistake.

## Runs

| Run | Bounds | Shows |
|---|---|---|
| `pool` | 4 leaves, ring of 3, U64 = 4, 2 nullifiers, lists with no, one, two and repeated nullifiers, up to 2 outputs | `KnownRootsAreRecent`, `RevealedAtMostOnce`, `SupplyAccounting`, `RootsMatchRebuild`, `PathsVerify`, types |
| `bridge` | 2 deposits of 0, 1 or 3 with U64 = 4, right and wrong contract, 2 blocks, slots 1, 2, 4 with a gap of 1, pool transactions in between | `DepositsLandOnce`, `WithdrawalsBacked`, `TotalsMatchRecords`, `ClaimsAreFinalized`, types |
| `contract` | 3 signers, threshold 1 to 3, 2 deposits, 2 nonces, every list of at most 3 signatures | `ThresholdReachable`, `MultisigExact`, `ReleasedOnce`, `Solvent`, types |
| `relayer` | 2 deposits of 2 or 3, 2 blocks scanned one at a time, 1 crash with or without a torn file, claims by others, fairness | `RetriesExact`, `NothingSkipped`, `DepositsGetClaimed` |
| `withdrawals` | 1 deposit, 2 concurrent requests by 2 users, 2 minutes, 1 crash, claims and withdrawals by others | `Lifecycle` (refinement of `DepositLifecycle`) |
| `rust_reorg` | 2 heights, 1 kind of deposit, 1 reorganisation, 1 restart, 1 transaction in flight | `HeadIsFinal`, `ClaimsSurviveReorgs` |
| `vault` | 2 chains of 2 blocks, 2 polls on one and 1 on the other, 1 restart | `ProcessedWasSent`, `PositionsWereScanned` |
| `vault_release` | 1 chain, 2 polls | `ReleasedAtMostOnce` is violated |
| `sanctions` | every set of 6 addresses and lists with repetitions, 2 publications, 2 refreshes, all indices below 16 | `RootNamesList`, `WitnessesVerify`, `CircuitSound` |
| `wallet` | 2 wallets, 1 of which shields notes of 2, 4 leaves, ring of 2, 2 proofs in flight, 4 notes, payments and change of 0, 1 or 2, 1 publication of the sanctions list, times 1 and 2 with a greatest age of 0, U64 = 5, U32 = 5 | `ValueConserved`, `NotesReachOwners`, `AuditAgrees`, `AggregateBinds`, `ProofsSettle` (fairness) |
| `lightclient` | 4 slots after genesis, finality 1 slot behind, head moves at most 1 slot at a time, 1 relayer with mock proofs and 1 without, 1 failure or flawed answer | `WitnessAccepted`, `HeadIsOneBlock`, `HeadCatchesUp` (fairness) |
| `acceptance` | a plan of 1 version with 3 blocks, ledgers of up to 7 slots, 2 further runs after an empty or a completed setup, 1 crash of the rollup, every 2nd soak slot saved with its batches | `PassMeansReplayed`, `AlarmHasCause`, `NothingOutlives`, `NoFalseAssertion`, `SignalEndsRun` (fairness) |

Why the bounds are enough. The ring has 3 slots and takes 4 insertions, so it
wraps. A tree of 4 leaves has left and right children on both levels and gets
full, in the middle of a transaction too. U64 = 4 makes two deposits overflow.
Slot 4 is out of reach from slot 2 and not from 0, where the first update
switches Helios on. Three signers with all thresholds cover a list that is too
short, just enough, and one with a spare. One block per scan puts the two
deposits of `relayer` in one scan or in two; a crash can fall before, in and
after each save. In `rust_reorg` a deposit can be seen, dropped and replaced by
another with its id, before and after its block is proven. In `vault` a save by
one chain can carry a copy taken before the other had a position. Six
addresses and two sentinels give trees of 2, 4 and 8 leaves with every amount
of padding; indices up to 16 reach past the largest.

In `relayer` and `withdrawals` others may claim, or withdraw, each deposit before,
between or after the relayer's own calls. In `wallet` a note can be split in two or
passed on, and two notes can be spent by one transfer; one note can be wanted by
two proofs, one of which loses only one of its two inputs; a root leaves the ring
while its proof waits, and the volume of the transfers passes U64. The list is
published once, before or after a proof, and a sanctions proof is too old after
one second, so either, or one after the other, makes a waiting message unacceptable
while its inputs are unspent and its root is in the ring. With four notes for four
leaves the tree fills up, but no message fails for want of room alone: that takes a
fifth note, and a run of more than five minutes (`pool` has transfers that do not
fit). In `lightclient` the chain can run two slots ahead of
the head, which is one more than an update may skip, a relayer's head can be
moved by the other between its reading and its submission, and witnesses mix up
to four updates. In `acceptance` two interrupted setups, a setup and a test, or
two tests follow each other over the same files; with a completed setup in the
beginning a test, and another setup before it, can end each way. 3 blocks leave
two for the manual part and one for the soak; 7 slots are those and the three
after the resync.

No run uses symmetry. Deadlock is checked except in `wallet`, where the tree may
be full and nothing left to spend, and in `acceptance`, where the last run ends.

One run ends in a violation. `vault_release`: `relayer-vault.mjs` speaks of a
"unique nonce for this withdrawal (anti-replay)"; the nonce is drawn per call, and
two polls, or a poll after an answer that was lost, release one deposit twice. A
release that reverts is recorded all the same, which is why `ProcessedWasSent`
says no more than that it was sent.

## Known divergences

What the code does and a comment says otherwise, besides `vault_release`. The
models follow the code, and the properties are stated so that they hold of it.

* `module.rs:110` calls `WithdrawBridge` "burn bridged-USDC on Obscura"; the
  handler (line 313) records the withdrawal and changes neither the supply nor
  the nullifiers, so the claimed note stays spendable.
* `ObscuraBridgeV2.sol:14` says "Each relayer independently verifies the rollup
  TX and signs"; `processWithdrawal` (`relayer.mjs:295`) treats a failed
  rollup transaction as non-fatal and signs the release all the same. With two
  requests the recipient paid may differ from the one recorded. This is why
  `DepositLifecycle` does not tie the payment to the withdrawal: the
  refinement that holds is that each of the four steps happens at most once
  and for the right amount.
* The header of `relayer.rs` says that it submits a claim "For each new
  deposit"; a deposit whose request fails is logged (line 225), and the scan
  goes on from the head of the chain. The same header says "Persists processed
  deposit IDs", which are in memory only, and that the deposits of an epoch
  share a proof, while the rollup accepts only the one block an update names
  (`block_accepted`).
* `helios_types.rs:24` describes the new root as that of the beacon header;
  `submit_helios_update` (`relayer.rs:288`) sends the root of the execution
  payload. The circuit commits the header's root, so a proof it makes does not
  agree with the inputs the relayer sends and is refused; only mock proofs pass.
  `HeadIsOneBlock` allows either root, and `HeadCatchesUp` speaks of relayers
  with mock proofs.
* `privacy/src/lib.rs:360` refuses "Note already spent", but looks at every
  nullifier of a transfer before it marks any, and does not look for
  repetitions; `transfer.rs` does not ask for distinct inputs either. A transfer
  that lists one nullifier twice is accepted, by the code and by `handle_transfer`
  of the model. `RevealedAtMostOnce` counts transactions, not list entries, and
  holds; `ValueConserved` holds because wallets name no note twice.
* A later write-back of another watcher's copy can undo marks and positions in the
  state file of `relayer-vault.mjs`. `ProcessedWasSent` and `PositionsWereScanned`
  say that what is in the file was done, not that what was done stays there: a mark
  that is undone means a second release (`vault_release`), a position that is undone
  is replaced by a window before the head (`origin`), and what lies before it is not
  scanned again.
* `helios_types.rs:66` says that past `max_slot_gap` "deposits using the old
  trusted root are rejected"; what is rejected is the update, and deposits of
  blocks proven before stay claimable.
* The guest's `types.rs` speaks of ">= 341" participants; the program asks for
  342 (`helios_step.rs:46`).
* Near the end of a soak a slot that cannot be fetched is skipped ("we just skip
  the batch", acceptance `lib.rs:758`); its snapshot is skipped with it, and the next
  test stops with "Missing snapshot". `AlarmHasCause` counts that as a cause. It
  counts a history that ends before the plan does as another: a setup that loses
  its rollup near the end, a test that is killed and leaves that history behind as
  `mock_da.sqlite`, and a setup that replays it can together produce a "Missing
  snapshot" about a slot that has one when the report is read. The run's bounds are
  too small for it; the proof found it.

## Fairness

Four runs use fairness.

`relayer`. Weak fairness of `MineBlock`: Ethereum
keeps producing blocks (up to the bound). Weak fairness of the loop's own
steps: the process runs on its own timer; nothing in the repository restarts
it after a crash, so the restart is an assumption about its operation, and
crashes are finitely many. Strong fairness of a successful poll and, per
deposit, of an answered claim: each request is repeated as long as it fails,
and the nodes do not fail forever. `DepositsGetClaimed` also relies on the
start window: `START_BACK` is longer than the chain of the instance, as 50
blocks are meant to be longer than an outage. With a shorter window deposits
can be missed after a lost file; `NothingSkipped` is relative to `origin` for
that reason. Nothing is assumed of `OtherCaller`: a deposit that somebody else has
claimed is claimed.

`wallet`. Weak fairness of settling a message, per slot: the sequencer includes
what was submitted, and its sender watches it, makes its sanctions proof again
when the list or the clock asks for it, and gives it up when it cannot pass any
more. Nothing is assumed about the order. `Tick` and `ListUpdated` have no
fairness, and their bounds say that they happen finitely often: a list published
again each time before a message is included would hold it up for ever.

`lightclient`. Weak fairness of each mock relayer's going from one await to the
next: deposits keep coming, so it keeps calling `submit_helios_update`, and
requests answer; stale, flawed and failed answers are bounded by `MaxFailures`.

`acceptance`. Weak fairness of the abort timer, of the program's return, and of
the steps without an await. Nothing is assumed of the rollup, of its API or of
the phases that await them: `SignalEndsRun` rests on the abort alone.

## Proofs

Each proof has the same shape: an inductive invariant that implies the stated
property, one lemma per action that preserves it, and a temporal step that
combines them. The invariants below were checked with TLC before they were
proved.

Assumptions. Nothing is assumed besides the named `ASSUME`s, which TLC evaluates
in the runs. Most say that constants have their types and that bounds are natural
numbers. The others:

* `DeploymentAssumption`: the contract is deployed with distinct signers, at
  least as many as the threshold.
* `SystemAssumption`, `GenesisAssumption`: the two sides of a composition speak
  of the same ids, blocks and recipients, and the rollup starts without a
  trusted head, as the genesis file has it.
* `SignatureAssumption`, `ReleaseAssumption`: a signature is a record of who
  signed what; the calls the relayer makes are among those the contract is
  specified for.
* `WalletAssumption`: amounts fit a u64, a wallet's notes are among the notes of
  the model, the length prefix of a ciphertext (`U16`) holds the 200 bytes of a
  copy, and a count of leaves fits a u32 (`U32 > Capacity`; a full tree has 2^20
  leaves in the code).
* `VaultAssumption` has `blockRange <= START_WINDOW`: the window a poll falls back
  to when it finds no position (50 blocks) is not longer than the one a watcher
  starts with (200), as for all four chains of `relayer-vault.mjs`. It is needed:
  one chain's save can take another's position away, and a poll with a longer
  window would then begin, and save a position, before the block the scan began
  at.

The rollup, `ObscuraBridge_proofs`.

* The pool: `PoolSpec => []PoolInv`, where `PoolInv` is
  `PoolTypeOK`, `RingInv`, `RootsMatchRebuild`, `SiblingsInv`,
  `RevealedAtMostOnce` and `SupplyAccounting`. `RingInv`
  is what makes `KnownRootsAreRecent` inductive: it says in which slot each
  recent root is, and that every slot in use belongs to a recent root. That
  the newest root takes the slot of the one that leaves the window and of no
  other is `InsertRing`, by the arithmetic of `NatLemmas`. `SiblingsInv` is what
  makes `RootsMatchRebuild` inductive: each sibling the next insertion will read
  from the filled subtrees is the node of the rebuilt tree to the left of its
  path. Theorems: `PoolTypeCorrect`, `KnownRootsCorrect`, `RootsAlwaysMatch`,
  `PathsAlwaysAccepted`, `PathsAlwaysVerify`, `NoDoubleSpend`, `SupplyIsAccounted`.
  Only `PathsAlwaysVerify` has a hypothesis, `CollisionFree`: no two pairs have the
  same hash, as in a hash that pairs its arguments. It is the ideal of SHA-256,
  and without it a path may be accepted for another leaf, too.
  The module begins with the tree, for any depth and hash function, and a
  transaction's insertions, for any number of outputs. The recursive functions
  (`pow2`, `zero_value`, the heap, the loops of `compute_insert` and `climb`) are
  first shown to have the values their definitions say. Then, level by level from
  the leaves: nodes right of the last leaf are zero hashes (`HeapRight`), an
  appended leaf changes only the nodes above it (`HeapSame`), and so the loop of
  `compute_insert` goes through the nodes above the new leaf and leaves the right
  siblings behind (`InsertExact`). `PathClimbs` and `ClimbInjective` are about
  `MerkleProof::verify`. Inductions are over sets of naturals (`SetInduction`,
  `LeastElement`), not by an induction principle with a predicate.
* The bridge over it: `BridgeSpec => []BridgeInv`. Besides the stated
  properties the invariant says that `claimed_amounts` agrees with the one
  claim of a deposit, that withdrawal keys stand for exactly the records,
  that every proven slot is above genesis, and that each total is the sum of the
  records modulo `U64` (`SumsPart`). The pool's steps preserve it
  because they only append leaves (`PoolLeavesStay`); the bridge's claim
  preserves the pool's invariant because it is an insertion and a credit like
  any other (`PoolSafeUnderBridge`). That no more goes out than came in, in
  `TotalsAlwaysMatch`, is a sum over an injection: each withdrawal is for the
  amount of a claim of its own. Theorems: `BridgeTypeCorrect`,
  `DepositsLandOnceAlways`, `WithdrawalsAlwaysBacked`, `ClaimsAlwaysFinalized`,
  `TotalsAlwaysMatch`.

The contract, in the first part of `BridgeSystem_proofs`. `EthInv` is `EthTypeOK`, `ThresholdReachable`,
`PayoutPart` (the releases stand for exactly the deposits with status Released,
each with its amount) and `Solvent`, which rests on the sum lemmas: a deposit adds
its amount to both sides, a release takes the amount of one locked deposit from
both. `MultisigExact` follows from `EthInv` in any
state, by induction along the list of signatures (`CountExact`): after i of them
the loop has counted a subset of those who signed, all of them unless it has
already reached the threshold. Theorems: `ContractTypeCorrect`,
`ThresholdAlwaysReachable`, `MultisigAlwaysExact`, `ReleasesHappenOnce`,
`ContractStaysSolvent`.

The Rust relayer, `Relayers_proofs`. `RelayInv` says of everything that was read
from the chain and is still on its way (`Seen`: in the relayer's memory or in a
transaction) that it is true of its block as long as that block is on the chain,
and that a block that was dropped never comes back; of every head update on its
way that it names a finalized block. A claim is accepted for a block taken as
final, which is on the chain for good, so what it claims is true for good.
Theorems: `HeadAlwaysFinal`, `ClaimsAlwaysSurvive`, and `RelayImplementsBridge`:
`RelaySpec => BridgeSpec`, so every theorem about the bridge holds under this
relayer.

The vault relayer, also in `Relayers_proofs`. `GoodFiles` is the set of states of the
file that say nothing wrong: what they call processed was sent, and each chain's
position is one its polls have reached. The file and every stale copy held by a
watcher or a poll is in it, and it only grows, except when a watcher starts a
scan anew, and then no copy has a position of its chain. So any write-back is
harmless to the two properties, in any order. Theorems: `ProcessedAlwaysSent`,
`PositionsAlwaysScanned`.

The wallets, `ShieldedWallets_proofs`. `WalletInv` speaks of the note behind each
commitment (`NoteBehind`), so three of the four theorems have the hypothesis
`NotesCollisionFree`: no two notes have the same hash, the ideal of SHA-256 over the
fields of a note. Its parts:

* `TreePart` of the rollup's proofs: the tree is right, so the paths a wallet
  builds satisfy the guest's loop, which computes what the pool's `climb` does.
* `LeafPart`: every leaf is a note some wallet made, no two with the same salt.
  Without the salts two leaves could be one note, with one nullifier, and
  spending it would strand the other.
* `CipherPart`: the ciphertext stored for a leaf is the one of its own note.
  Entries are keyed by commitment and a later output writes over an earlier one;
  distinct salts are what makes that harmless. `CipherFacts` says what follows:
  the owner and the oracle read the content, no other key opens it.
* `SpentPart`: only nullifiers of leaves were revealed, so a note that becomes a
  leaf is unspent.
* `MsgPart`: a message in flight spends distinct leaves by the nullifiers of their
  owners, its outputs weigh what its inputs do, and as long as its inputs are
  unspent its outputs are not in the tree (`Unused`). The last is what makes a
  second execution harmless: the pool refuses it by its nullifiers, not by its
  outputs. It says nothing of a message's sanctions root and time, nor of the list
  and the clock: `Tick` and `ListUpdated` leave everything else as it is
  (`StillInv`), and `Renew` keeps what a message spends, creates and encrypts
  (`RenewInv`).
* `ApartPart`: two messages in flight share no output, so one's execution leaves
  the other's outputs new.
* `ValuePart`: unspent plus burned is minted, per asset. A transfer moves a sum from
  one set of leaves to another; `SumUnion` and `SumBijection` account for it.
* `AuditPart`: the published totals are the sums over the executed transfers
  modulo `U64`, and there are no more transfers than leaves.

Neither the circuits nor the pool give any of this alone. The circuits compare
neither a spending key with the owner nor the inputs with each other; one key and
one salt per note are the wallets' part, at-most-once is the pool's. Theorems:
`WalletsInvariant`, `ValueIsConserved`, `NotesAlwaysReachOwners`, `AuditAlwaysAgrees`, and
`AggregateAlwaysBinds`, which has no hypothesis.

The bridge end to end, `BridgeSystem_proofs`. `SystemInv` has four parts.
`ChainsPart`: the invariants of contract and rollup, and `CreditsMatch`, that what
was credited was locked, with the same amount and recipient, whoever claimed it.
`LoopPart`: both the file and the memory of `relayer.mjs` are in `Positions` (every
deposit between the beginning of the scan and the position is on the rollup or
queued), what is in a queue was logged by the contract (`Events`), and in the middle
of a retry or a scan what is not yet done is in `todo` or `still`. `ExactPart`: no
deposit is twice in the file's queue, or there and among the claimed ones; in memory
the same, except during a round of retries, in which it holds of `todo` and `still`
together while the old queue stays behind. A crash leaves nothing but the file, and
the scan is repeated from the old position: that a claim which failed before the
crash is not queued a second time rests on the part about the file.
`ServerPart`: transactions and releases on their way are ones the relayer can have
made. `StepKinds` reduces a step of the system to a step of at most one
chain. Theorems: `RetriesAlwaysExact`, `NothingEverSkipped`; `SystemKeepsContract`
(`SystemSpec => EthSpec`) and `SystemKeepsRollup` (`SystemSpec => BridgeSpec`), by
which the theorems about the parts hold of the whole; and
`SystemImplementsLifecycle` (`SystemSpec => Lifecycle`). For the last, the sums in
the refinement mapping have closed forms (`LifeForm`: a deposit is credited its
amount exactly when its key is in the replay map, and so on), and each call moves
one of the four amounts of one deposit from 0 to its value.

The acceptance test, `AcceptanceTest_proofs`. `Inv` has one part for each kind of
state. `ControlInv`: which manager each phase can meet and which signal it has
been sent, which is `NothingOutlives` carried through every way out.
`FilesInv`: a history is a sequence of batch ranges, the ledger executes that of
`mock_da`, and a test's `mock_da` continues the setup's. `GenerationsInv`: two
entries for the same slot made by the same run are the same block, wherever a
killed run has left them; it is what lets `AlarmHasCause` conclude from a
mismatch that something really differs. `SnapshotsInv`: a snapshot is right and
holds all the batches of its slot or none. `ResyncInv`: what the resync loop has
counted was compared; `PassMeansReplayed` follows because the last batch it
waits for cannot be among those of a later slot. `WorkerInv` orders the answers
the worker holds and those the API shows, by which `NoFalseAssertion` holds
wherever blocks are produced between its queries. Assumption: `RunAssumption`, the
plan has at least two batches and more slots than may lack a snapshot. Theorems:
`NothingOutlivesAlways`, `PassMeansReplayedAlways`, `AlarmHasCauseAlways`,
`NoFalseAssertionAlways`.

The light client, `LightClient_proofs`. First the operators: the trees and branches
of the consensus specification, the levels `merkle_root_vec` goes through, and the
loop of `verify_merkle_branch` have the values their definitions say
(`NodesExist`, `LevelsExist`, `AscentExists`); the branches of a block verify
(`FinalityBranchVerifies`, `BodyBranchVerifies`), the host's root over 32 leaves is
the tree's, and its branch for the block hash verifies (`RootOf32`,
`HashBranchVerifies`); a root determines the leaves under it (`RootHasLeaf`,
`BranchRootUnique`). Then `LightInv`: every block of the chain is made as `BlockOK`
says, of two blocks or more with the finalized root in its state; what a relayer
holds was made from an answer about that chain; the head is one block. Any
accepted mixture is of one block (`MixtureIsOneBlock`): the payload's branch leads
to one body root, which is of one slot, and the block hash's branch to one payload
root. A flawed answer either fails to parse or has the payload of the update
(`AnswerPayload`), which is what keeps mock proofs harmless to the head.
Assumptions: `LightClientAssumption` (a block is finalized by a later one, and the
rollup starts at slot 0, as the genesis file has it) and `ChainAssumption` (keys and
signatures are not all zeroes). SHA-256 is injective in the model. Theorems:
`HeadAlwaysOneBlock`, `WitnessAlwaysAccepted`.

The sanctions oracle, `SanctionsOracle_proofs`. First the operators: `ascending`
lists a set in order (`Ascending`, by ranks: `RankExists`, `RankGrows`), so the
leaves are the keys of the list between the sentinels, then the upper sentinel,
2^d of them (`SortedLeaves`); the levels of `build` and the loop of the circuit's
`verify_merkle_proof` have the values their definitions say (`LevelsExist`,
`ClimbExists`). A root determines depth and leaves, from the top level down
(`LevelsAgree`, `NoDeeper`, `RootDetermines`), and so the set of addresses
(`SameRoot`). `partition_point` finds the neighbours of a key (`Position`), whose
proofs verify (`InclusionVerifies`). Conversely whatever verifies, with a proof of
any length and any index, is the leaf at that index modulo the number of leaves
(`VerifiedLeaf`); that number divides the width of an index (`Pow2Divides`), so the
second leaf of a witness is the next one or, after a wrap, the lower sentinel, and
no key lies between (`NoForgery`). Then the server: `OracleInv` says that what is
served, and what each request holds, is a published list, no later than the time
that goes with it. Assumptions: `KeysAssumption` (distinct addresses have distinct
keys, between the sentinels) and `WidthAssumption` (an index is a power of two wide,
2^64 in the code, and a list has fewer addresses than half of that). Theorems:
`OracleRootNamesList`, `OracleWitnessesVerify`, `OracleCircuitSound`.

Only model-checked:

* Liveness, which the prover does not reach: `DepositsGetClaimed`, `ProofsSettle`,
  `HeadCatchesUp`, `SignalEndsRun`. Every invariant of a passing run is a theorem,
  and so is the refinement.
* `ReleasedAtMostOnce`, which does not hold (`vault_release`).

## Not modelled

* The deposit circuit (`guest-bridge`): RLP and Patricia tries. XML, hex and
  JSON as text. Signatures of the sync committee are a flag of the witness.
* The SP1 provers: a proof of a circuit is its committed values. The default
  verifier does not look at public inputs at all, so what `ValueConserved` says of
  messages that carry what their proofs commit to is enforced only by a build that
  verifies them. Helios accepts its mock prefix in every build (`helios.rs:33`):
  `HeadIsOneBlock` is about relayers that send what the API answered, and for
  those without mock proofs also about the circuit.
* Dishonest wallets. The transfer program neither asks for distinct inputs nor
  ties the spending key to the note's owner, and the unshield program has no
  inclusion proof. `ShieldedWallets` is about wallets that use the provers as
  they are meant to be used; an input named twice is listed under Known
  divergences. No message of the pool carries a combined proof yet:
  `AggregateBinds` is about the verifier.
* Untrue claims. In `BridgeSystem` others claim and withdraw what the relayer
  could, with inputs that are true of a deposit. The mock prefix makes the default
  build accept any inputs, from anybody; `Lifecycle`, `RetriesExact` and the
  theorems about the whole do not speak of such calls, `ObscuraBridge` by itself
  does. Nobody but the relayer holds the two signing keys of the contract.
* The rollback of a failed call. The rollup runtime undoes what a handler wrote
  before its error (a transfer whose second output finds the tree full, for
  example); the models have it as a guard of the whole call.
* Deposits that `relayer.rs` drops after a failed claim stay dropped; no property
  says that it claims everything.
* Failing disk writes of the relayers, a torn state file of the vault relayer
  (every later poll fails), reorganisations under the JavaScript relayer, and
  nodes that answer `getLogs` from an older head than `getBlockNumber`.
* The processes the rollup manager starts in its process group. `NothingOutlives`
  is about the manager: when the program dies without destructors, the kernel's
  signal reaches the manager alone.
* Of the acceptance test: the EVM workers (`evm_soak.rs`: load, no verdict), the
  throughput figures (a report may fail), building and caching of binaries, the
  policy that ignores existing state, the -wal and -shm files of SQLite, and a
  run started while the manager of a killed one is still dying.
* `update_config` of the bridge module (no message reaches it), `autoShield`
  of the relayer (nothing calls it), REST queries, events, views.
* The rollup node, the state transition glue, SDK, dApp, other scripts and
  examples.
* The constructor of `ObscuraBridgeV2` accepts duplicate signers, with which
  the threshold may be out of reach; `DeploymentAssumption` excludes them.

## Plan

Done: the pool, the rollup bridge, contract V2, the three relayers, the
sanctions oracle, the circuits with wallets and encryption, the light client and
the acceptance test, and the proofs of every safety property about them. To do,
in this order:

1. `Billing`, `Token` and the V1 contract.
2. `ReplicaReplay`: two nodes with different clocks execute one batch.
