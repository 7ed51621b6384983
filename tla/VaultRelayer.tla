---------------------------- MODULE VaultRelayer ----------------------------
(***************************************************************************)
(* The relayer between the vaults of several chains,                       *)
(* relayer/relayer-vault.mjs.  For each chain a watcher polls on a timer,  *)
(* whether or not its last poll has ended; a poll fetches a range of       *)
(* blocks and releases each deposit in it on another chain.  All of them   *)
(* share one JSON file, which is loaded, changed across awaits, and        *)
(* written back whole.                                                     *)
(*                                                                         *)
(* A step is what runs between two awaits.  External: the chains, the      *)
(* vault contracts and the choice of a destination, which is found or not. *)
(***************************************************************************)
EXTENDS Integers, Sequences, FiniteSets

CONSTANTS
    Chains,
    Polls(_),               \* polls of a chain that can be under way at a time
    START_WINDOW,           \* 200 in the code
    blockRange,             \* 50 in the code
    MaxBlock, MaxReboots, MaxReleases  \* bounds of the model

\* In the code every chain has the same block range, smaller than the window.
ASSUME VaultAssumption == START_WINDOW \in Nat /\ blockRange \in Nat /\ blockRange <= START_WINDOW

VARIABLES
    file,                   \* the state file: [processed, lastBlock]
    boot,                   \* per chain: what loadState gave watchChain, while it waits
    poll,                   \* per chain and poll: the await it is at
    block,                  \* external: number of the latest block of each chain
    locked,                 \* external: the deposits, [chain, id, block]
    releases,               \* external: how often each deposit was released
    reboots

\* History: the deposits some poll has fetched, those for which a release
\* was sent, and the block from which each chain has been scanned since its
\* position was last made up.
VARIABLES fetched, sent, origin

vaultVars == <<file, boot, poll, block, locked, releases, reboots, fetched, sent, origin>>

Missing == -1                           \* no lastBlock_ entry for the chain
Idle    == [at |-> "idle"]
Done    == [at |-> "done"]
key(e)  == <<e.chain, e.id>>

\* When the process starts, every watcher loads the file before any of
\* them waits; those that find their position go on to poll.
watch(f) == [c \in Chains |-> IF f.lastBlock[c] = Missing THEN [at |-> "init", copy |-> f] ELSE Done]

VaultInit ==
    /\ file = [processed |-> {}, lastBlock |-> [c \in Chains |-> Missing]]
    /\ boot = watch(file)
    /\ poll = [c \in Chains |-> [p \in Polls(c) |-> Idle]]
    /\ block = [c \in Chains |-> 1]
    /\ locked = {}
    /\ releases = [k \in {} |-> 0]
    /\ reboots = 0
    /\ fetched = {} /\ sent = {}
    /\ origin = [c \in Chains |-> 0]

\* External: a block, with or without a deposit.
NewBlock(c, deposit) ==
    /\ block[c] < MaxBlock
    /\ block' = [block EXCEPT ![c] = @ + 1]
    /\ locked' = IF deposit
                   THEN locked \cup {[chain |-> c, block |-> block[c] + 1,
                                      id |-> Cardinality({e \in locked : e.chain = c})]}
                   ELSE locked
    /\ UNCHANGED <<file, boot, poll, releases, reboots, fetched, sent, origin>>
-----------------------------------------------------------------------------
\* watchChain has the block number, writes its copy back, and starts polling.
BootDone(c) ==
    LET start == IF block[c] > START_WINDOW THEN block[c] - START_WINDOW ELSE 0 IN
    /\ boot[c].at = "init"
    /\ file' = [boot[c].copy EXCEPT !.lastBlock[c] = start]
    /\ boot' = [boot EXCEPT ![c] = Done]
    /\ origin' = [origin EXCEPT ![c] = start]
    /\ UNCHANGED <<poll, block, locked, releases, reboots, fetched, sent>>

BootFails(c) ==
    /\ boot[c].at = "init"
    /\ boot' = [boot EXCEPT ![c] = Done]
    /\ UNCHANGED <<file, poll, block, locked, releases, reboots, fetched, sent, origin>>

lower(n) == IF n > blockRange THEN n - blockRange ELSE 0

fromBlock(c) ==
    LET saved == IF file.lastBlock[c] # Missing THEN file.lastBlock[c] ELSE lower(block[c])
    IN  IF saved > block[c] THEN block[c] - blockRange ELSE saved

toBlock(from, latest) == IF from + blockRange > latest THEN latest ELSE from + blockRange

\* getBlockNumber has answered: choose the range and ask for its events.
BeginPoll(c, p) ==
    /\ boot[c] = Done
    /\ poll[c][p].at = "idle"
    /\ poll' = [poll EXCEPT ![c][p] = [at |-> "getLogs", from |-> fromBlock(c),
                                       to |-> toBlock(fromBlock(c), block[c])]]
    /\ origin' = IF file.lastBlock[c] = Missing THEN [origin EXCEPT ![c] = fromBlock(c)] ELSE origin
    /\ UNCHANGED <<file, boot, block, locked, releases, reboots, fetched, sent>>

PollFails(c, p) ==
    /\ poll[c][p].at = "getLogs"
    /\ poll' = [poll EXCEPT ![c][p] = Idle]
    /\ UNCHANGED <<file, boot, block, locked, releases, reboots, fetched, sent, origin>>

\* Mutant: one block too many.
position_after_next(to) == to + 2

position_after(to) == to + 1

(***************************************************************************)
(* The loop over the events with the file as it is then: processed ones    *)
(* are passed over, up to the next await or to the end, where the position *)
(* is saved.                                                               *)
(***************************************************************************)
Continue(c, p, todo, to, f) ==
    LET open == {e \in todo : key(e) \notin f.processed}
        next == CHOOSE e \in open : \A d \in open : e.id <= d.id
    IN  IF open = {}
          THEN /\ file' = [f EXCEPT !.lastBlock[c] = position_after(to)]
               /\ poll' = [poll EXCEPT ![c][p] = Idle]
          ELSE /\ file' = f
               /\ poll' = [poll EXCEPT ![c][p] = [at |-> "findDestChain", deposit |-> next, copy |-> f,
                                                  rest |-> {e \in todo : e.id > next.id}, to |-> to]]

GotLogs(c, p) ==
    LET t    == poll[c][p]
        logs == {e \in locked : e.chain = c /\ t.from <= e.block /\ e.block <= t.to}
    IN  /\ t.at = "getLogs"
        /\ Continue(c, p, logs, t.to, file)
        /\ fetched' = fetched \cup {key(e) : e \in logs}
        /\ UNCHANGED <<boot, block, locked, releases, reboots, sent, origin>>

FoundDest(c, p) ==
    /\ poll[c][p].at = "findDestChain"
    /\ poll' = [poll EXCEPT ![c][p].at = "writeContract"]
    /\ UNCHANGED <<file, boot, block, locked, releases, reboots, fetched, sent, origin>>

NoDest(c, p) ==
    LET t == poll[c][p] IN
    /\ t.at = "findDestChain"
    /\ Continue(c, p, t.rest, t.to, file)
    /\ UNCHANGED <<boot, block, locked, releases, reboots, fetched, sent, origin>>

\* The vault pays: the nonce is drawn anew for each call, so nothing on
\* chain connects two releases of one deposit.
paid(k) == IF k \in DOMAIN releases THEN releases[k] ELSE 0
pay(k)  == /\ paid(k) < MaxReleases
           /\ releases' = [j \in DOMAIN releases \cup {k} |-> IF j = k THEN paid(k) + 1 ELSE releases[j]]

(***************************************************************************)
(* What becomes of writeContract.  The gas is given, so nothing is         *)
(* estimated: a hash comes back when the transaction is sent, whether it   *)
(* then pays or reverts.  The call throws when the transaction was not     *)
(* sent, or when the answer to it is lost.                                 *)
(***************************************************************************)
Outcomes == {"paid", "reverted", "not sent", "answer lost"}

\* Mutant: a release is recorded whatever became of the call.
returns_hash_always(outcome) == TRUE

returns_hash(outcome) == outcome \in {"paid", "reverted"}

\* Recorded in the copy loaded before the awaits, which is written back.
Release(c, p, outcome) ==
    LET t == poll[c][p]
        k == key(t.deposit)
    IN  /\ t.at = "writeContract"
        /\ IF outcome \in {"paid", "answer lost"} THEN pay(k) ELSE UNCHANGED releases
        /\ sent' = IF outcome = "not sent" THEN sent ELSE sent \cup {k}
        /\ Continue(c, p, t.rest, t.to,
                    IF returns_hash(outcome) THEN [t.copy EXCEPT !.processed = @ \cup {k}] ELSE file)
        /\ UNCHANGED <<boot, block, locked, reboots, fetched, origin>>

\* The process dies, and starts again from its file.
Reboot ==
    /\ reboots < MaxReboots
    /\ reboots' = reboots + 1
    /\ boot' = watch(file)
    /\ poll' = [c \in Chains |-> [p \in Polls(c) |-> Idle]]
    /\ UNCHANGED <<file, block, locked, releases, fetched, sent, origin>>
-----------------------------------------------------------------------------
VaultNext ==
    \/ \E c \in Chains :
          \/ \E deposit \in BOOLEAN : NewBlock(c, deposit)
          \/ BootDone(c) \/ BootFails(c)
          \/ \E p \in Polls(c) :
                \/ BeginPoll(c, p) \/ PollFails(c, p) \/ GotLogs(c, p)
                \/ FoundDest(c, p) \/ NoDest(c, p)
                \/ \E outcome \in Outcomes : Release(c, p, outcome)
    \/ Reboot

VaultSpec == VaultInit /\ [][VaultNext]_vaultVars
-----------------------------------------------------------------------------
\* The copies of the file: on disk, and held across an await.
Copies == {file} \cup {boot[c].copy : c \in {c \in Chains : boot[c].at = "init"}}
          \cup UNION {{poll[c][p].copy : p \in {p \in Polls(c) : poll[c][p].at \in {"findDestChain", "writeContract"}}}
                        : c \in Chains}

(***************************************************************************)
(* No copy of the state, however stale and whenever it is written back,    *)
(* calls a deposit processed for which no release was sent: a poll never   *)
(* skips a deposit that nobody has tried to pay.                           *)
(***************************************************************************)
ProcessedWasSent == \A f \in Copies : f.processed \subseteq sent

(***************************************************************************)
(* A saved position never runs ahead of the polls: every deposit between   *)
(* the block a chain's scan began at and its position was fetched, though  *)
(* polls overlap, positions are written back stale and go backwards, and   *)
(* one chain's save takes another's position away.                         *)
(***************************************************************************)
PositionsWereScanned ==
    \A e \in locked :
        origin[e.chain] <= e.block /\ e.block < file.lastBlock[e.chain] => key(e) \in fetched

(***************************************************************************)
(* "unique nonce for this withdrawal (anti-replay)" (relayer-vault.mjs): a *)
(* deposit is released at most once.                                       *)
(***************************************************************************)
ReleasedAtMostOnce == \A k \in DOMAIN releases : releases[k] <= 1
=============================================================================
