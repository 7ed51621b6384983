------------------------------ MODULE JsRelayer ------------------------------
(***************************************************************************)
(* The main loop of the deposit relayer, relayer/relayer.mjs: scan         *)
(* Ethereum for DepositLocked events, submit a claim for each, queue the   *)
(* ones that fail for a retry, and keep the position in a JSON file.       *)
(*                                                                         *)
(* The steps are the stretches between two awaits; the answers of the two  *)
(* chains are parameters, given by the module that composes this one with  *)
(* them.  An event is a record of what the contract logged.  A claim that  *)
(* failed is retried from a copy of it, which lives in the state file,     *)
(* through restarts, and is never compared with the chain again.           *)
(***************************************************************************)
EXTENDS Integers, Sequences

CONSTANTS
    START_BACK,         \* blocks to go back when there is no saved position (50)
    SCAN_SPAN           \* blocks per getLogs request (9)

ASSUME RelayerAssumption == START_BACK \in Nat /\ SCAN_SPAN \in Nat \ {0}

VARIABLES
    disk,               \* the state file: a saved state, or what loadState falls back to
    mem,                \* the variable state of main
    pc,
    todo,               \* events or entries the running for-loop has not reached yet
    still,              \* stillPending
    to_block            \* toBlock

\* History: the block after which the relayer has been looking, since it
\* last started without a saved position.
VARIABLE origin

relayerVars == <<disk, mem, pc, todo, still, to_block, origin>>

\* loadState of a missing file, and of one that does not parse.
NoState == [lastBlock |-> 0, claimed |-> {}, pendingRetry |-> << >>]

loadState == disk
saveState(state) == disk' = state

Waiting == {"retry_wait", "scan_wait"}          \* awaiting a claim's answer

\* The entry pendingRetry.push stores for an event; the retry makes
\* syntheticLog of it again, field by field.  Number(log.args.amount) is
\* exact up to MAX_DEPOSIT; the sender, which nothing reads, is left out.
pending(log) ==
    [depositId |-> log.depositId, obscuraRecipient |-> log.obscuraRecipient,
     amount |-> log.amount, blockHash |-> log.blockHash]

\* The deposits a list of events is about.
Queued(list) == {list[i].depositId : i \in 1 .. Len(list)}
-----------------------------------------------------------------------------
RelayerInit ==
    /\ disk = NoState
    /\ mem = NoState
    /\ pc = "down"
    /\ todo = << >>
    /\ still = << >>
    /\ to_block = 0
    /\ origin = 0

\* Start the process; without a position, begin a little before the head.
Boot(latest) ==
    LET fresh == loadState.lastBlock = 0 IN
    /\ pc = "down"
    /\ mem' = IF fresh THEN [loadState EXCEPT !.lastBlock = latest - START_BACK] ELSE loadState
    /\ origin' = IF fresh THEN latest - START_BACK ELSE origin
    /\ pc' = "top"
    /\ UNCHANGED <<disk, todo, still, to_block>>

\* The top of the loop: retry what is queued, if anything.
BeginIteration ==
    /\ pc = "top"
    /\ IF mem.pendingRetry # << >>
         THEN pc' = "retry" /\ todo' = mem.pendingRetry /\ still' = << >>
         ELSE pc' = "poll" /\ UNCHANGED <<todo, still>>
    /\ UNCHANGED <<disk, mem, to_block, origin>>

RetryCall ==
    /\ pc = "retry" /\ todo # << >>
    /\ pc' = "retry_wait"
    /\ UNCHANGED <<disk, mem, todo, still, to_block, origin>>

\* After a claim that went through, or was found on chain already.
RetryDone(outcome) ==
    /\ pc = "retry_wait"
    /\ IF outcome \in {"claimed", "already"}
         THEN mem' = [mem EXCEPT !.claimed = @ \cup {Head(todo).depositId}] /\ UNCHANGED still
         ELSE still' = Append(still, Head(todo)) /\ UNCHANGED mem
    /\ todo' = Tail(todo)
    /\ pc' = "retry"
    /\ UNCHANGED <<disk, to_block, origin>>

\* Mutant: the queue is cleared after a round of retries.
EndRetry_clears ==
    /\ pc = "retry" /\ todo = << >>
    /\ mem' = [mem EXCEPT !.pendingRetry = << >>]
    /\ saveState(mem')
    /\ pc' = "poll"
    /\ UNCHANGED <<todo, still, to_block, origin>>

EndRetry ==
    /\ pc = "retry" /\ todo = << >>
    /\ mem' = [mem EXCEPT !.pendingRetry = still]
    /\ saveState(mem')
    /\ pc' = "poll"
    /\ UNCHANGED <<todo, still, to_block, origin>>

\* The last block of the next request: at most SCAN_SPAN blocks at a time.
toBlock(latest) ==
    IF latest <= mem.lastBlock + SCAN_SPAN THEN latest ELSE mem.lastBlock + SCAN_SPAN

\* getBlockNumber and getLogs: the events of the next blocks, oldest first.
Poll(latest, logs) ==
    /\ pc = "poll"
    /\ IF latest <= mem.lastBlock
         THEN pc' = "top" /\ UNCHANGED <<todo, to_block>>
         ELSE pc' = "scan" /\ to_block' = toBlock(latest) /\ todo' = logs
    /\ UNCHANGED <<disk, mem, still, origin>>

\* One of the two requests throws: the iteration is abandoned.
PollFails ==
    /\ pc = "poll"
    /\ pc' = "top"
    /\ UNCHANGED <<disk, mem, todo, still, to_block, origin>>

\* Mutant: the scan looks at what is claimed only.
ScanCall_queued ==
    /\ pc = "scan" /\ todo # << >>
    /\ IF Head(todo).depositId \in mem.claimed
         THEN todo' = Tail(todo) /\ UNCHANGED pc
         ELSE pc' = "scan_wait" /\ UNCHANGED todo
    /\ UNCHANGED <<disk, mem, still, to_block, origin>>

\* Skip what was claimed, or is queued already.
ScanCall ==
    /\ pc = "scan" /\ todo # << >>
    /\ IF Head(todo).depositId \in mem.claimed \cup Queued(mem.pendingRetry)
         THEN todo' = Tail(todo) /\ UNCHANGED pc
         ELSE pc' = "scan_wait" /\ UNCHANGED todo
    /\ UNCHANGED <<disk, mem, still, to_block, origin>>

\* Mutant: a claim that fails is logged, and forgotten.
ScanDone_forgets(outcome) ==
    /\ pc = "scan_wait"
    /\ mem' = IF outcome \in {"claimed", "already"}
                THEN [mem EXCEPT !.claimed = @ \cup {Head(todo).depositId}] ELSE mem
    /\ saveState(mem')
    /\ todo' = Tail(todo)
    /\ pc' = "scan"
    /\ UNCHANGED <<still, to_block, origin>>

ScanDone(outcome) ==
    /\ pc = "scan_wait"
    /\ mem' = IF outcome \in {"claimed", "already"}
                THEN [mem EXCEPT !.claimed = @ \cup {Head(todo).depositId}]
                ELSE [mem EXCEPT !.pendingRetry = Append(@, pending(Head(todo)))]
    /\ saveState(mem')
    /\ todo' = Tail(todo)
    /\ pc' = "scan"
    /\ UNCHANGED <<still, to_block, origin>>

EndScan ==
    /\ pc = "scan" /\ todo = << >>
    /\ mem' = [mem EXCEPT !.lastBlock = to_block]
    /\ saveState(mem')
    /\ pc' = "top"
    /\ UNCHANGED <<todo, still, to_block, origin>>

Answered(outcome) == RetryDone(outcome) \/ ScanDone(outcome)

\* The process dies.  A write it was in the middle of leaves a file that
\* does not parse, which loadState takes for no file at all.
Crash(torn) ==
    /\ pc # "down"
    /\ torn => pc = "scan_wait" \/ (pc \in {"retry", "scan"} /\ todo = << >>)
    /\ disk' = IF torn THEN NoState ELSE disk
    /\ pc' = "down"
    /\ mem' = NoState /\ todo' = << >> /\ still' = << >> /\ to_block' = 0
    /\ UNCHANGED origin
=============================================================================
