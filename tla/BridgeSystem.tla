---------------------------- MODULE BridgeSystem ----------------------------
(***************************************************************************)
(* The bridge end to end: the contract on Ethereum (EthBridgeV2), the      *)
(* rollup's bridge and pool (ObscuraBridge), and between them the process  *)
(* of relayer/relayer.mjs: its main loop (JsRelayer) and the handlers of   *)
(* its withdrawal server, which run between the loop's awaits.             *)
(*                                                                         *)
(* A transaction to the rollup may be executed and answered, be lost, or   *)
(* be executed after its sender has given up or died; a release is sent to *)
(* the mempool of Ethereum and mined, or reverts, later.  The process may  *)
(* crash between any two steps.  Helios is off: relayer.mjs submits no     *)
(* head updates.  Others call the rollup too: anyone may claim a deposit   *)
(* there is, or withdraw one.  Their claims are taken to be true, as a     *)
(* verified proof makes them; a claim with the mock prefix, which the      *)
(* default build accepts with any inputs, is outside this module.          *)
(***************************************************************************)
EXTENDS ObscuraBridge, EthBridgeV2, JsRelayer

CONSTANTS
    Handlers,               \* withdrawal requests, at most one per handler
    signer1, signer2,       \* the two keys the relayer signs with
    Minutes,                \* readings of Date.now, rounded to a minute
    OtherCalls,             \* what others than the relayer call: "claim", "withdraw"
    MaxCrashes              \* bound of the model

\* The two chains speak of the same deposits.
ASSUME SystemAssumption ==
    /\ DepositIds = 0 .. MaxDeposits - 1
    /\ DepositSums \subseteq DepositAmounts
    /\ ObscuraRecipients \subseteq Recipients \ {Zero32}
    /\ 1 .. MaxBlock + 1 \subseteq EthBlocks
    /\ Users \subseteq EthRecipients
    /\ InitialSlot = 0
    /\ OtherCalls \subseteq {"claim", "withdraw"}

VARIABLES
    net,                    \* rollup transactions nobody waits for any more
    mempool,                \* releases sent to Ethereum
    handlers,               \* handler -> [at, deposit_id, recipient]
    crashes

serverVars == <<net, mempool, handlers, crashes>>
systemVars == <<rollupVars, ethVars, relayerVars, serverVars>>

idle == [at |-> "idle", deposit_id |-> 0, recipient |-> Zero]
-----------------------------------------------------------------------------
SystemInit ==
    /\ BridgeInit
    /\ EthInit
    /\ RelayerInit
    /\ net = {}
    /\ mempool = {}
    /\ handlers = [h \in Handlers |-> idle]
    /\ crashes = 0

\* The DepositLocked event of a deposit.
event(d) ==
    [depositId |-> d, obscuraRecipient |-> deposits[d].obscuraRecipient,
     amount |-> deposits[d].amount, blockHash |-> deposit_block[d]]

\* getLogs: the events of the mined blocks from .. to, in the order of ids.
getLogs(from, to) ==
    LET upto[n \in 0 .. nextDepositId] ==
            IF n = 0 THEN << >>
            ELSE IF from <= deposit_block[n - 1] /\ deposit_block[n - 1] <= to
                   THEN Append(upto[n - 1], event(n - 1))
                   ELSE upto[n - 1]
    IN  upto[nextDepositId]

\* claimDeposit: the public inputs it makes of an event or an entry.
public_inputs(log) ==
    [deposit_id |-> log.depositId, amount |-> log.amount,
     obscura_recipient |-> log.obscuraRecipient,
     bridge_contract |-> BridgeContract, eth_block_hash |-> log.blockHash]

\* The transactions of claimDeposit and submitWithdrawBridge.
ClaimTx(log)     == [call |-> "claim", inputs |-> public_inputs(log)]
WithdrawTx(d, r) == [call |-> "withdraw", deposit_id |-> d, recipient |-> r]

\* The rollup executes a transaction.
Execute(tx) ==
    \/ tx.call = "claim" /\ handle_claim_deposit("OBSbridge", tx.inputs)
    \/ tx.call = "withdraw" /\ handle_withdraw_bridge(tx.deposit_id, tx.recipient)

\* A call that failed may have left its transaction on the way.
MayLinger(tx) == net' = net \/ net' = net \cup {tx}
-----------------------------------------------------------------------------
RelayerPolls == Poll(block_number, getLogs(mem.lastBlock + 1, toBlock(block_number)))

\* The main loop, as far as it needs nothing from the rollup.
RelayerStep ==
    /\ \/ Boot(block_number)
       \/ BeginIteration \/ RetryCall \/ EndRetry
       \/ RelayerPolls
       \/ ScanCall \/ EndScan
    /\ UNCHANGED <<rollupVars, ethVars, serverVars>>

RelayerPollFails == PollFails /\ UNCHANGED <<rollupVars, ethVars, serverVars>>

\* The claim the loop awaits is executed, and the answer arrives.
ClaimExecuted(d) ==
    /\ pc \in Waiting /\ Head(todo).depositId = d
    /\ Execute(ClaimTx(Head(todo)))
    /\ Answered("claimed")
    /\ UNCHANGED <<ethVars, serverVars>>

\* The rollup answers that the deposit is claimed already.
ClaimRejected(d) ==
    /\ pc \in Waiting /\ Head(todo).depositId = d
    /\ deposit_key(BridgeContract, d) \in processed_deposits
    /\ Answered("already")
    /\ UNCHANGED <<rollupVars, ethVars, serverVars>>

ClaimAnswered(d) == ClaimExecuted(d) \/ ClaimRejected(d)

\* Any other error: the request or its answer was lost.
ClaimFails ==
    /\ pc \in Waiting
    /\ Answered("failed")
    /\ MayLinger(ClaimTx(Head(todo)))
    /\ UNCHANGED <<rollupVars, ethVars, mempool, handlers, crashes>>

\* A transaction nobody waits for reaches the rollup, or never does.
LateExecution(tx) ==
    /\ Execute(tx)
    /\ net' = net \ {tx}
    /\ UNCHANGED <<ethVars, relayerVars, mempool, handlers, crashes>>

Lost(tx) ==
    /\ net' = net \ {tx}
    /\ UNCHANGED <<rollupVars, ethVars, relayerVars, mempool, handlers, crashes>>
\* External: somebody else claims a deposit, or withdraws one.
OtherCaller ==
    /\ \E d \in 0 .. nextDepositId - 1, r \in Users :
          \E tx \in {ClaimTx(event(d)), WithdrawTx(d, r)} : tx.call \in OtherCalls /\ Execute(tx)
    /\ UNCHANGED <<ethVars, relayerVars, serverVars>>
-----------------------------------------------------------------------------
\* The withdrawal server: POST /withdraw.
Request(h, d, r) ==
    /\ pc # "down"
    /\ handlers[h].at = "idle"
    /\ handlers' = [handlers EXCEPT ![h] = [at |-> "record", deposit_id |-> d, recipient |-> r]]
    /\ UNCHANGED <<rollupVars, ethVars, relayerVars, net, mempool, crashes>>

\* Step 1 of processWithdrawal: recorded on the rollup, or not; a failure
\* is logged and the release goes ahead.
Recorded(h) ==
    /\ handlers[h].at = "record"
    /\ handlers' = [handlers EXCEPT ![h].at = "release"]
    /\ \/ /\ Execute(WithdrawTx(handlers[h].deposit_id, handlers[h].recipient))
          /\ UNCHANGED net
       \/ /\ MayLinger(WithdrawTx(handlers[h].deposit_id, handlers[h].recipient))
          /\ UNCHANGED rollupVars
    /\ UNCHANGED <<ethVars, relayerVars, mempool, crashes>>

\* The deterministic nonce of releaseOnEthereum, and its two signatures.
withdrawal_nonce(d, r, minute) == <<d, r, minute>>
two_signatures(tx) ==
    LET payload == releaseHash(tx.deposit_id, tx.recipient, tx.nonce)
    IN  <<[signer |-> signer1, payload |-> payload], [signer |-> signer2, payload |-> payload]>>

\* The relayer's calls are among those the contract knows.
ASSUME ReleaseAssumption ==
    \A d \in DepositIds, r \in Users, minute \in Minutes :
        LET tx == [deposit_id |-> d, recipient |-> r, nonce |-> withdrawal_nonce(d, r, minute)]
        IN  tx.nonce \in Nonces /\ two_signatures(tx) \in SignatureLists(releaseHash(d, r, tx.nonce))

\* The gas estimate of writeContract runs the call first.
estimate_passes(tx) ==
    /\ tx.nonce \notin usedWithdrawalNonces
    /\ status(tx.deposit_id) = Locked
    /\ multisig_passes(releaseHash(tx.deposit_id, tx.recipient, tx.nonce), two_signatures(tx))
    /\ usdc[BridgeAddr] >= deposits[tx.deposit_id].amount

\* Step 2: sign and broadcast, unless the call would revert.
releaseOnEthereum(h, minute) ==
    LET d == handlers[h].deposit_id
        r == handlers[h].recipient
        tx == [deposit_id |-> d, recipient |-> r, nonce |-> withdrawal_nonce(d, r, minute)]
    IN  /\ handlers[h].at = "release"
        /\ handlers' = [handlers EXCEPT ![h].at = "done"]
        /\ mempool' = IF estimate_passes(tx) THEN mempool \cup {tx} ELSE mempool
        /\ UNCHANGED <<rollupVars, ethVars, relayerVars, net, crashes>>

\* External: Ethereum includes a release, or drops it as reverted.
ReleaseMined(tx) ==
    /\ releaseMultisig(tx.deposit_id, tx.recipient, tx.nonce, two_signatures(tx))
    /\ mempool' = mempool \ {tx}
    /\ UNCHANGED <<rollupVars, relayerVars, net, handlers, crashes>>

ReleaseReverts(tx) ==
    /\ ~ estimate_passes(tx)
    /\ mempool' = mempool \ {tx}
    /\ UNCHANGED <<rollupVars, ethVars, relayerVars, net, handlers, crashes>>
-----------------------------------------------------------------------------
awaited == (IF pc \in Waiting THEN {ClaimTx(Head(todo))} ELSE {})
           \cup {WithdrawTx(handlers[h].deposit_id, handlers[h].recipient) :
                   h \in {g \in Handlers : handlers[g].at = "record"}}

\* The process dies, with its loop and its handlers; what it awaited may
\* still be on the way.
ProcessCrash(torn) ==
    /\ crashes < MaxCrashes
    /\ crashes' = crashes + 1
    /\ Crash(torn)
    /\ \E some \in SUBSET awaited : net' = net \cup some
    /\ handlers' = [h \in Handlers |-> IF handlers[h].at = "idle" THEN idle
                                       ELSE [handlers[h] EXCEPT !.at = "done"]]
    /\ UNCHANGED <<rollupVars, ethVars, mempool>>

\* The chain: users deposit, while the bound leaves a block for it, and
\* blocks are mined.
EthStep ==
    /\ (block_number < MaxBlock /\ Deposit) \/ MineBlock
    /\ UNCHANGED <<rollupVars, relayerVars, serverVars>>

SystemNext ==
    \/ EthStep
    \/ RelayerStep
    \/ RelayerPollFails
    \/ \E d \in DepositIds : ClaimAnswered(d)
    \/ ClaimFails
    \/ \E tx \in net : LateExecution(tx) \/ Lost(tx)
    \/ OtherCaller
    \/ \E h \in Handlers :
          \/ \E d \in DepositIds, r \in Users : Request(h, d, r)
          \/ Recorded(h)
          \/ \E minute \in Minutes : releaseOnEthereum(h, minute)
    \/ \E tx \in mempool : ReleaseMined(tx) \/ ReleaseReverts(tx)
    \/ \E torn \in BOOLEAN : ProcessCrash(torn)

SystemSpec == SystemInit /\ [][SystemNext]_systemVars

(***************************************************************************)
(* Fairness: blocks keep coming, the process is restarted and keeps        *)
(* running, and neither the Ethereum node nor the rollup fails forever: a  *)
(* scan or a claim that is tried again and again is answered in the end.   *)
(***************************************************************************)
Fairness ==
    /\ WF_systemVars(EthStep /\ MineBlock)
    /\ WF_systemVars(RelayerStep)
    /\ SF_systemVars(RelayerStep /\ RelayerPolls)
    /\ \A d \in DepositIds : SF_systemVars(ClaimAnswered(d))
    /\ WF_systemVars(ClaimFails)

FairSystemSpec == SystemSpec /\ Fairness
-----------------------------------------------------------------------------
on_rollup(d) == deposit_key(BridgeContract, d) \in processed_deposits

(***************************************************************************)
(* The relayer's file never runs ahead of the rollup: every deposit up to  *)
(* the saved position, since the relayer last started afresh, is claimed   *)
(* on the rollup or queued in the same file, and what the file calls       *)
(* claimed is claimed.  So a crash at any point, torn writes included,     *)
(* loses no deposit behind the position.                                   *)
(***************************************************************************)
NothingSkipped ==
    /\ \A d \in 0 .. nextDepositId - 1 :
          origin < deposit_block[d] /\ deposit_block[d] <= disk.lastBlock
             => on_rollup(d) \/ d \in Queued(disk.pendingRetry)
    /\ \A d \in disk.claimed : on_rollup(d)

(***************************************************************************)
(* Whatever was retried, repeated after a crash or left behind by a lost   *)
(* answer, the relayer claims a deposit for what the contract logged: each *)
(* entry of the saved queue, and each claim on the way to the rollup, is   *)
(* of a deposit there is, with its amount, recipient and block; no deposit *)
(* is queued twice, and none the file calls claimed is still to be         *)
(* retried.                                                                *)
(***************************************************************************)
RetriesExact ==
    LET queue == disk.pendingRetry
        Events == {event(d) : d \in 0 .. nextDepositId - 1}
    IN  /\ \A i \in 1 .. Len(queue) :
              /\ queue[i] \in Events /\ queue[i].depositId \notin disk.claimed
              /\ \A j \in 1 .. i - 1 : queue[j].depositId # queue[i].depositId
        /\ \A tx \in net \cup awaited :
              tx.call = "claim" => tx \in {ClaimTx(e) : e \in Events}

(***************************************************************************)
(* Every deposit the relayer is in time for is claimed in the end: through *)
(* crashes, lost requests, lost answers and lost files.  (A relayer that   *)
(* starts afresh is in time when it goes back far enough: START_BACK.)     *)
(***************************************************************************)
DepositsGetClaimed == \A d \in DepositIds : d < nextDepositId ~> on_rollup(d)

\* The states of the abstract specification: per deposit, what each side says.
released_amounts == [i \in 1 .. Len(releases) |-> releases[i].amount]
life_locked    == [d \in DepositIds |-> IF d < nextDepositId THEN deposits[d].amount ELSE 0]
life_credited  == [d \in DepositIds |-> SumOver(claim_amounts, {c \in claims : c.deposit_id = d})]
life_withdrawn == [d \in DepositIds |->
    SumOver(withdrawal_amounts, {w \in DOMAIN withdrawals : withdrawals[w].deposit_id = d})]
life_paid      == [d \in DepositIds |->
    SumOver(released_amounts, {i \in 1 .. Len(releases) : releases[i].depositId = d})]

Life == INSTANCE DepositLifecycle WITH
    Ids <- DepositIds, LockAmounts <- DepositSums,
    locked <- life_locked, credited <- life_credited,
    withdrawn <- life_withdrawn, paid <- life_paid

\* The system implements the lifecycle of a deposit.
Lifecycle == Life!LifeSpec
=============================================================================
