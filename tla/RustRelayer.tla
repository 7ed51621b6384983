----------------------------- MODULE RustRelayer -----------------------------
(***************************************************************************)
(* The relayer of crates/zk-bridge/src/relayer.rs between an Ethereum that *)
(* finalizes blocks late and may reorganise the others, and the bridge     *)
(* module of the rollup: it scans up to the head, moves the trusted beacon *)
(* head once per epoch, and submits a claim for each deposit it sees.  It  *)
(* keeps nothing on disk.                                                  *)
(*                                                                         *)
(* External: the chain, one block per beacon slot, at most one deposit in  *)
(* a block, a block's number standing for its slot, and its hash for the   *)
(* roots that go with it (the relayer submits the execution payload's root *)
(* as the new beacon root); and the rollup's RPC, which may execute a      *)
(* transaction at once, later or never, whatever it answers.               *)
(***************************************************************************)
EXTENDS ObscuraBridge

CONSTANTS
    START_BLOCK, SLOTS_PER_EPOCH,
    DepositChoices,         \* deposits users make: [amount, recipient]
    NoDeposit,
    MaxHeight, MaxReorgs, MaxRestarts, MaxInFlight  \* bounds of the model

ASSUME RustRelayerAssumption ==
    /\ START_BLOCK \in Nat /\ SLOTS_PER_EPOCH \in Nat \ {0}
    /\ MaxHeight \in Nat /\ MaxReorgs \in Nat
    /\ EthBlocks = (1 .. MaxHeight) \X (0 .. MaxReorgs)

\* The rollup starts without a head, as in HeliosConfig::default() and the
\* genesis file, and takes what this chain can make the relayer submit.
ASSUME GenesisAssumption ==
    /\ InitialSlot = 0
    /\ 1 .. MaxHeight \subseteq Slots /\ 0 .. MaxHeight \subseteq DepositIds
    /\ EthBlocks \cup {InitialBeaconRoot, Zero32} \subseteq BeaconRoots
    /\ DepositChoices \subseteq [amount : DepositAmounts, recipient : Recipients]

VARIABLES
    chain,                  \* height -> [hash, deposit]
    finalized,              \* height of the finalized block
    reorgs,
    net,                    \* transactions the rollup has not executed yet
    rpc,                    \* the await the relayer is at
    from_block, last_helios_epoch,          \* variables of run
    processed,
    latest, logs, head,     \* variables of scan_and_relay and submit_helios_update
    restarts

chainVars   == <<chain, finalized, reorgs>>
runVars     == <<from_block, last_helios_epoch, processed>>
relayerVars == <<rpc, runVars, latest, logs, head, restarts>>
relayVars   == <<rollupVars, chainVars, net, relayerVars>>
-----------------------------------------------------------------------------
\* The id the contract gives to the deposit in block h.
deposit_id(h) == Cardinality({g \in 1 .. h - 1 : chain[g].deposit # NoDeposit})

event(h) == [deposit_id |-> deposit_id(h), amount |-> chain[h].deposit.amount,
             obscura_recipient |-> chain[h].deposit.recipient, block_hash |-> chain[h].hash]

get_deposit_events(from, to) ==
    LET upto[h \in 0 .. Len(chain)] ==
            IF h = 0 THEN << >>
            ELSE IF from <= h /\ h <= to /\ chain[h].deposit # NoDeposit
                   THEN Append(upto[h - 1], event(h)) ELSE upto[h - 1]
    IN  upto[Len(chain)]

Mine(deposit) ==
    /\ Len(chain) < MaxHeight
    /\ chain' = Append(chain, [hash |-> <<Len(chain) + 1, reorgs>>, deposit |-> deposit])
    /\ UNCHANGED <<rollupVars, finalized, reorgs, net, relayerVars>>

Finalize ==
    /\ finalized < Len(chain)
    /\ finalized' = finalized + 1
    /\ UNCHANGED <<rollupVars, chain, reorgs, net, relayerVars>>

\* The blocks from height h on are dropped, for others to take their place.
Reorg(h) ==
    /\ reorgs < MaxReorgs
    /\ finalized < h /\ h <= Len(chain)
    /\ chain' = SubSeq(chain, 1, h - 1)
    /\ reorgs' = reorgs + 1
    /\ UNCHANGED <<rollupVars, finalized, net, relayerVars>>
-----------------------------------------------------------------------------
NoHead == [root |-> Zero32, slot |-> 0, new_slot |-> 0]

RelayInit ==
    /\ BridgeInit
    /\ chain = << >> /\ finalized = 0 /\ reorgs = 0
    /\ net = {}
    /\ rpc = "get_latest_block"
    /\ from_block = START_BLOCK /\ last_helios_epoch = 0 /\ processed = {}
    /\ latest = 0 /\ logs = << >> /\ head = NoHead
    /\ restarts = 0

\* scan_and_relay returned: the next scan starts after the block it names.
ScanOk(last_block) ==
    /\ from_block' = last_block + 1
    /\ rpc' = "get_latest_block"

get_latest_block ==
    /\ rpc = "get_latest_block"
    /\ latest' = Len(chain)
    /\ IF from_block > Len(chain)
         THEN ScanOk(Len(chain))
         ELSE rpc' = "get_deposit_events" /\ UNCHANGED from_block
    /\ UNCHANGED <<rollupVars, chainVars, net, last_helios_epoch, processed, logs, head, restarts>>

ScanFails ==
    /\ rpc \in {"get_latest_block", "get_deposit_events"}
    /\ rpc' = "get_latest_block"
    /\ UNCHANGED <<rollupVars, chainVars, net, runVars, latest, logs, head, restarts>>

current_epoch == latest \div SLOTS_PER_EPOCH

GetDepositEvents ==
    /\ rpc = "get_deposit_events"
    /\ logs' = get_deposit_events(from_block, latest)
    /\ rpc' = IF logs' # << >> /\ current_epoch > last_helios_epoch THEN "get_helios_state" ELSE "relay"
    /\ UNCHANGED <<rollupVars, chainVars, net, runVars, latest, head, restarts>>

get_helios_state == [root |-> trusted_beacon_root, slot |-> trusted_slot, new_slot |-> 0]

\* The rollup's head, or zeroes when it does not answer.
GetHeliosState ==
    /\ rpc = "get_helios_state"
    /\ head' \in {get_helios_state, NoHead}
    /\ rpc' = "get_finality_update"
    /\ UNCHANGED <<rollupVars, chainVars, net, runVars, latest, logs, restarts>>

HeliosDone(ok) ==
    /\ last_helios_epoch' = IF ok THEN current_epoch ELSE last_helios_epoch
    /\ rpc' = "relay"

\* Mutant: the attested header is taken for the finalized one.
finalized_slot_attested == Len(chain)

finalized_slot == finalized

\* The update fetched, the genesis, the witness: ready to submit, or done.
GetFinalityUpdate ==
    /\ rpc = "get_finality_update"
    /\ head' = [head EXCEPT !.new_slot = finalized_slot]
    /\ IF finalized_slot <= head.slot
         THEN HeliosDone(TRUE)
         ELSE rpc' = "submit_helios_update" /\ UNCHANGED last_helios_epoch
    /\ UNCHANGED <<rollupVars, chainVars, net, from_block, processed, latest, logs, restarts>>

FinalityUpdateFails ==
    /\ rpc = "get_finality_update"
    /\ HeliosDone(FALSE)
    /\ UNCHANGED <<rollupVars, chainVars, net, from_block, processed, latest, logs, head, restarts>>
-----------------------------------------------------------------------------
Execute(tx) ==
    \/ tx.call = "helios" /\ handle_update_helios_head("OBShelios", tx.inputs)
    \/ tx.call = "claim" /\ handle_claim_deposit("OBSbridge", tx.inputs)

\* A transaction is sent: executed before the answer, on its way, or lost.
Send(tx) ==
    \/ Execute(tx) /\ UNCHANGED net
    \/ Cardinality(net) < MaxInFlight /\ net' = net \cup {tx} /\ UNCHANGED rollupVars
    \/ UNCHANGED <<net, rollupVars>>

\* The new root and the block are those of the finalized header, which no
\* reorganisation can have changed since it was fetched.
SubmitHeliosUpdate(ok) ==
    /\ rpc = "submit_helios_update"
    /\ Send([call |-> "helios",
             inputs |-> [prev_trusted_root |-> head.root, new_beacon_root |-> chain[head.new_slot].hash,
                         new_slot |-> head.new_slot, execution_block_hash |-> chain[head.new_slot].hash]])
    /\ HeliosDone(ok)
    /\ UNCHANGED <<chainVars, from_block, processed, latest, logs, head, restarts>>

SkipProcessed ==
    /\ rpc = "relay" /\ logs # << >>
    /\ Head(logs).deposit_id \in processed
    /\ logs' = Tail(logs)
    /\ UNCHANGED <<rollupVars, chainVars, net, runVars, rpc, latest, head, restarts>>

\* The storage proof and the beacon root of the block; with mock proofs
\* neither goes into what is submitted.
get_storage_proof ==
    /\ rpc = "relay" /\ logs # << >>
    /\ Head(logs).deposit_id \notin processed
    /\ rpc' = "submit_claim"
    /\ UNCHANGED <<rollupVars, chainVars, net, runVars, latest, logs, head, restarts>>

\* One of the requests failed: the deposit is given up.
StorageProofFails ==
    /\ rpc = "relay" /\ logs # << >>
    /\ Head(logs).deposit_id \notin processed
    /\ logs' = Tail(logs)
    /\ UNCHANGED <<rollupVars, chainVars, net, runVars, rpc, latest, head, restarts>>

SubmitClaim(ok) ==
    LET log == Head(logs) IN
    /\ rpc = "submit_claim"
    /\ Send([call |-> "claim",
             inputs |-> [deposit_id |-> log.deposit_id, amount |-> log.amount,
                         obscura_recipient |-> log.obscura_recipient,
                         bridge_contract |-> BridgeContract, eth_block_hash |-> log.block_hash]])
    /\ processed' = IF ok THEN processed \cup {log.deposit_id} ELSE processed
    /\ logs' = Tail(logs)
    /\ rpc' = "relay"
    /\ UNCHANGED <<chainVars, from_block, last_helios_epoch, latest, head, restarts>>

EndScan ==
    /\ rpc = "relay" /\ logs = << >>
    /\ ScanOk(latest)
    /\ UNCHANGED <<rollupVars, chainVars, net, last_helios_epoch, processed, latest, logs, head, restarts>>

\* The process dies and is started again, from the same command line.
Restart ==
    /\ restarts < MaxRestarts
    /\ rpc' = "get_latest_block"
    /\ from_block' = START_BLOCK /\ last_helios_epoch' = 0 /\ processed' = {}
    /\ latest' = 0 /\ logs' = << >> /\ head' = NoHead
    /\ restarts' = restarts + 1
    /\ UNCHANGED <<rollupVars, chainVars, net>>

LateExecution(tx) ==
    /\ Execute(tx)
    /\ net' = net \ {tx}
    /\ UNCHANGED <<chainVars, relayerVars>>

Lost(tx) ==
    /\ net' = net \ {tx}
    /\ UNCHANGED <<rollupVars, chainVars, relayerVars>>
-----------------------------------------------------------------------------
RelayNext ==
    \/ \E d \in DepositChoices \cup {NoDeposit} : Mine(d)
    \/ Finalize
    \/ \E h \in 1 .. MaxHeight : Reorg(h)
    \/ get_latest_block \/ ScanFails \/ GetDepositEvents
    \/ GetHeliosState \/ GetFinalityUpdate \/ FinalityUpdateFails
    \/ \E ok \in BOOLEAN : SubmitHeliosUpdate(ok) \/ SubmitClaim(ok)
    \/ SkipProcessed \/ get_storage_proof \/ StorageProofFails \/ EndScan
    \/ Restart
    \/ \E tx \in net : LateExecution(tx) \/ Lost(tx)

RelaySpec == RelayInit /\ [][RelayNext]_relayVars
-----------------------------------------------------------------------------
(***************************************************************************)
(* The trusted head, and every block the rollup takes for final, is on the *)
(* finalized part of the chain at the slot recorded for it, whatever is    *)
(* reorganised, lost, executed late, fetched before a restart or submitted *)
(* against an old head.                                                    *)
(***************************************************************************)
HeadIsFinal ==
    /\ trusted_slot # 0 => trusted_slot <= finalized /\ chain[trusted_slot].hash = trusted_beacon_root
    /\ \A b \in EthBlocks :
          LET slot == finalized_eth_blocks[b] IN
          slot # 0 => slot <= finalized /\ chain[slot].hash = b

(***************************************************************************)
(* A claim accepted with Helios active is for a deposit that is, and will  *)
(* stay, on the chain: with this id, amount and recipient, in a finalized  *)
(* block.  A deposit the relayer saw in a block that was then dropped is   *)
(* never credited, although its id may by then belong to another deposit.  *)
(***************************************************************************)
ClaimsSurviveReorgs ==
    \A c \in claims : c.helios =>
        \E h \in 1 .. finalized :
            /\ chain[h].hash = c.eth_block /\ chain[h].deposit # NoDeposit
            /\ event(h) = [deposit_id |-> c.deposit_id, amount |-> c.amount,
                           obscura_recipient |-> c.commitment, block_hash |-> c.eth_block]
=============================================================================
