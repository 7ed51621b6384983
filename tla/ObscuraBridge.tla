---------------------------- MODULE ObscuraBridge ----------------------------
(***************************************************************************)
(* The bridge module of the rollup, ObscuraBridge in                       *)
(* crates/zk-bridge/src/module.rs, together with the privacy module it     *)
(* writes to: a deposit locked on Ethereum is claimed once and lands in    *)
(* the shielded pool, a claimed deposit is withdrawn once, and the trusted *)
(* beacon head moves forward by Helios updates.                            *)
(*                                                                         *)
(* The runtime runs both modules, so a step is a transaction of either.    *)
(* Proofs are checked as in the default build (verifier.rs, helios.rs): by *)
(* their header.  The configuration is fixed at genesis: no call message   *)
(* reaches update_config.  Amounts wrap as in module ShieldedPool; claims, *)
(* withdrawals and head updates number at most one per u64 deposit id or   *)
(* slot, so their counters cannot.                                         *)
(***************************************************************************)
EXTENDS ShieldedPool, Sums

CONSTANTS
    BridgeContract,             \* config.bridge_contract_address
    BridgedUsdc,                \* the asset bridged-usdc-obscura-network-v01
    Contracts, DepositIds, DepositAmounts, Recipients, EthBlocks, EthRecipients,
    BeaconRoots, Slots,
    InitialBeaconRoot, InitialSlot, MaxSlotGap      \* config.helios

ASSUME BridgeAssumption ==
    /\ BridgedUsdc \in Assets
    /\ BridgeContract \in Contracts
    /\ DepositAmounts \subseteq 0 .. U64 - 1
    /\ Recipients \subseteq Commitments \cup {Zero32}
    /\ Slots \subseteq Nat /\ InitialSlot \in Nat /\ MaxSlotGap \in Nat

VARIABLES
    processed_deposits,         \* the keys mapped to true, claims and withdrawals
    claimed_amounts,            \* deposit id -> amount, 0 when absent
    total_bridged_usdc, total_claims,
    withdrawals,                \* withdrawal id -> record
    next_withdrawal_id, total_withdrawn_usdc,
    trusted_beacon_root, trusted_slot,
    finalized_eth_blocks,       \* block -> slot it was proven at, 0 when absent
    helios_update_count

\* History: the accepted claims, each with the leaf its commitment went to
\* and whether Helios was active.
VARIABLE claims

claimVars    == <<claimed_amounts, total_bridged_usdc, total_claims, claims>>
withdrawVars == <<withdrawals, next_withdrawal_id, total_withdrawn_usdc>>
heliosVars   == <<trusted_beacon_root, trusted_slot, finalized_eth_blocks, helios_update_count>>
bridgeVars   == <<processed_deposits, claimVars, withdrawVars, heliosVars>>
rollupVars   == <<poolVars, bridgeVars>>

\* Mutants: a claim's key without its deposit, a withdrawal's key by record.
deposit_key_no_id(contract, deposit_id) == <<"0x", contract>>
withdrawal_key_by_record(deposit_id)    == <<"wd", next_withdrawal_id>>

\* The two kinds of keys of processed_deposits, told apart by their prefix.
deposit_key(contract, deposit_id) == <<"0x", contract, deposit_id>>
withdrawal_key(deposit_id)        == <<"wd", deposit_id>>

\* Proofs with the header each verifier looks for, and others.
BridgeProofs == {"OBSbridge", "other"}
HeliosProofs == {"OBShelios", "other"}
verify_bridge_proof(proof) == proof = "OBSbridge"
verify_helios_proof(proof) == proof = "OBShelios"
-----------------------------------------------------------------------------
BridgeInit ==
    /\ PoolInit
    /\ processed_deposits = {}
    /\ claimed_amounts = [d \in DepositIds |-> 0]
    /\ total_bridged_usdc = 0
    /\ total_claims = 0
    /\ withdrawals = [w \in {} |-> 0]
    /\ next_withdrawal_id = 0
    /\ total_withdrawn_usdc = 0
    /\ trusted_beacon_root = InitialBeaconRoot
    /\ trusted_slot = InitialSlot
    /\ finalized_eth_blocks = [b \in EthBlocks |-> 0]
    /\ helios_update_count = 0
    /\ claims = {}

\* Mutant: Helios counts as active one slot too late.
block_accepted_late(eth_block_hash) == trusted_slot > 1 => finalized_eth_blocks[eth_block_hash] # 0

\* With Helios active, the block of the deposit must be proven finalized.
block_accepted(eth_block_hash) == trusted_slot > 0 => finalized_eth_blocks[eth_block_hash] # 0

handle_claim_deposit(proof, inputs) ==
    LET key == deposit_key(inputs.bridge_contract, inputs.deposit_id) IN
    /\ inputs.amount # 0
    /\ inputs.obscura_recipient # Zero32
    /\ inputs.bridge_contract = BridgeContract
    /\ key \notin processed_deposits
    /\ block_accepted(inputs.eth_block_hash)
    /\ verify_bridge_proof(proof)
    /\ processed_deposits' = processed_deposits \cup {key}
    /\ claimed_amounts' = [claimed_amounts EXCEPT ![inputs.deposit_id] = inputs.amount]
    /\ Insert(<<inputs.obscura_recipient>>)
    /\ Credit(BridgedUsdc, inputs.amount)
    /\ total_bridged_usdc' = wrap(total_bridged_usdc + inputs.amount)
    /\ total_claims' = total_claims + 1
    /\ claims' = claims \cup {[deposit_id |-> inputs.deposit_id, amount |-> inputs.amount,
                               commitment |-> inputs.obscura_recipient,
                               leaf |-> tree.next_index + 1,
                               eth_block |-> inputs.eth_block_hash, helios |-> trusted_slot > 0]}
    /\ UNCHANGED <<withdrawVars, heliosVars>>
    /\ UNCHANGED <<spendVars, complianceVars, sanctions_root, encrypted_notes>>

handle_withdraw_bridge(deposit_id, eth_recipient) ==
    LET amount == claimed_amounts[deposit_id] IN
    /\ deposit_key(BridgeContract, deposit_id) \in processed_deposits
    /\ withdrawal_key(deposit_id) \notin processed_deposits
    /\ amount # 0
    /\ next_withdrawal_id' = next_withdrawal_id + 1
    /\ processed_deposits' = processed_deposits \cup {withdrawal_key(deposit_id)}
    /\ withdrawals' = [w \in DOMAIN withdrawals \cup {next_withdrawal_id} |->
                         IF w = next_withdrawal_id
                           THEN [deposit_id |-> deposit_id, eth_recipient |-> eth_recipient,
                                 amount |-> amount, relayed |-> FALSE]
                           ELSE withdrawals[w]]
    /\ total_withdrawn_usdc' = wrap(total_withdrawn_usdc + amount)
    /\ UNCHANGED <<poolVars, claimVars, heliosVars>>

\* Mutant: a gap of max_slot_gap is already too large.
head_advances_strictly(inputs) ==
    /\ inputs.prev_trusted_root = trusted_beacon_root
    /\ inputs.new_slot > trusted_slot
    /\ trusted_slot > 0 => inputs.new_slot - trusted_slot < MaxSlotGap

\* The update follows the trusted head, and not too far.
head_advances(inputs) ==
    /\ inputs.prev_trusted_root = trusted_beacon_root
    /\ inputs.new_slot > trusted_slot
    /\ trusted_slot > 0 => inputs.new_slot - trusted_slot <= MaxSlotGap

handle_update_helios_head(proof, inputs) ==
    /\ head_advances(inputs)
    /\ verify_helios_proof(proof)
    /\ trusted_beacon_root' = inputs.new_beacon_root
    /\ trusted_slot' = inputs.new_slot
    /\ finalized_eth_blocks' = [finalized_eth_blocks EXCEPT ![inputs.execution_block_hash] = inputs.new_slot]
    /\ helios_update_count' = helios_update_count + 1
    /\ UNCHANGED <<poolVars, processed_deposits, claimVars, withdrawVars>>
-----------------------------------------------------------------------------
ClaimInputs  == [deposit_id : DepositIds, amount : DepositAmounts, obscura_recipient : Recipients,
                 bridge_contract : Contracts, eth_block_hash : EthBlocks]
HeliosInputs == [prev_trusted_root : BeaconRoots, new_beacon_root : BeaconRoots,
                 new_slot : Slots, execution_block_hash : EthBlocks]

ClaimDeposit   == \E proof \in BridgeProofs, inputs \in ClaimInputs : handle_claim_deposit(proof, inputs)
WithdrawBridge == \E d \in DepositIds, r \in EthRecipients : handle_withdraw_bridge(d, r)
UpdateHeliosHead == \E proof \in HeliosProofs, inputs \in HeliosInputs : handle_update_helios_head(proof, inputs)

BridgeNext ==
    \/ PoolNext /\ UNCHANGED bridgeVars
    \/ ClaimDeposit
    \/ WithdrawBridge
    \/ UpdateHeliosHead

BridgeSpec == BridgeInit /\ [][BridgeNext]_rollupVars
-----------------------------------------------------------------------------
Claims == [deposit_id : DepositIds, amount : DepositAmounts, commitment : Commitments,
           leaf : 1 .. Capacity, eth_block : EthBlocks, helios : BOOLEAN]
WithdrawalRecords == [deposit_id : DepositIds, eth_recipient : EthRecipients,
                      amount : DepositAmounts, relayed : {FALSE}]

\* Type invariant of the bridge's maps and counters.
BridgeTypeOK ==
    /\ processed_deposits \subseteq {deposit_key(BridgeContract, d) : d \in DepositIds}
                                  \cup {withdrawal_key(d) : d \in DepositIds}
    /\ claimed_amounts \in [DepositIds -> DepositAmounts \cup {0}]
    /\ total_bridged_usdc \in 0 .. U64 - 1
    /\ total_claims \in Nat
    /\ next_withdrawal_id \in Nat
    /\ withdrawals \in [0 .. next_withdrawal_id - 1 -> WithdrawalRecords]
    /\ total_withdrawn_usdc \in 0 .. U64 - 1
    /\ trusted_slot \in Nat
    /\ finalized_eth_blocks \in [EthBlocks -> Nat]
    /\ helios_update_count \in Nat
    /\ claims \subseteq Claims

(***************************************************************************)
(* A deposit enters the pool once, and stays: each claim has a leaf of its *)
(* own that still holds its commitment, whatever shields, transfers and    *)
(* claims came after it, and the replay map knows exactly the claimed      *)
(* deposits.                                                               *)
(***************************************************************************)
DepositsLandOnce ==
    /\ \A c, d \in claims : c.deposit_id = d.deposit_id \/ c.leaf = d.leaf => c = d
    /\ \A c \in claims : /\ c.leaf <= tree.next_index
                          /\ tree.commitments[c.leaf] = c.commitment
    /\ \A d \in DepositIds : deposit_key(BridgeContract, d) \in processed_deposits
                               <=> \E c \in claims : c.deposit_id = d

(***************************************************************************)
(* A deposit leaves at most once, and for what it brought in: no two       *)
(* withdrawal records are for one deposit, and each is for the amount of   *)
(* the claim that was accepted for that deposit.                           *)
(***************************************************************************)
WithdrawalsBacked ==
    /\ \A v, w \in DOMAIN withdrawals :
           withdrawals[v].deposit_id = withdrawals[w].deposit_id => v = w
    /\ \A w \in DOMAIN withdrawals : \E c \in claims :
           /\ c.deposit_id = withdrawals[w].deposit_id
           /\ c.amount = withdrawals[w].amount

claim_amounts      == [c \in claims |-> c.amount]
withdrawal_amounts == [w \in DOMAIN withdrawals |-> withdrawals[w].amount]

(***************************************************************************)
(* The running totals are the sums of the records, up to the width of a    *)
(* u64, and as long as the deposits fit in a u64 the bridge never pays out *)
(* more than it took in.                                                   *)
(***************************************************************************)
TotalsMatchRecords ==
    LET bridged == SumOver(claim_amounts, claims) IN
    /\ total_bridged_usdc = bridged % U64
    /\ total_withdrawn_usdc = SumOver(withdrawal_amounts, DOMAIN withdrawals) % U64
    /\ bridged < U64 => total_withdrawn_usdc <= total_bridged_usdc

(***************************************************************************)
(* Every claim accepted while Helios was active is for a block proven      *)
(* final, at a slot between genesis and the trusted head: head updates     *)
(* that come later, for this block or another, never take that away.       *)
(***************************************************************************)
ClaimsAreFinalized ==
    \A c \in claims : c.helios => /\ finalized_eth_blocks[c.eth_block] > InitialSlot
                                  /\ finalized_eth_blocks[c.eth_block] <= trusted_slot
=============================================================================
