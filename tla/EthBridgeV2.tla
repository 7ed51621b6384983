---------------------------- MODULE EthBridgeV2 ----------------------------
(***************************************************************************)
(* The bridge contract on Ethereum, foundry-tests/src/ObscuraBridgeV2.sol: *)
(* users lock USDC, relayers release a deposit with the signatures of a    *)
(* threshold of signers, the owner rotates the signers.  One action is one *)
(* transaction that does not revert.                                       *)
(*                                                                         *)
(* The USDC token and the blocks of Ethereum are external.  A signature is *)
(* the record of who signed what; recoverSigner returns an address nobody  *)
(* holds for a signature of something else, and reverts on a malformed one.*)
(***************************************************************************)
EXTENDS Integers, Sequences, Sums

CONSTANTS
    Users, Signers, Zero,           \* addresses; Zero is address(0)
    BridgeAddr,                     \* the address of this contract
    Deployer, InitialSigners, InitialThreshold,
    MIN_DEPOSIT, MAX_DEPOSIT, MAX_SIGNERS,
    InitialUsdc,                    \* what each user holds at first
    NoRecipient, ObscuraRecipients, \* NoRecipient is bytes32(0)
    DepositSums, Nonces, SignatureLists(_),
    MaxDeposits, MaxBlock           \* bounds of the model

Accounts == Users \cup Signers \cup {BridgeAddr}
Stranger == "stranger"              \* what a signature of another message recovers to

\* The constructor's requirements, and signers deployed without duplicates.
ASSUME DeploymentAssumption ==
    /\ InitialThreshold \in Nat /\ MAX_SIGNERS \in Nat
    /\ 1 <= InitialThreshold /\ InitialThreshold <= Len(InitialSigners)
    /\ Len(InitialSigners) <= MAX_SIGNERS
    /\ InitialSigners \in Seq(Signers)
    /\ \A i, j \in 1 .. Len(InitialSigners) : InitialSigners[i] = InitialSigners[j] => i = j
    /\ Zero \notin Accounts /\ Stranger \notin Accounts
    /\ BridgeAddr \notin Users \cup Signers
    /\ DepositSums \subseteq Nat /\ MIN_DEPOSIT \in Nat \ {0} /\ InitialUsdc \in Nat
    /\ MaxDeposits \in Nat /\ MaxBlock \in Nat

VARIABLES
    owner, threshold, relayerSigners,
    nextDepositId,
    deposits,                       \* id -> [sender, obscuraRecipient, amount, status]
    usedWithdrawalNonces,
    usdc,                           \* external: balances of the token
    block_number,                   \* external: the number of the latest block
    deposit_block                   \* id -> block of its DepositLocked event

\* History: every release, in order.
VARIABLE releases

adminVars == <<owner, threshold, relayerSigners>>
lockVars  == <<nextDepositId, deposit_block, block_number>>
ethVars   == <<adminVars, lockVars, deposits, usedWithdrawalNonces, usdc, releases>>

Locked   == 1                       \* values of Deposit.status
Released == 2
-----------------------------------------------------------------------------
EthInit ==
    /\ owner = Deployer
    /\ threshold = InitialThreshold
    /\ relayerSigners = InitialSigners
    /\ nextDepositId = 0
    /\ deposits = [id \in {} |-> 0]
    /\ usedWithdrawalNonces = {}
    /\ usdc = [a \in Accounts |-> IF a \in Users THEN InitialUsdc ELSE 0]
    /\ block_number = 0
    /\ deposit_block = [id \in {} |-> 0]
    /\ releases = << >>

_isRelayer(addr) == \E i \in 1 .. Len(relayerSigners) : relayerSigners[i] = addr

\* IERC20(USDC): a transfer goes through when the balance covers it.
usdc_transfer(from, to, amount) ==
    /\ usdc[from] >= amount
    /\ usdc' = IF from = to THEN usdc
               ELSE [usdc EXCEPT ![from] = @ - amount, ![to] = @ + amount]

\* The next block will hold the deposit, and its event.
deposit(sender, amount, obscuraRecipient) ==
    /\ amount >= MIN_DEPOSIT /\ amount <= MAX_DEPOSIT
    /\ obscuraRecipient # NoRecipient
    /\ usdc_transfer(sender, BridgeAddr, amount)
    /\ nextDepositId' = nextDepositId + 1
    /\ deposits' = [id \in 0 .. nextDepositId |->
                      IF id = nextDepositId
                        THEN [sender |-> sender, obscuraRecipient |-> obscuraRecipient,
                              amount |-> amount, status |-> Locked]
                        ELSE deposits[id]]
    /\ deposit_block' = [id \in 0 .. nextDepositId |->
                           IF id = nextDepositId THEN block_number + 1 ELSE deposit_block[id]]
    /\ UNCHANGED <<adminVars, block_number, usedWithdrawalNonces, releases>>

-----------------------------------------------------------------------------
malformed == [signer |-> Stranger, payload |-> << >>]

\* Mutant: the signed message is not part of what is recovered.
recoverSigner_any(payload, signature) == signature.signer

recoverSigner(payload, signature) == IF signature.payload = payload THEN signature.signer ELSE Stranger

(***************************************************************************)
(* The loop of releaseMultisig: the signers counted after i signatures.    *)
(* Once the threshold is reached the loop has ended.                       *)
(***************************************************************************)
counted(payload, signatures) ==
    LET seen[i \in 0 .. Len(signatures)] ==
            IF i = 0 THEN {}
            ELSE LET recovered == recoverSigner(payload, signatures[i])
                 IN  IF Cardinality(seen[i - 1]) < threshold /\ _isRelayer(recovered)
                       THEN seen[i - 1] \cup {recovered}
                       ELSE seen[i - 1]
    IN  seen

\* The signatures pass: enough of them, none malformed up to where the loop
\* ends, and enough distinct signers among them.
multisig_passes(payload, signatures) ==
    LET seen == counted(payload, signatures) IN
    /\ Len(signatures) >= threshold
    /\ \A i \in 1 .. Len(signatures) :
          signatures[i] = malformed => Cardinality(seen[i - 1]) >= threshold
    /\ Cardinality(seen[Len(signatures)]) >= threshold

releaseHash(depositId, recipient, withdrawalNonce) == <<depositId, recipient, withdrawalNonce>>

\* The signatures of a call are a list of records of who signed what.
ASSUME SignatureAssumption ==
    \A id \in 0 .. MaxDeposits - 1, r \in Users \cup {BridgeAddr, Zero}, nonce \in Nonces :
        \A signatures \in SignatureLists(releaseHash(id, r, nonce)) :
            /\ Len(signatures) \in Nat
            /\ \A i \in 1 .. Len(signatures) :
                  signatures[i] = [signer |-> signatures[i].signer, payload |-> signatures[i].payload]

\* Mutant: any deposit that exists counts as locked.
status_known(depositId) == IF depositId \in DOMAIN deposits THEN Locked ELSE 0

status(depositId) == IF depositId \in DOMAIN deposits THEN deposits[depositId].status ELSE 0

releaseMultisig(depositId, recipient, withdrawalNonce, signatures) ==
    /\ withdrawalNonce \notin usedWithdrawalNonces
    /\ status(depositId) = Locked
    /\ recipient # Zero
    /\ multisig_passes(releaseHash(depositId, recipient, withdrawalNonce), signatures)
    /\ usedWithdrawalNonces' = usedWithdrawalNonces \cup {withdrawalNonce}
    /\ deposits' = [deposits EXCEPT ![depositId].status = Released]
    /\ usdc_transfer(BridgeAddr, recipient, deposits[depositId].amount)
    /\ releases' = Append(releases, [depositId |-> depositId, recipient |-> recipient,
                                     amount |-> deposits[depositId].amount])
    /\ UNCHANGED <<adminVars, lockVars>>
-----------------------------------------------------------------------------
addSigner(caller, signer) ==
    /\ caller = owner
    /\ signer # Zero
    /\ ~ _isRelayer(signer)
    /\ Len(relayerSigners) < MAX_SIGNERS
    /\ relayerSigners' = Append(relayerSigners, signer)
    /\ UNCHANGED <<owner, threshold, lockVars, deposits, usedWithdrawalNonces, usdc, releases>>

\* Mutant: the place of the signer that leaves is cleared and stays.
removeSigner_leaves_gap(caller, signer) ==
    /\ caller = owner
    /\ Len(relayerSigners) > threshold
    /\ _isRelayer(signer)
    /\ relayerSigners' = [i \in 1 .. Len(relayerSigners) |->
                            IF relayerSigners[i] = signer THEN Zero ELSE relayerSigners[i]]
    /\ UNCHANGED <<owner, threshold, lockVars, deposits, usedWithdrawalNonces, usdc, releases>>

\* The last signer takes the place of the one that leaves.
removeSigner(caller, signer) ==
    LET n == Len(relayerSigners)
        at == CHOOSE i \in 1 .. n : /\ relayerSigners[i] = signer
                                    /\ \A j \in 1 .. i - 1 : relayerSigners[j] # signer
    IN  /\ caller = owner
        /\ n > threshold
        /\ _isRelayer(signer)
        /\ relayerSigners' = [i \in 1 .. n - 1 |-> IF i = at THEN relayerSigners[n] ELSE relayerSigners[i]]
        /\ UNCHANGED <<owner, threshold, lockVars, deposits, usedWithdrawalNonces, usdc, releases>>

\* Mutant: the threshold is bounded by the capacity, not by the signers.
setThreshold_unbounded(caller, newThreshold) ==
    /\ caller = owner
    /\ newThreshold >= 1 /\ newThreshold <= MAX_SIGNERS
    /\ threshold' = newThreshold
    /\ UNCHANGED <<owner, relayerSigners, lockVars, deposits, usedWithdrawalNonces, usdc, releases>>

setThreshold(caller, newThreshold) ==
    /\ caller = owner
    /\ newThreshold >= 1 /\ newThreshold <= Len(relayerSigners)
    /\ threshold' = newThreshold
    /\ UNCHANGED <<owner, relayerSigners, lockVars, deposits, usedWithdrawalNonces, usdc, releases>>

transferOwnership(caller, newOwner) ==
    /\ caller = owner
    /\ newOwner # Zero
    /\ owner' = newOwner
    /\ UNCHANGED <<threshold, relayerSigners, lockVars, deposits, usedWithdrawalNonces, usdc, releases>>

\* External: Ethereum appends a block.
MineBlock ==
    /\ block_number < MaxBlock
    /\ block_number' = block_number + 1
    /\ UNCHANGED <<adminVars, nextDepositId, deposit_block, deposits, usedWithdrawalNonces, usdc, releases>>
-----------------------------------------------------------------------------
Deposit == /\ nextDepositId < MaxDeposits
           /\ \E u \in Users, a \in DepositSums, r \in ObscuraRecipients \cup {NoRecipient} : deposit(u, a, r)

ReleaseMultisig ==
    \E id \in 0 .. MaxDeposits - 1, r \in Users \cup {BridgeAddr, Zero}, nonce \in Nonces :
        \E signatures \in SignatureLists(releaseHash(id, r, nonce)) : releaseMultisig(id, r, nonce, signatures)

AddSigner         == \E c \in Users, s \in Signers \cup {Zero} : addSigner(c, s)
RemoveSigner      == \E c \in Users, s \in Signers \cup {Zero} : removeSigner(c, s)
SetThreshold      == \E c \in Users, n \in 0 .. MAX_SIGNERS + 1 : setThreshold(c, n)
TransferOwnership == \E c \in Users, o \in Users \cup {Zero} : transferOwnership(c, o)

EthNext == Deposit \/ ReleaseMultisig \/ AddSigner \/ RemoveSigner \/ SetThreshold
           \/ TransferOwnership \/ MineBlock

EthSpec == EthInit /\ [][EthNext]_ethVars
-----------------------------------------------------------------------------
DepositRecords == [sender : Users, obscuraRecipient : ObscuraRecipients,
                   amount : DepositSums, status : {Locked, Released}]

\* Type invariant of the contract's storage and of the token's balances.
EthTypeOK ==
    /\ owner \in Users \cup {Deployer}
    /\ threshold \in Nat
    /\ relayerSigners \in Seq(Signers)
    /\ nextDepositId \in Nat
    /\ deposits \in [0 .. nextDepositId - 1 -> DepositRecords]
    /\ usedWithdrawalNonces \subseteq Nonces
    /\ DOMAIN usdc = Accounts
    /\ \A a \in Accounts : usdc[a] \in Nat
    /\ block_number \in Nat
    /\ deposit_block \in [0 .. nextDepositId - 1 -> 1 .. block_number + 1]

(***************************************************************************)
(* Whatever the owner adds, removes and sets, there are as many distinct   *)
(* signers as the threshold asks for, so a locked deposit can be released: *)
(* no order of rotations strands the funds.                                *)
(***************************************************************************)
ThresholdReachable ==
    /\ 1 <= threshold /\ threshold <= Len(relayerSigners) /\ Len(relayerSigners) <= MAX_SIGNERS
    /\ \A i, j \in 1 .. Len(relayerSigners) : relayerSigners[i] = relayerSigners[j] => i = j

(***************************************************************************)
(* The counting loop of releaseMultisig, with its early exit and its list  *)
(* of signers seen, accepts exactly the well-formed lists in which at      *)
(* least a threshold of current signers signed this very release: copies   *)
(* of a signature, strangers and signatures of other releases add nothing. *)
(***************************************************************************)
MultisigExact ==
    \A id \in DOMAIN deposits, r \in Users, nonce \in Nonces \ usedWithdrawalNonces :
        LET payload == releaseHash(id, r, nonce) IN
        \A signatures \in SignatureLists(payload) :
            (\A i \in 1 .. Len(signatures) : signatures[i] # malformed) =>
               (multisig_passes(payload, signatures) <=>
                  Cardinality({s \in Signers : /\ \E j \in 1 .. Len(relayerSigners) : relayerSigners[j] = s
                                               /\ \E i \in 1 .. Len(signatures) :
                                                     signatures[i] = [signer |-> s, payload |-> payload]})
                    >= threshold)

\* A deposit is paid out exactly when its status says so, once, in full.
ReleasedOnce ==
    /\ \A i, j \in 1 .. Len(releases) : releases[i].depositId = releases[j].depositId => i = j
    /\ \A id \in 0 .. nextDepositId - 1 :
          deposits[id].status = Released
             <=> \E i \in 1 .. Len(releases) : /\ releases[i].depositId = id
                                               /\ releases[i].amount = deposits[id].amount

locked_amounts == [id \in DOMAIN deposits |-> IF deposits[id].status = Locked THEN deposits[id].amount ELSE 0]

\* The contract always holds the USDC of every deposit that is still locked.
Solvent == usdc[BridgeAddr] >= SumOver(locked_amounts, DOMAIN deposits)
=============================================================================
