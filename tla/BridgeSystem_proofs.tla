------------------------ MODULE BridgeSystem_proofs ------------------------
(***************************************************************************)
(* Invariants of the bridge contract, for every set of users and signers,  *)
(* every constructor the code accepts and every list of signatures; then   *)
(* the bridge end to end, for any number of deposits, blocks, withdrawal   *)
(* requests and crashes: the composed system keeps to the specifications   *)
(* of the contract and of the rollup, the relayer skips no deposit, and    *)
(* the whole implements the lifecycle of a deposit.                        *)
(***************************************************************************)
EXTENDS BridgeSystem, ObscuraBridge_proofs
-----------------------------------------------------------------------------
\* The contract, by itself.
Payouts == [depositId : Nat, recipient : Users \cup {BridgeAddr}, amount : DepositSums]

\* The history names deposits that were released, once each, for their amount.
PayoutPart ==
    /\ releases \in Seq(Payouts)
    /\ \A i \in 1 .. Len(releases) :
          /\ releases[i].depositId \in 0 .. nextDepositId - 1
          /\ releases[i].amount = deposits[releases[i].depositId].amount
          /\ deposits[releases[i].depositId].status = Released
    /\ ReleasedOnce

EthInv == EthTypeOK /\ nextDepositId <= MaxDeposits /\ ThresholdReachable /\ PayoutPart /\ Solvent

\* The deposits are finitely many and their locked amounts natural numbers.
LEMMA LockedAmounts ==
    ASSUME EthTypeOK
    PROVE  /\ DOMAIN deposits = 0 .. nextDepositId - 1 /\ IsFiniteSet(DOMAIN deposits)
           /\ \A id \in DOMAIN deposits : locked_amounts[id] \in Nat /\ deposits[id].amount \in Nat
           /\ SumOver(locked_amounts, DOMAIN deposits) \in Nat
<1>1. DOMAIN deposits = 0 .. nextDepositId - 1 /\ nextDepositId \in Nat
  BY DEF EthTypeOK
<1>2. IsFiniteSet(DOMAIN deposits)
  BY <1>1, FS_Interval
<1>3. ASSUME NEW id \in DOMAIN deposits PROVE locked_amounts[id] \in Nat /\ deposits[id].amount \in Nat
  <2>1. deposits[id] \in DepositRecords
    BY <1>1 DEF EthTypeOK
  <2>2. deposits[id].amount \in Nat
    BY <2>1, DeploymentAssumption DEF DepositRecords
  <2> QED BY <2>2 DEF locked_amounts
<1>4. \A id \in DOMAIN deposits : locked_amounts[id] \in Nat
  BY <1>3
<1>5. SumOver(locked_amounts, DOMAIN deposits) \in Nat
  BY <1>2, <1>4, SumNat
<1> QED BY <1>1, <1>2, <1>3, <1>5

LEMMA EthInitInv == EthInit => EthInv
<1> SUFFICES ASSUME EthInit PROVE EthInv
  OBVIOUS
<1> USE DEF EthInit
<1>1. EthTypeOK
  BY DeploymentAssumption DEF EthTypeOK, DepositRecords, Accounts
<1>2. ThresholdReachable
  BY DeploymentAssumption DEF ThresholdReachable
<1>3. PayoutPart
  BY DEF PayoutPart, ReleasedOnce
<1>4. Solvent
  <2>1. DOMAIN deposits = {}
    OBVIOUS
  <2>2. SumOver(locked_amounts, DOMAIN deposits) = 0
    BY <2>1, SumEmpty
  <2>3. usdc[BridgeAddr] \in Nat
    BY <1>1 DEF EthTypeOK, Accounts
  <2> QED BY <2>2, <2>3 DEF Solvent
<1>5. nextDepositId <= MaxDeposits
  BY DeploymentAssumption
<1> QED BY <1>1, <1>2, <1>3, <1>4, <1>5 DEF EthInv

\* A step that leaves the deposits and the token alone.
LEMMA AdminStepInv ==
    ASSUME EthInv,
           UNCHANGED <<deposits, usdc, releases, nextDepositId>>,
           usedWithdrawalNonces' \subseteq Nonces,
           block_number' \in Nat /\ block_number <= block_number' /\ deposit_block' = deposit_block,
           owner' \in Users \cup {Deployer},
           threshold' \in Nat, relayerSigners' \in Seq(Signers), ThresholdReachable'
    PROVE  EthInv'
<1>1. EthTypeOK'
  <2>1. deposit_block' \in [0 .. nextDepositId' - 1 -> 1 .. block_number' + 1]
    BY DEF EthInv, EthTypeOK
  <2> QED BY <2>1 DEF EthInv, EthTypeOK
<1>2. PayoutPart'
  BY DEF EthInv, PayoutPart, ReleasedOnce
<1>3. Solvent'
  <2>1. locked_amounts' = locked_amounts
    BY DEF locked_amounts
  <2> QED BY <2>1 DEF EthInv, Solvent
<1> QED BY <1>1, <1>2, <1>3 DEF EthInv

LEMMA AddSignerInv == EthInv /\ AddSigner => EthInv'
<1> SUFFICES ASSUME EthInv, AddSigner PROVE EthInv'
  OBVIOUS
<1>1. PICK c \in Users, s \in Signers \cup {Zero} : addSigner(c, s)
  BY DEF AddSigner
<1>2. /\ s \in Signers /\ relayerSigners' = Append(relayerSigners, s)
      /\ Len(relayerSigners) < MAX_SIGNERS /\ ~ _isRelayer(s)
      /\ UNCHANGED <<owner, threshold, lockVars, deposits, usedWithdrawalNonces, usdc, releases>>
  BY <1>1 DEF addSigner
<1>3. EthTypeOK /\ ThresholdReachable
  BY DEF EthInv
<1>4. relayerSigners' \in Seq(Signers) /\ Len(relayerSigners') = Len(relayerSigners) + 1
  BY <1>2, <1>3 DEF EthTypeOK
<1>5. ThresholdReachable'
  <2> DEFINE n == Len(relayerSigners)
  <2>1. n \in Nat /\ threshold \in Nat /\ \A i \in 1 .. n : relayerSigners[i] # s
    BY <1>2, <1>3 DEF EthTypeOK, _isRelayer
  <2>2. /\ \A i \in 1 .. n : relayerSigners'[i] = relayerSigners[i]
        /\ relayerSigners'[n + 1] = s
    BY <1>2, <1>3 DEF EthTypeOK
  <2>3. \A i, j \in 1 .. n : relayerSigners[i] = relayerSigners[j] => i = j
    BY <1>3 DEF ThresholdReachable
  <2>4. \A i, j \in 1 .. n + 1 : relayerSigners'[i] = relayerSigners'[j] => i = j
    <3> HIDE DEF n
    <3> QED BY <2>1, <2>2, <2>3
  <2>5. 1 <= threshold' /\ threshold' <= n + 1 /\ n + 1 <= MAX_SIGNERS
    BY <2>1, <1>2, <1>3, DeploymentAssumption DEF ThresholdReachable
  <2> QED BY <1>4, <2>4, <2>5 DEF ThresholdReachable
<1> QED BY <1>2, <1>3, <1>4, <1>5, AdminStepInv DEF EthTypeOK, lockVars

LEMMA RemoveSignerInv == EthInv /\ RemoveSigner => EthInv'
<1> SUFFICES ASSUME EthInv, RemoveSigner PROVE EthInv'
  OBVIOUS
<1>1. PICK c \in Users, s \in Signers \cup {Zero} : removeSigner(c, s)
  BY DEF RemoveSigner
<1> DEFINE n == Len(relayerSigners)
           at == CHOOSE i \in 1 .. n : /\ relayerSigners[i] = s
                                       /\ \A j \in 1 .. i - 1 : relayerSigners[j] # s
<1>2. /\ n > threshold
      /\ relayerSigners' = [i \in 1 .. n - 1 |-> IF i = at THEN relayerSigners[n] ELSE relayerSigners[i]]
      /\ UNCHANGED <<owner, threshold, lockVars, deposits, usedWithdrawalNonces, usdc, releases>>
  BY <1>1 DEF removeSigner
<1>3. EthTypeOK /\ ThresholdReachable /\ n \in Nat /\ threshold \in Nat
  BY DEF EthInv, EthTypeOK
<1> HIDE DEF at
<1>4. relayerSigners' \in Seq(Signers) /\ Len(relayerSigners') = n - 1
  <2>1. \A i \in 1 .. n : relayerSigners[i] \in Signers
    BY <1>3 DEF EthTypeOK
  <2>2. n - 1 \in Nat
    BY <1>2, <1>3
  <2>3. \A i \in 1 .. n - 1 : relayerSigners'[i] \in Signers
    BY <1>2, <1>3, <2>1
  <2> QED BY <1>2, <2>2, <2>3
<1>5. ThresholdReachable'
  <2>1. \A i, j \in 1 .. n : relayerSigners[i] = relayerSigners[j] => i = j
    BY <1>3 DEF ThresholdReachable
  <2>2. \A i, j \in 1 .. n - 1 : relayerSigners'[i] = relayerSigners'[j] => i = j
    BY <1>2, <1>3, <2>1
  <2> QED BY <1>2, <1>3, <1>4, <2>2, DeploymentAssumption DEF ThresholdReachable
<1> QED BY <1>2, <1>3, <1>4, <1>5, AdminStepInv DEF EthTypeOK, lockVars

LEMMA OwnerStepsInv == EthInv /\ (SetThreshold \/ TransferOwnership \/ MineBlock) => EthInv'
<1> SUFFICES ASSUME EthInv, SetThreshold \/ TransferOwnership \/ MineBlock PROVE EthInv'
  OBVIOUS
<1>1. EthTypeOK /\ ThresholdReachable /\ Len(relayerSigners) \in Nat
  BY DEF EthInv, EthTypeOK
<1>2. CASE SetThreshold
  <2>1. PICK c \in Users, n \in 0 .. MAX_SIGNERS + 1 : setThreshold(c, n)
    BY <1>2 DEF SetThreshold
  <2>2. n \in Nat /\ 1 <= n /\ n <= Len(relayerSigners) /\ threshold' = n
        /\ UNCHANGED <<owner, relayerSigners, lockVars, deposits, usedWithdrawalNonces, usdc, releases>>
    BY <2>1 DEF setThreshold
  <2>3. ThresholdReachable'
    BY <1>1, <2>2 DEF ThresholdReachable
  <2> QED BY <1>1, <2>2, <2>3, AdminStepInv DEF EthTypeOK, lockVars
<1>3. CASE TransferOwnership
  <2>1. PICK c \in Users, o \in Users \cup {Zero} : transferOwnership(c, o)
    BY <1>3 DEF TransferOwnership
  <2>2. o \in Users /\ owner' = o
        /\ UNCHANGED <<threshold, relayerSigners, lockVars, deposits, usedWithdrawalNonces, usdc, releases>>
    BY <2>1 DEF transferOwnership
  <2>3. ThresholdReachable'
    BY <1>1, <2>2 DEF ThresholdReachable
  <2> QED BY <1>1, <2>2, <2>3, AdminStepInv DEF EthTypeOK, lockVars
<1>4. CASE MineBlock
  <2>1. block_number' = block_number + 1
        /\ UNCHANGED <<adminVars, nextDepositId, deposit_block, deposits, usedWithdrawalNonces, usdc, releases>>
    BY <1>4 DEF MineBlock
  <2>2. ThresholdReachable'
    BY <1>1, <2>1 DEF ThresholdReachable, adminVars
  <2> QED BY <1>1, <2>1, <2>2, AdminStepInv DEF EthTypeOK, adminVars
<1> QED BY <1>2, <1>3, <1>4

LEMMA DepositInv == EthInv /\ Deposit => EthInv'
<1> SUFFICES ASSUME EthInv, Deposit PROVE EthInv'
  OBVIOUS
<1>1. PICK u \in Users, a \in DepositSums, r \in ObscuraRecipients \cup {NoRecipient} : deposit(u, a, r)
  BY DEF Deposit
<1> DEFINE n == nextDepositId
           new == [sender |-> u, obscuraRecipient |-> r, amount |-> a, status |-> Locked]
<1>2. /\ r \in ObscuraRecipients
      /\ usdc[u] >= a
      /\ usdc' = [usdc EXCEPT ![u] = @ - a, ![BridgeAddr] = @ + a]
      /\ nextDepositId' = n + 1
      /\ deposits' = [id \in 0 .. n |-> IF id = n THEN new ELSE deposits[id]]
      /\ deposit_block' = [id \in 0 .. n |-> IF id = n THEN block_number + 1 ELSE deposit_block[id]]
      /\ UNCHANGED <<adminVars, block_number, usedWithdrawalNonces, releases>>
  BY <1>1, DeploymentAssumption DEF deposit, usdc_transfer
<1>3. /\ EthTypeOK /\ ThresholdReachable /\ PayoutPart /\ Solvent
      /\ n \in Nat /\ a \in Nat /\ n < MaxDeposits
  BY DeploymentAssumption DEF EthInv, EthTypeOK, Deposit
<1>4. /\ u \in Accounts /\ BridgeAddr \in Accounts /\ u # BridgeAddr
      /\ \A x \in Accounts : usdc[x] \in Nat /\ DOMAIN usdc = Accounts
  BY <1>3, DeploymentAssumption DEF EthTypeOK, Accounts
<1>5. /\ DOMAIN usdc' = Accounts /\ \A x \in Accounts : usdc'[x] \in Nat
      /\ usdc'[BridgeAddr] = usdc[BridgeAddr] + a
  BY <1>2, <1>3, <1>4
<1>6. new \in DepositRecords
  BY <1>2 DEF DepositRecords, Locked
<1>7. DOMAIN deposits = 0 .. n - 1 /\ \A id \in 0 .. n - 1 : deposits[id] \in DepositRecords
  BY <1>3 DEF EthTypeOK
<1>8. /\ DOMAIN deposits' = 0 .. n /\ deposits'[n] = new
      /\ \A id \in 0 .. n - 1 : deposits'[id] = deposits[id]
  BY <1>2, <1>3
<1>9. EthTypeOK'
  <2> HIDE DEF new
  <2>1. deposits' \in [0 .. n -> DepositRecords]
    BY <1>2, <1>3, <1>6, <1>7
  <2>2. deposit_block' \in [0 .. n -> 1 .. block_number + 1]
    BY <1>2, <1>3 DEF EthTypeOK
  <2>3. nextDepositId' - 1 = n /\ nextDepositId' \in Nat
    BY <1>2, <1>3
  <2> QED BY <1>2, <1>3, <1>5, <2>1, <2>2, <2>3 DEF EthTypeOK, adminVars
<1>10. ThresholdReachable'
  BY <1>2, <1>3 DEF ThresholdReachable, adminVars
<1>11. PayoutPart'
  <2> HIDE DEF new
  <2>1. releases' = releases /\ nextDepositId' - 1 = n
    BY <1>2, <1>3
  <2>2. ASSUME NEW i \in 1 .. Len(releases)
        PROVE  /\ releases[i].depositId \in 0 .. n
               /\ releases[i].amount = deposits'[releases[i].depositId].amount
               /\ deposits'[releases[i].depositId].status = Released
    BY <1>3, <1>8 DEF PayoutPart
  <2>3. ASSUME NEW id \in 0 .. n
        PROVE  deposits'[id].status = Released
                 <=> \E i \in 1 .. Len(releases) : /\ releases[i].depositId = id
                                                   /\ releases[i].amount = deposits'[id].amount
    <3>1. CASE id = n
      <4>1. deposits'[id].status # Released
        BY <3>1, <1>8 DEF new, Locked, Released
      <4>2. \A i \in 1 .. Len(releases) : releases[i].depositId # n
        BY <1>3 DEF PayoutPart
      <4> QED BY <3>1, <4>1, <4>2
    <3>2. CASE id # n
      <4>1. id \in 0 .. n - 1
        BY <3>2, <1>3
      <4> QED BY <4>1, <1>8, <1>3 DEF PayoutPart, ReleasedOnce
    <3> QED BY <3>1, <3>2
  <2> QED BY <2>1, <2>2, <2>3, <1>3 DEF PayoutPart, ReleasedOnce
<1>12. Solvent'
  <2> DEFINE D == 0 .. n - 1  L == locked_amounts  M == locked_amounts'
  <2>1. /\ IsFiniteSet(D) /\ \A id \in D : L[id] \in Nat
        /\ DOMAIN deposits = D /\ SumOver(L, D) \in Nat
    BY <1>3, LockedAmounts
  <2>2. DOMAIN deposits' = D \cup {n} /\ n \notin D
    BY <1>8, <1>3
  <2>3. \A id \in D : M[id] = L[id]
    BY <1>8, <2>1, <2>2 DEF locked_amounts
  <2>4. M[n] = a
    <3>1. new.status = Locked /\ new.amount = a
      OBVIOUS
    <3> HIDE DEF new
    <3>2. deposits'[n] = new /\ n \in DOMAIN deposits'
      BY <1>8, <2>2
    <3> QED BY <3>1, <3>2 DEF locked_amounts
  <2> HIDE DEF D, L, M
  <2>5. SumOver(M, D \cup {n}) = a + SumOver(M, D)
    <3>1. \A id \in D \cup {n} : M[id] \in Nat
      BY <2>1, <2>3, <2>4, <1>3
    <3> QED BY <3>1, <2>1, <2>2, <2>4, SumAdd
  <2>6. SumOver(M, D) = SumOver(L, D)
    BY <2>1, <2>3, SumCong
  <2>7. usdc[BridgeAddr] >= SumOver(L, D)
    BY <1>3, <2>1 DEF Solvent, L
  <2>8. usdc'[BridgeAddr] >= SumOver(M, D \cup {n})
    BY <2>1, <2>5, <2>6, <2>7, <1>5, <1>3, <1>4
  <2> QED BY <2>8, <2>2 DEF Solvent, M
<1>13. nextDepositId' <= MaxDeposits
  BY <1>2, <1>3, DeploymentAssumption
<1> QED BY <1>9, <1>10, <1>11, <1>12, <1>13 DEF EthInv

LEMMA ReleaseInv == EthInv /\ ReleaseMultisig => EthInv'
<1> SUFFICES ASSUME EthInv, ReleaseMultisig PROVE EthInv'
  OBVIOUS
<1>1. PICK d \in 0 .. MaxDeposits - 1, r \in Users \cup {BridgeAddr, Zero}, nonce \in Nonces :
        \E signatures \in SignatureLists(releaseHash(d, r, nonce)) : releaseMultisig(d, r, nonce, signatures)
  BY DEF ReleaseMultisig
<1> DEFINE n == nextDepositId
           a == deposits[d].amount
           paid == [depositId |-> d, recipient |-> r, amount |-> a]
<1>2. /\ status(d) = Locked /\ r # Zero
      /\ usedWithdrawalNonces' = usedWithdrawalNonces \cup {nonce}
      /\ deposits' = [deposits EXCEPT ![d].status = Released]
      /\ usdc[BridgeAddr] >= a
      /\ usdc' = IF BridgeAddr = r THEN usdc ELSE [usdc EXCEPT ![BridgeAddr] = @ - a, ![r] = @ + a]
      /\ releases' = Append(releases, paid)
      /\ UNCHANGED <<adminVars, lockVars>>
  BY <1>1 DEF releaseMultisig, usdc_transfer
<1>3. /\ EthTypeOK /\ ThresholdReachable /\ PayoutPart /\ Solvent /\ n \in Nat
      /\ DOMAIN deposits = 0 .. n - 1 /\ nextDepositId' = n
  BY <1>2 DEF EthInv, EthTypeOK, lockVars
<1>4. d \in 0 .. n - 1 /\ deposits[d].status = Locked
  BY <1>2, <1>3 DEF status, Locked
<1>5. /\ \A id \in 0 .. n - 1 : deposits[id] \in DepositRecords
      /\ a \in DepositSums /\ a \in Nat
  BY <1>3, <1>4, DeploymentAssumption DEF EthTypeOK, DepositRecords
<1>6. /\ DOMAIN deposits' = 0 .. n - 1
      /\ \A id \in 0 .. n - 1 : deposits'[id].amount = deposits[id].amount
      /\ \A id \in 0 .. n - 1 : deposits'[id].status = IF id = d THEN Released ELSE deposits[id].status
      /\ \A id \in 0 .. n - 1 : deposits'[id] \in DepositRecords
  BY <1>2, <1>3, <1>4, <1>5 DEF DepositRecords, Released
<1>7. /\ r \in Accounts /\ BridgeAddr \in Accounts /\ r \in Users \cup {BridgeAddr}
      /\ \A x \in Accounts : usdc[x] \in Nat /\ DOMAIN usdc = Accounts
  BY <1>2, <1>3 DEF EthTypeOK, Accounts
<1>8. /\ DOMAIN usdc' = Accounts /\ \A x \in Accounts : usdc'[x] \in Nat
      /\ usdc'[BridgeAddr] >= usdc[BridgeAddr] - a
  <2> HIDE DEF a
  <2>1. CASE r = BridgeAddr
    BY <2>1, <1>2, <1>5, <1>7
  <2>2. CASE r # BridgeAddr
    <3>1. usdc' = [usdc EXCEPT ![BridgeAddr] = @ - a, ![r] = @ + a]
      BY <2>2, <1>2
    <3>2. /\ DOMAIN usdc' = Accounts /\ usdc'[BridgeAddr] = usdc[BridgeAddr] - a
          /\ usdc'[r] = usdc[r] + a
          /\ \A x \in Accounts \ {r, BridgeAddr} : usdc'[x] = usdc[x]
      BY <2>2, <3>1, <1>7
    <3>3. usdc[BridgeAddr] \in Nat /\ usdc[r] \in Nat
      BY <1>7
    <3>4. usdc'[BridgeAddr] \in Nat /\ usdc'[r] \in Nat /\ usdc'[BridgeAddr] >= usdc[BridgeAddr] - a
      BY <3>2, <3>3, <1>2, <1>5
    <3>5. \A x \in Accounts : usdc'[x] \in Nat
      BY <3>2, <3>4, <1>7
    <3> QED BY <3>2, <3>4, <3>5
  <2> QED BY <2>1, <2>2
<1>9. EthTypeOK'
  <2>1. deposits' \in [0 .. n - 1 -> DepositRecords]
    BY <1>2, <1>3, <1>6
  <2> QED BY <1>2, <1>3, <1>8, <2>1 DEF EthTypeOK, adminVars, lockVars
<1>10. ThresholdReachable'
  BY <1>2, <1>3 DEF ThresholdReachable, adminVars
<1>11. PayoutPart'
  <2> DEFINE m == Len(releases)
  <2>1. /\ paid \in Payouts /\ releases \in Seq(Payouts)
        /\ paid.depositId = d /\ paid.amount = a
    BY <1>3, <1>4, <1>5, <1>7 DEF Payouts, PayoutPart
  <2> HIDE DEF paid
  <2>2. /\ m \in Nat /\ releases' \in Seq(Payouts) /\ Len(releases') = m + 1
        /\ \A i \in 1 .. m : releases'[i] = releases[i]
        /\ releases'[m + 1] = paid
    BY <1>2, <2>1
  <2>3. /\ \A i \in 1 .. m : /\ releases[i].depositId \in 0 .. n - 1
                             /\ releases[i].amount = deposits[releases[i].depositId].amount
                             /\ deposits[releases[i].depositId].status = Released
        /\ \A i, j \in 1 .. m : releases[i].depositId = releases[j].depositId => i = j
        /\ \A id \in 0 .. n - 1 : deposits[id].status = Released
              => \E i \in 1 .. m : releases[i].depositId = id
    BY <1>3 DEF PayoutPart, ReleasedOnce
  <2>4. \A i \in 1 .. m : releases[i].depositId # d
    BY <2>3, <1>4 DEF Locked, Released
  <2> HIDE DEF m, a
  <2>5. ASSUME NEW i \in 1 .. m + 1
        PROVE  /\ releases'[i].depositId \in 0 .. n - 1
               /\ releases'[i].amount = deposits'[releases'[i].depositId].amount
               /\ deposits'[releases'[i].depositId].status = Released
    <3>1. CASE i \in 1 .. m
      BY <3>1, <2>2, <2>3, <1>6
    <3>2. CASE i = m + 1
      BY <3>2, <2>1, <2>2, <1>4, <1>6 DEF a
    <3> QED BY <3>1, <3>2, <2>2
  <2>6. \A i, j \in 1 .. m + 1 : releases'[i].depositId = releases'[j].depositId => i = j
    <3>1. \A i \in 1 .. m + 1 : i \in 1 .. m \/ i = m + 1
      BY <2>2
    <3>2. releases'[m + 1].depositId = d /\ \A i \in 1 .. m : releases'[i].depositId = releases[i].depositId
      BY <2>1, <2>2
    <3> QED BY <3>1, <3>2, <2>3, <2>4
  <2>7. ASSUME NEW id \in 0 .. n - 1, deposits'[id].status = Released
        PROVE  \E i \in 1 .. m + 1 : releases'[i].depositId = id
    <3>1. CASE id = d
      <4>1. m + 1 \in 1 .. m + 1
        BY <2>2
      <4> QED BY <3>1, <4>1, <2>1, <2>2
    <3>2. CASE id # d
      <4>1. PICK i \in 1 .. m : releases[i].depositId = id
        BY <3>2, <2>3, <2>7, <1>6
      <4>2. i \in 1 .. m + 1 /\ releases'[i] = releases[i]
        BY <2>2
      <4> QED BY <4>1, <4>2
    <3> QED BY <3>1, <3>2
  <2>8. ReleasedOnce'
    <3>1. ASSUME NEW id \in 0 .. n - 1
          PROVE  deposits'[id].status = Released
                   <=> \E i \in 1 .. m + 1 : /\ releases'[i].depositId = id
                                             /\ releases'[i].amount = deposits'[id].amount
      BY <2>5, <2>7
    <3> QED BY <3>1, <2>2, <2>6, <1>3 DEF ReleasedOnce
  <2> QED BY <2>2, <2>5, <2>8, <1>3 DEF PayoutPart
<1>12. Solvent'
  <2> DEFINE D == 0 .. n - 1  L == locked_amounts  M == locked_amounts'
  <2>1. /\ IsFiniteSet(D) /\ \A id \in D : L[id] \in Nat
        /\ DOMAIN deposits = D /\ SumOver(L, D) \in Nat
    BY <1>3, LockedAmounts
  <2>2. /\ DOMAIN deposits' = D /\ d \in D
        /\ L[d] = a /\ M[d] = 0 /\ \A id \in D \ {d} : M[id] = L[id]
    BY <1>4, <1>6, <2>1 DEF locked_amounts, Locked, Released
  <2>3. usdc[BridgeAddr] >= SumOver(L, D)
    BY <1>3, <2>1 DEF Solvent
  <2> HIDE DEF D, L, M, a
  <2>4. IsFiniteSet(D \ {d}) /\ \A id \in D \ {d} : M[id] \in Nat
    BY <2>1, <2>2, FS_RemoveElement
  <2>5. SumOver(L, D) = a + SumOver(L, D \ {d})
    BY <2>1, <2>2, SumRemove
  <2>6. SumOver(M, D) = 0 + SumOver(M, D \ {d})
    <3>1. \A id \in D : M[id] \in Nat
      BY <2>1, <2>2
    <3> QED BY <3>1, <2>1, <2>2, SumRemove
  <2>7. SumOver(M, D \ {d}) = SumOver(L, D \ {d}) /\ SumOver(M, D \ {d}) \in Nat
    BY <2>2, <2>4, SumCong, SumNat
  <2>8. usdc'[BridgeAddr] >= SumOver(M, D)
    BY <2>1, <2>3, <2>5, <2>6, <2>7, <1>5, <1>7, <1>8
  <2> QED BY <2>8, <2>2 DEF Solvent, M
<1>13. nextDepositId' <= MaxDeposits
  BY <1>3 DEF EthInv
<1> QED BY <1>9, <1>10, <1>11, <1>12, <1>13 DEF EthInv

\* Every transaction and every block keeps the invariant.
LEMMA EthNextInv == EthInv /\ [EthNext]_ethVars => EthInv'
<1> SUFFICES ASSUME EthInv, [EthNext]_ethVars PROVE EthInv'
  OBVIOUS
<1>1. CASE UNCHANGED ethVars
  <2>1. locked_amounts' = locked_amounts
    BY <1>1 DEF locked_amounts, ethVars
  <2> QED BY <1>1, <2>1 DEF ethVars, adminVars, lockVars, EthInv, EthTypeOK, ThresholdReachable,
                            PayoutPart, ReleasedOnce, Solvent
<1>2. CASE EthNext
  BY <1>2, AddSignerInv, RemoveSignerInv, OwnerStepsInv, DepositInv, ReleaseInv DEF EthNext
<1> QED BY <1>1, <1>2

LEMMA EthInvariant == EthSpec => []EthInv
BY EthInitInv, EthNextInv, PTL DEF EthSpec
-----------------------------------------------------------------------------
\* One turn of the counting loop.
count_one(seen, payload, signature) ==
    IF Cardinality(seen) < threshold /\ _isRelayer(recoverSigner(payload, signature))
      THEN seen \cup {recoverSigner(payload, signature)} ELSE seen

\* f goes through the signers seen in the first n signatures.
IsCount(f, payload, signatures, n) ==
    f = [i \in 0 .. n |-> IF i = 0 THEN {} ELSE count_one(f[i - 1], payload, signatures[i])]

\* The loop computes something, however many signatures there are.
LEMMA CountExists ==
    ASSUME NEW payload, NEW signatures, NEW n \in Nat
    PROVE  \E f : IsCount(f, payload, signatures, n)
<1> DEFINE T == {k \in Nat : \E f : IsCount(f, payload, signatures, k)}
<1>1. 0 \in T
  <2>1. IsCount([i \in 0 .. 0 |-> {}], payload, signatures, 0)
    BY DEF IsCount
  <2> QED BY <2>1
<1>2. ASSUME NEW k \in T PROVE k + 1 \in T
  <2>1. PICK g : IsCount(g, payload, signatures, k)
    OBVIOUS
  <2> DEFINE h == [i \in 0 .. k + 1 |-> IF i <= k THEN g[i] ELSE count_one(g[k], payload, signatures[k + 1])]
  <2>2. k \in Nat /\ \A i \in 0 .. k : g[i] = IF i = 0 THEN {} ELSE count_one(g[i - 1], payload, signatures[i])
    BY <2>1 DEF IsCount
  <2>3. ASSUME NEW i \in 0 .. k + 1
        PROVE  h[i] = IF i = 0 THEN {} ELSE count_one(h[i - 1], payload, signatures[i])
    BY <2>2
  <2>4. h = [i \in 0 .. k + 1 |-> h[i]]
    OBVIOUS
  <2>5. IsCount(h, payload, signatures, k + 1)
    <3> HIDE DEF h
    <3> QED BY <2>3, <2>4 DEF IsCount
  <2>6. k + 1 \in Nat
    BY <2>2
  <2> HIDE DEF h
  <2> QED BY <2>5, <2>6
<1> HIDE DEF T
<1>3. n \in T
  BY <1>1, <1>2, SetInduction DEF T
<1> QED BY <1>3 DEF T

\* What the loop computes: each set of signers from the one before it.
LEMMA CountDef ==
    ASSUME NEW payload, NEW signatures, Len(signatures) \in Nat
    PROVE  /\ counted(payload, signatures)[0] = {}
           /\ \A i \in 1 .. Len(signatures) :
                counted(payload, signatures)[i]
                  = count_one(counted(payload, signatures)[i - 1], payload, signatures[i])
<1> DEFINE f == counted(payload, signatures)
<1>1. IsCount(f, payload, signatures, Len(signatures))
  <2>1. f = CHOOSE g : IsCount(g, payload, signatures, Len(signatures))
    BY DEF counted, IsCount, count_one
  <2>2. \E g : IsCount(g, payload, signatures, Len(signatures))
    BY CountExists
  <2> HIDE DEF f
  <2> QED BY <2>1, <2>2
<1> HIDE DEF f
<1>2. f[0] = {} /\ \A i \in 1 .. Len(signatures) : f[i] = count_one(f[i - 1], payload, signatures[i])
  <2> DEFINE n == Len(signatures)
  <2>1. \A i \in 0 .. n : f[i] = IF i = 0 THEN {} ELSE count_one(f[i - 1], payload, signatures[i])
    BY <1>1, Zenon DEF IsCount
  <2>2. 0 \in 0 .. n /\ \A i \in 1 .. n : i \in 0 .. n /\ i # 0
    OBVIOUS
  <2> HIDE DEF n
  <2>3. f[0] = {} /\ \A i \in 1 .. n : f[i] = count_one(f[i - 1], payload, signatures[i])
    BY <2>1, <2>2, Zenon
  <2> QED BY <2>3 DEF n
<1> QED BY <1>2 DEF f

\* The current signers among the first n signatures that signed the payload.
SignedBy(payload, signatures, n) ==
    {s \in Signers : /\ \E j \in 1 .. Len(relayerSigners) : relayerSigners[j] = s
                     /\ \E i \in 1 .. n : signatures[i] = [signer |-> s, payload |-> payload]}

\* There are at most as many signers as signatures.
LEMMA SignedByBound ==
    ASSUME NEW payload, NEW signatures, NEW n \in Nat
    PROVE  /\ IsFiniteSet(SignedBy(payload, signatures, n))
           /\ Cardinality(SignedBy(payload, signatures, n)) <= n
           /\ Cardinality(SignedBy(payload, signatures, n)) \in Nat
<1> DEFINE B == SignedBy(payload, signatures, n)
           at == [s \in B |-> CHOOSE i \in 1 .. n : signatures[i] = [signer |-> s, payload |-> payload]]
<1>1. ASSUME NEW s \in B PROVE at[s] \in 1 .. n /\ signatures[at[s]].signer = s
  <2>1. \E i \in 1 .. n : signatures[i] = [signer |-> s, payload |-> payload]
    BY DEF SignedBy
  <2>2. at[s] \in 1 .. n /\ signatures[at[s]] = [signer |-> s, payload |-> payload]
    BY <2>1
  <2>3. [signer |-> s, payload |-> payload].signer = s
    OBVIOUS
  <2> HIDE DEF at
  <2> QED BY <2>2, <2>3
<1>2. DOMAIN at = B
  OBVIOUS
<1>3. at = [s \in B |-> at[s]]
  OBVIOUS
<1> HIDE DEF at, B
<1>4. at \in Injection(B, 1 .. n)
  BY <1>1, <1>3 DEF Injection, IsInjective
<1>5. IsFiniteSet(1 .. n) /\ Cardinality(1 .. n) = n
  BY FS_Interval
<1>6. IsFiniteSet(B) /\ Cardinality(B) <= n
  BY <1>4, <1>5, FS_Injection
<1>7. Cardinality(B) \in Nat
  BY <1>6, FS_CardinalityType
<1> QED BY <1>6, <1>7 DEF B

\* Until the threshold is reached the loop has seen exactly these signers;
\* after that, a threshold of them.
LEMMA CountExact ==
    ASSUME NEW payload, NEW signatures, Len(signatures) \in Nat,
           EthTypeOK,
           \A i \in 1 .. Len(signatures) :
              signatures[i] = [signer |-> signatures[i].signer, payload |-> signatures[i].payload],
           NEW n \in 0 .. Len(signatures)
    PROVE  /\ counted(payload, signatures)[n] \subseteq SignedBy(payload, signatures, n)
           /\ \/ Cardinality(counted(payload, signatures)[n]) >= threshold
              \/ counted(payload, signatures)[n] = SignedBy(payload, signatures, n)
<1> DEFINE f == counted(payload, signatures)
           B(i) == SignedBy(payload, signatures, i)
           Ok(i) == /\ f[i] \subseteq B(i)
                    /\ Cardinality(f[i]) >= threshold \/ f[i] = B(i)
           T == {i \in Nat : i <= Len(signatures) => Ok(i)}
<1>1. f[0] = {} /\ \A i \in 1 .. Len(signatures) : f[i] = count_one(f[i - 1], payload, signatures[i])
  BY CountDef
<1>2. 0 \in T
  <2>1. B(0) = {}
    BY DEF SignedBy
  <2> QED BY <1>1, <2>1
<1>3. ASSUME NEW i \in T PROVE i + 1 \in T
  <2> SUFFICES ASSUME i + 1 <= Len(signatures) PROVE Ok(i + 1)
    OBVIOUS
  <2> DEFINE who == recoverSigner(payload, signatures[i + 1])
             sig == signatures[i + 1]
  <2>1. Ok(i) /\ i \in Nat /\ i + 1 \in 1 .. Len(signatures) /\ (i + 1) - 1 = i
    OBVIOUS
  <2>2. f[i + 1] = count_one(f[i], payload, sig)
    BY <1>1, <2>1
  <2>3. sig = [signer |-> sig.signer, payload |-> sig.payload]
    BY <2>1
  <2>4. \A s \in Signers : sig = [signer |-> s, payload |-> payload] <=> who = s
    BY <2>3, DeploymentAssumption DEF recoverSigner, Accounts
  <2>5. _isRelayer(who) => who \in Signers
    BY DEF _isRelayer, EthTypeOK
  <2>6. B(i + 1) = B(i) \cup {s \in Signers : _isRelayer(s) /\ sig = [signer |-> s, payload |-> payload]}
    BY <2>1 DEF SignedBy, _isRelayer
  <2> HIDE DEF who, sig, f
  <2>7. B(i + 1) = IF _isRelayer(who) THEN B(i) \cup {who} ELSE B(i)
    <3> HIDE DEF B
    <3> QED BY <2>4, <2>5, <2>6
  <2>8. f[i + 1] = IF Cardinality(f[i]) < threshold /\ _isRelayer(who) THEN f[i] \cup {who} ELSE f[i]
    BY <2>2 DEF count_one, who, sig
  <2>9. threshold \in Nat /\ Cardinality(f[i]) \in Nat
    <3>1. IsFiniteSet(B(i))
      BY <2>1, SignedByBound
    <3>2. IsFiniteSet(f[i])
      <4> HIDE DEF B
      <4> QED BY <3>1, <2>1, FS_Subset
    <3> QED BY <3>2, FS_CardinalityType DEF EthTypeOK
  <2> HIDE DEF B
  <2>10. CASE Cardinality(f[i]) < threshold
    <3>1. f[i] = B(i)
      BY <2>1, <2>9, <2>10
    <3> QED BY <3>1, <2>7, <2>8, <2>10
  <2>11. CASE ~ (Cardinality(f[i]) < threshold)
    <3>1. f[i + 1] = f[i] /\ Cardinality(f[i]) >= threshold
      BY <2>8, <2>9, <2>11
    <3> QED BY <3>1, <2>7, <2>1
  <2> QED BY <2>10, <2>11
<1> HIDE DEF T
<1>4. n \in T
  <2>1. T \in SUBSET Nat /\ n \in Nat
    BY DEF T
  <2> QED BY <1>2, <1>3, <2>1, SetInduction
<1>5. n <= Len(signatures)
  OBVIOUS
<1> QED BY <1>4, <1>5 DEF T

LEMMA MultisigIsExact == EthInv => MultisigExact
<1> SUFFICES ASSUME EthInv,
                    NEW d \in DOMAIN deposits, NEW r \in Users, NEW nonce \in Nonces \ usedWithdrawalNonces,
                    NEW signatures \in SignatureLists(releaseHash(d, r, nonce)),
                    \A i \in 1 .. Len(signatures) : signatures[i] # malformed
             PROVE  multisig_passes(releaseHash(d, r, nonce), signatures)
                      <=> Cardinality(SignedBy(releaseHash(d, r, nonce), signatures, Len(signatures))) >= threshold
  BY DEF MultisigExact, SignedBy
<1> DEFINE payload == releaseHash(d, r, nonce)
           n == Len(signatures)
           f == counted(payload, signatures)
           B == SignedBy(payload, signatures, n)
<1>1. EthTypeOK /\ threshold \in Nat
  BY DEF EthInv, EthTypeOK
<1>2. d \in 0 .. MaxDeposits - 1
  BY DeploymentAssumption DEF EthInv, EthTypeOK
<1>3. /\ n \in Nat /\ n \in 0 .. n
      /\ \A i \in 1 .. n : signatures[i] = [signer |-> signatures[i].signer, payload |-> signatures[i].payload]
  BY <1>2, SignatureAssumption
<1> HIDE DEF payload
<1>4. f[n] \subseteq B /\ (Cardinality(f[n]) >= threshold \/ f[n] = B)
  BY <1>1, <1>3, CountExact
<1>5. IsFiniteSet(B) /\ Cardinality(B) <= n /\ Cardinality(B) \in Nat
  BY <1>3, SignedByBound
<1>6. multisig_passes(payload, signatures) <=> n >= threshold /\ Cardinality(f[n]) >= threshold
  BY DEF multisig_passes
<1> HIDE DEF f, B
<1>7. Cardinality(f[n]) <= Cardinality(B) /\ Cardinality(f[n]) \in Nat
  <2>1. IsFiniteSet(f[n]) /\ Cardinality(f[n]) <= Cardinality(B)
    BY <1>4, <1>5, FS_Subset
  <2> QED BY <2>1, FS_CardinalityType
<1>8. multisig_passes(payload, signatures) <=> Cardinality(B) >= threshold
  BY <1>1, <1>3, <1>4, <1>5, <1>6, <1>7
<1> QED BY <1>8 DEF payload, B
-----------------------------------------------------------------------------
(***************************************************************************)
(* The storage of the contract and the balances of the token have their    *)
(* types in every reachable state: no transfer takes a balance below zero, *)
(* no rotation of signers leaves a gap.                                    *)
(***************************************************************************)
THEOREM ContractTypeCorrect == EthSpec => []EthTypeOK
<1>1. EthInv => EthTypeOK
  BY DEF EthInv
<1> QED BY <1>1, EthInvariant, PTL

(***************************************************************************)
(* addSigner, removeSigner and setThreshold, in any order, leave at least  *)
(* threshold distinct signers and at most MAX_SIGNERS.                     *)
(***************************************************************************)
THEOREM ThresholdAlwaysReachable == EthSpec => []ThresholdReachable
<1>1. EthInv => ThresholdReachable
  BY DEF EthInv
<1> QED BY <1>1, EthInvariant, PTL

(***************************************************************************)
(* The counting loop of releaseMultisig accepts a well-formed list exactly *)
(* when a threshold of current signers signed this release, for every list *)
(* of signatures.                                                          *)
(***************************************************************************)
THEOREM MultisigAlwaysExact == EthSpec => []MultisigExact
BY MultisigIsExact, EthInvariant, PTL

(***************************************************************************)
(* releaseMultisig pays a deposit at most once, for its amount, and the    *)
(* deposits with the status Released are the ones paid.                    *)
(***************************************************************************)
THEOREM ReleasesHappenOnce == EthSpec => []ReleasedOnce
<1>1. EthInv => ReleasedOnce
  BY DEF EthInv, PayoutPart
<1> QED BY <1>1, EthInvariant, PTL

(***************************************************************************)
(* The contract holds the USDC of every locked deposit, so no release can  *)
(* fail for want of funds.                                                 *)
(***************************************************************************)
THEOREM ContractStaysSolvent == EthSpec => []Solvent
<1>1. EthInv => Solvent
  BY DEF EthInv
<1> QED BY <1>1, EthInvariant, PTL
-----------------------------------------------------------------------------
\* The system.
Ids == 0 .. nextDepositId - 1           \* the deposits there are
Events == {event(d) : d \in Ids}        \* and what was logged of them

Landed == {d \in Ids : on_rollup(d)}
Between(after, upto) == {d \in Ids : after < deposit_block[d] /\ deposit_block[d] <= upto}

\* What the relayer keeps, in memory and in its file: a position such that
\* every deposit between where the relayer began to look and that position
\* is on the rollup or queued.
Positions ==
    {s \in [lastBlock : Int, claimed : SUBSET Landed, pendingRetry : Seq(Events)] :
        /\ s.lastBlock <= block_number
        /\ Between(origin, s.lastBlock) \subseteq Landed \cup Queued(s.pendingRetry)}

PositionPart == disk \in Positions /\ mem \in Positions

LoopType ==
    /\ pc \in {"down", "top", "retry", "retry_wait", "poll", "scan", "scan_wait"}
    /\ todo \in Seq(Events) /\ still \in Seq(Events)
    /\ to_block \in Int /\ to_block <= block_number /\ origin \in Int
    /\ pc \in Waiting => todo # << >>

\* Every queued deposit is on the rollup, queued again or still to be tried.
RetryPart ==
    pc \in {"retry", "retry_wait"} =>
       Queued(mem.pendingRetry) \subseteq Landed \cup Queued(still) \cup Queued(todo)

\* Every deposit of the blocks being scanned is on the rollup, queued or
\* still to be tried.
ScanPart ==
    pc \in {"scan", "scan_wait"} =>
       Between(mem.lastBlock, to_block) \subseteq Landed \cup Queued(mem.pendingRetry) \cup Queued(todo)

LoopPart == PositionPart /\ LoopType /\ RetryPart /\ ScanPart

\* A queue names no deposit twice, and none of a set.
Distinct(list) == \A i, j \in 1 .. Len(list) : list[i].depositId = list[j].depositId => i = j
Apart(list, ids) == Distinct(list) /\ Queued(list) \cap ids = {}

\* No deposit is queued twice, or queued and claimed: in the file always; in
\* memory but for a round of retries, in which what is claimed leaves todo
\* and is not put into stillPending.
ExactPart ==
    /\ Apart(disk.pendingRetry, disk.claimed)
    /\ pc \notin {"retry", "retry_wait"} => Apart(mem.pendingRetry, mem.claimed)
    /\ pc \in {"retry", "retry_wait"} =>
          /\ Apart(still, mem.claimed) /\ Apart(todo, mem.claimed)
          /\ Queued(still) \cap Queued(todo) = {}
    /\ pc = "scan_wait" => Head(todo).depositId \notin mem.claimed \cup Queued(mem.pendingRetry)

\* Transactions on the way claim deposits there are; releases are the
\* relayer's.
RollupTxs == {ClaimTx(e) : e \in Events} \cup {WithdrawTx(d, r) : d \in DepositIds, r \in Users}
ReleaseTxs == {[deposit_id |-> d, recipient |-> r, nonce |-> withdrawal_nonce(d, r, minute)] :
                 d \in DepositIds, r \in Users, minute \in Minutes}

HandlersOk ==
    /\ handlers \in [Handlers -> [at : {"idle", "record", "release", "done"},
                                  deposit_id : DepositIds \cup {0}, recipient : Users \cup {Zero}]]
    /\ \A h \in Handlers : handlers[h].at # "idle" =>
          handlers[h].deposit_id \in DepositIds /\ handlers[h].recipient \in Users

ServerPart == net \subseteq RollupTxs /\ mempool \subseteq ReleaseTxs /\ HandlersOk

\* The invariants of the two chains, and what ties the rollup to Ethereum:
\* what is credited was locked, with the same amount and recipient.
CreditsMatch ==
    \A c \in claims : /\ c.deposit_id < nextDepositId
                      /\ c.amount = deposits[c.deposit_id].amount
                      /\ c.commitment = deposits[c.deposit_id].obscuraRecipient

ChainsPart ==
    /\ BridgeInv /\ EthInv /\ block_number <= MaxBlock
    /\ \A d \in Ids : deposits[d].amount > 0
    /\ CreditsMatch

SystemInv == ChainsPart /\ LoopPart /\ ExactPart /\ ServerPart
-----------------------------------------------------------------------------
\* What a list holds, one element more or less.
LEMMA QueuedEmpty == Queued(<< >>) = {}
BY DEF Queued

LEMMA QueuedAppend ==
    ASSUME NEW S, NEW list \in Seq(S), NEW x
    PROVE  Queued(Append(list, x)) = Queued(list) \cup {x.depositId}
<1> DEFINE n == Len(list)  more == Append(list, x)
<1>1. n \in Nat /\ Len(more) = n + 1 /\ more[n + 1] = x /\ \A i \in 1 .. n : more[i] = list[i]
  OBVIOUS
<1>2. 1 .. n + 1 = (1 .. n) \cup {n + 1}
  BY <1>1
<1> HIDE DEF n, more
<1> QED BY <1>1, <1>2 DEF Queued, n, more

LEMMA QueuedHead ==
    ASSUME NEW S, NEW list \in Seq(S), list # << >>
    PROVE  /\ Head(list) \in S /\ Tail(list) \in Seq(S)
           /\ Queued(list) = {Head(list).depositId} \cup Queued(Tail(list))
<1> DEFINE n == Len(list)  rest == Tail(list)
<1>1. /\ n \in Nat \ {0} /\ Len(rest) = n - 1 /\ Head(list) = list[1]
      /\ \A i \in 1 .. n - 1 : rest[i] = list[i + 1]
      /\ Head(list) \in S /\ rest \in Seq(S)
  OBVIOUS
<1>2. \A i \in 1 .. n : i = 1 \/ (i - 1 \in 1 .. n - 1 /\ (i - 1) + 1 = i)
  BY <1>1
<1>3. \A i \in 1 .. n - 1 : i + 1 \in 1 .. n
  BY <1>1
<1>4. 1 \in 1 .. n
  BY <1>1
<1> HIDE DEF n, rest
<1>5. ASSUME NEW i \in 1 .. n PROVE list[i].depositId \in {Head(list).depositId} \cup Queued(rest)
  <2>1. CASE i = 1
    BY <2>1, <1>1
  <2>2. CASE i - 1 \in 1 .. n - 1 /\ (i - 1) + 1 = i
    <3>1. list[i] = rest[i - 1]
      BY <2>2, <1>1
    <3> QED BY <3>1, <2>2, <1>1 DEF Queued
  <2> QED BY <2>1, <2>2, <1>2
<1>6. {Head(list).depositId} \cup Queued(rest) \subseteq Queued(list)
  BY <1>1, <1>3, <1>4 DEF Queued, n
<1>7. Queued(list) \subseteq {Head(list).depositId} \cup Queued(rest)
  BY <1>5 DEF Queued, n
<1> QED BY <1>1, <1>6, <1>7 DEF rest

\* What is apart stays so when an element is added, or taken from the front.
LEMMA ApartAppend ==
    ASSUME NEW S, NEW list \in Seq(S), NEW x, NEW ids, Apart(list, ids),
           x.depositId \notin Queued(list) \cup ids
    PROVE  Apart(Append(list, x), ids)
<1> DEFINE n == Len(list)  more == Append(list, x)
<1>1. n \in Nat /\ Len(more) = n + 1 /\ more[n + 1] = x /\ \A i \in 1 .. n : more[i] = list[i]
  OBVIOUS
<1>2. \A i \in 1 .. n + 1 : i = n + 1 \/ i \in 1 .. n
  BY <1>1
<1>3. Queued(more) \cap ids = {}
  BY QueuedAppend DEF Apart
<1> HIDE DEF more
<1>4. Distinct(list) /\ \A i \in 1 .. n : list[i].depositId # x.depositId
  BY DEF Apart, Queued
<1> HIDE DEF n
<1>5. Distinct(more)
  BY <1>1, <1>2, <1>4 DEF Distinct, n
<1> QED BY <1>3, <1>5 DEF Apart, more

LEMMA ApartTail ==
    ASSUME NEW S, NEW list \in Seq(S), NEW ids, list # << >>, Apart(list, ids)
    PROVE  Apart(Tail(list), ids) /\ Head(list).depositId \notin Queued(Tail(list)) \cup ids
<1> DEFINE n == Len(list)  rest == Tail(list)
<1>1. /\ n \in Nat \ {0} /\ Len(rest) = n - 1 /\ Head(list) = list[1]
      /\ \A i \in 1 .. n - 1 : rest[i] = list[i + 1]
  OBVIOUS
<1>2. \A i \in 1 .. n - 1 : i + 1 \in 1 .. n /\ i + 1 # 1
  BY <1>1
<1>3. \A i, j \in 1 .. n - 1 : i + 1 = j + 1 => i = j
  BY <1>1
<1>4. 1 \in 1 .. n
  BY <1>1
<1>5. Queued(list) = {Head(list).depositId} \cup Queued(rest)
  BY QueuedHead
<1> HIDE DEF rest
<1>6. Distinct(list) /\ Queued(list) \cap ids = {}
  BY DEF Apart
<1>7. ASSUME NEW i \in 1 .. n - 1, NEW j \in 1 .. n - 1, rest[i].depositId = rest[j].depositId
      PROVE  i = j
  <2>1. i + 1 \in 1 .. n /\ j + 1 \in 1 .. n /\ list[i + 1].depositId = list[j + 1].depositId
    BY <1>1, <1>2, <1>7
  <2>2. i + 1 = j + 1
    BY <2>1, <1>6 DEF Distinct, n
  <2> QED BY <2>2, <1>3
<1>8. ASSUME NEW i \in 1 .. n - 1 PROVE rest[i].depositId # Head(list).depositId
  BY <1>1, <1>2, <1>4, <1>6 DEF Distinct, n
<1>9. Distinct(rest)
  BY <1>1, <1>7 DEF Distinct
<1>10. Head(list).depositId \notin Queued(rest)
  BY <1>1, <1>8 DEF Queued
<1> QED BY <1>5, <1>6, <1>9, <1>10 DEF Apart, rest

LEMMA ApartEmpty == \A ids : Apart(<< >>, ids)
BY DEF Apart, Distinct, Queued
-----------------------------------------------------------------------------
\* f goes through the logs of the first n deposits.
IsLog(f, from, to, n) ==
    f = [i \in 0 .. n |->
           IF i = 0 THEN << >>
           ELSE IF from <= deposit_block[i - 1] /\ deposit_block[i - 1] <= to
                  THEN Append(f[i - 1], event(i - 1))
                  ELSE f[i - 1]]

LEMMA LogExists ==
    ASSUME NEW from, NEW to, NEW n \in Nat
    PROVE  \E f : IsLog(f, from, to, n)
<1> DEFINE T == {k \in Nat : \E f : IsLog(f, from, to, k)}
<1>1. 0 \in T
  <2>1. IsLog([i \in 0 .. 0 |-> << >>], from, to, 0)
    BY DEF IsLog
  <2> QED BY <2>1
<1>2. ASSUME NEW k \in T PROVE k + 1 \in T
  <2>1. PICK g : IsLog(g, from, to, k)
    OBVIOUS
  <2> DEFINE more(h, i) == IF from <= deposit_block[i - 1] /\ deposit_block[i - 1] <= to
                             THEN Append(h[i - 1], event(i - 1)) ELSE h[i - 1]
             f == [i \in 0 .. k + 1 |-> IF i = k + 1 THEN more(g, k + 1) ELSE g[i]]
  <2>2. k \in Nat
    OBVIOUS
  <2>3. \A i \in 0 .. k : f[i] = g[i]
    BY <2>2
  <2>4. \A i \in 0 .. k + 1 : f[i] = IF i = 0 THEN << >> ELSE more(f, i)
    <3> SUFFICES ASSUME NEW i \in 0 .. k + 1 PROVE f[i] = IF i = 0 THEN << >> ELSE more(f, i)
      OBVIOUS
    <3>1. CASE i = k + 1
      <4>1. f[i] = more(g, k + 1) /\ i # 0 /\ i - 1 \in 0 .. k /\ i - 1 = k
        BY <3>1, <2>2
      <4> QED BY <4>1, <2>3, <3>1
    <3>2. CASE i \in 0 .. k
      <4>1. f[i] = g[i] /\ (i # 0 => i - 1 \in 0 .. k)
        BY <3>2, <2>3
      <4>2. g[i] = IF i = 0 THEN << >> ELSE more(g, i)
        BY <3>2, <2>1 DEF IsLog
      <4> QED BY <4>1, <4>2, <2>3
    <3> QED BY <3>1, <3>2, <2>2
  <2>5. f = [i \in 0 .. k + 1 |-> IF i = 0 THEN << >> ELSE more(f, i)]
    BY <2>4
  <2>6. IsLog(f, from, to, k + 1)
    BY <2>5 DEF IsLog, more
  <2> QED BY <2>2, <2>6
<1> HIDE DEF T
<1>3. n \in T
  BY <1>1, <1>2, SetInduction DEF T
<1> QED BY <1>3 DEF T

\* getLogs returns deposits, and leaves none of the range out.
LEMMA LogFacts ==
    ASSUME nextDepositId \in Nat, NEW from, NEW to
    PROVE  /\ getLogs(from, to) \in Seq(Events)
           /\ \A d \in Ids : from <= deposit_block[d] /\ deposit_block[d] <= to
                               => d \in Queued(getLogs(from, to))
<1> DEFINE n == nextDepositId
<1>1. PICK g : IsLog(g, from, to, n) /\ getLogs(from, to) = g[n]
  <2>1. getLogs(from, to) = (CHOOSE g : IsLog(g, from, to, n))[n]
    BY DEF getLogs, IsLog
  <2>2. \E g : IsLog(g, from, to, n)
    BY LogExists
  <2> QED BY <2>1, <2>2
<1> DEFINE In(d) == from <= deposit_block[d] /\ deposit_block[d] <= to
           T == {k \in Nat : k <= n => /\ g[k] \in Seq(Events)
                                       /\ \A d \in 0 .. k - 1 : In(d) => d \in Queued(g[k])}
<1>2. 0 \in T
  BY <1>1 DEF IsLog
<1>3. ASSUME NEW k \in T PROVE k + 1 \in T
  <2> SUFFICES ASSUME k + 1 <= n
               PROVE  /\ g[k + 1] \in Seq(Events)
                      /\ \A d \in 0 .. k : In(d) => d \in Queued(g[k + 1])
    OBVIOUS
  <2>1. k \in Nat /\ k \in Ids /\ k + 1 \in 0 .. n /\ k + 1 # 0 /\ (k + 1) - 1 = k /\ k <= n
    BY DEF Ids
  <2>2. g[k] \in Seq(Events) /\ \A d \in 0 .. k - 1 : In(d) => d \in Queued(g[k])
    BY <2>1
  <2>3. g[k + 1] = IF In(k) THEN Append(g[k], event(k)) ELSE g[k]
    BY <2>1, <1>1 DEF IsLog
  <2>4. \A d \in 0 .. k : d = k \/ d \in 0 .. k - 1
    BY <2>1
  <2> HIDE DEF In
  <2>5. CASE In(k)
    <3>1. g[k + 1] = Append(g[k], event(k)) /\ Queued(g[k + 1]) = Queued(g[k]) \cup {k}
      BY <2>2, <2>3, <2>5, QueuedAppend DEF event
    <3>2. g[k + 1] \in Seq(Events)
      BY <3>1, <2>1, <2>2 DEF Events
    <3> QED BY <3>1, <3>2, <2>2, <2>4
  <2>6. CASE ~ In(k)
    BY <2>2, <2>3, <2>4, <2>6
  <2> QED BY <2>5, <2>6
<1> HIDE DEF T
<1>4. n \in T
  BY <1>2, <1>3, SetInduction DEF T
<1> QED BY <1>1, <1>4 DEF T, Ids
-----------------------------------------------------------------------------
\* What the deposits there are look like.
LEMMA DepositFacts ==
    ASSUME ChainsPart
    PROVE  /\ nextDepositId \in Nat /\ block_number \in Nat /\ Ids \subseteq DepositIds
           /\ DOMAIN deposits = Ids /\ DOMAIN deposit_block = Ids
           /\ \A d \in Ids : /\ d \in Nat /\ d < nextDepositId
                             /\ deposit_block[d] \in Nat \ {0}
                             /\ deposit_block[d] <= block_number + 1
                             /\ deposits[d] \in DepositRecords
                             /\ deposits[d].amount \in DepositSums
                             /\ deposits[d].obscuraRecipient \in ObscuraRecipients
                             /\ public_inputs(event(d)) \in ClaimInputs
<1>1. /\ nextDepositId \in Nat /\ block_number \in Nat /\ nextDepositId <= MaxDeposits
      /\ deposits \in [Ids -> DepositRecords]
      /\ deposit_block \in [Ids -> 1 .. block_number + 1]
      /\ block_number <= MaxBlock
  BY DEF ChainsPart, EthInv, EthTypeOK, Ids
<1>2. MaxDeposits \in Nat /\ MaxBlock \in Nat
  BY DeploymentAssumption
<1>3. Ids \subseteq DepositIds /\ \A d \in Ids : d \in Nat /\ d < nextDepositId
  BY <1>1, <1>2, SystemAssumption DEF Ids
<1>4. ASSUME NEW d \in Ids
      PROVE  /\ deposit_block[d] \in Nat \ {0} /\ deposit_block[d] <= block_number + 1
             /\ deposit_block[d] \in EthBlocks
             /\ deposits[d] \in DepositRecords
             /\ deposits[d].amount \in DepositSums
             /\ deposits[d].obscuraRecipient \in ObscuraRecipients
  <2>1. deposit_block[d] \in 1 .. block_number + 1 /\ deposits[d] \in DepositRecords
    BY <1>1
  <2>2. deposit_block[d] \in 1 .. MaxBlock + 1
    BY <2>1, <1>1, <1>2
  <2>3. deposit_block[d] \in EthBlocks
    BY <2>2, SystemAssumption
  <2> QED BY <2>1, <2>3, <1>1 DEF DepositRecords
<1>5. ASSUME NEW d \in Ids PROVE public_inputs(event(d)) \in ClaimInputs
  <2>1. /\ d \in DepositIds /\ deposits[d].amount \in DepositAmounts
        /\ deposits[d].obscuraRecipient \in Recipients /\ deposit_block[d] \in EthBlocks
        /\ BridgeContract \in Contracts
    BY <1>3, <1>4, SystemAssumption, BridgeAssumption
  <2> QED BY <2>1 DEF public_inputs, event, ClaimInputs
<1> QED BY <1>1, <1>3, <1>4, <1>5

\* An event names a deposit there is, and its entry is a copy of it.
LEMMA EventFacts ==
    ASSUME NEW e \in Events
    PROVE  e.depositId \in Ids /\ e = event(e.depositId) /\ pending(e) = e
BY DEF Events, event, pending

\* A transaction the rollup executes is one of its calls; a claim is for
\* what its deposit says.
LEMMA ExecuteKinds ==
    ASSUME ChainsPart, NEW tx \in RollupTxs, Execute(tx)
    PROVE  /\ ClaimDeposit \/ WithdrawBridge
           /\ \A c \in claims' : \/ c \in claims
                                 \/ /\ c.deposit_id \in Ids
                                    /\ c.amount = deposits[c.deposit_id].amount
                                    /\ c.commitment = deposits[c.deposit_id].obscuraRecipient
<1>1. CASE tx.call = "claim" /\ handle_claim_deposit("OBSbridge", tx.inputs)
  <2>1. PICK d \in Ids : tx.inputs = public_inputs(event(d))
    BY <1>1 DEF RollupTxs, ClaimTx, WithdrawTx, Events
  <2> DEFINE inputs == public_inputs(event(d))
  <2>2. inputs \in ClaimInputs
    BY <2>1, DepositFacts
  <2>3. ClaimDeposit
    BY <2>1, <2>2, <1>1 DEF ClaimDeposit, BridgeProofs
  <2>4. /\ inputs.deposit_id = d /\ inputs.amount = deposits[d].amount
        /\ inputs.obscura_recipient = deposits[d].obscuraRecipient
    BY DEF public_inputs, event
  <2> HIDE DEF inputs
  <2>5. claims' = claims \cup {[deposit_id |-> inputs.deposit_id, amount |-> inputs.amount,
                               commitment |-> inputs.obscura_recipient,
                               leaf |-> tree.next_index + 1,
                               eth_block |-> inputs.eth_block_hash, helios |-> trusted_slot > 0]}
    BY <1>1, <2>1 DEF handle_claim_deposit, inputs
  <2> QED BY <2>1, <2>3, <2>4, <2>5
<1>2. CASE tx.call = "withdraw" /\ handle_withdraw_bridge(tx.deposit_id, tx.recipient)
  <2>1. tx.deposit_id \in DepositIds /\ tx.recipient \in EthRecipients
    BY <1>2, SystemAssumption DEF RollupTxs, ClaimTx, WithdrawTx
  <2>2. WithdrawBridge
    BY <2>1, <1>2 DEF WithdrawBridge
  <2>3. claims' = claims
    BY <1>2 DEF handle_withdraw_bridge, claimVars
  <2> QED BY <2>2, <2>3
<1> QED BY <1>1, <1>2 DEF Execute

\* A release the relayer sent is a call of the contract.
LEMMA ReleaseKind ==
    ASSUME ChainsPart, NEW tx \in ReleaseTxs,
           releaseMultisig(tx.deposit_id, tx.recipient, tx.nonce, two_signatures(tx))
    PROVE  ReleaseMultisig
<1>1. PICK d \in DepositIds, r \in Users, minute \in Minutes :
         tx = [deposit_id |-> d, recipient |-> r, nonce |-> withdrawal_nonce(d, r, minute)]
  BY DEF ReleaseTxs
<1>2. tx.deposit_id = d /\ tx.recipient = r
  BY <1>1
<1>3. tx.nonce \in Nonces /\ two_signatures(tx) \in SignatureLists(releaseHash(d, r, tx.nonce))
  BY <1>1, ReleaseAssumption
<1>4. d \in 0 .. MaxDeposits - 1
  BY SystemAssumption
<1> QED BY <1>2, <1>3, <1>4 DEF ReleaseMultisig

\* What a step does on each chain: one of them moves, or none.
RollupStep == UNCHANGED rollupVars \/ \E tx \in RollupTxs : Execute(tx)
ContractStep == UNCHANGED ethVars \/ EthNext
OneChainMoves == (RollupStep /\ UNCHANGED ethVars) \/ (ContractStep /\ UNCHANGED rollupVars)

LEMMA StepKinds ==
    ASSUME SystemInv, [SystemNext]_systemVars
    PROVE  OneChainMoves
<1>0. ChainsPart /\ LoopType /\ ServerPart /\ nextDepositId \in Nat /\ Ids \subseteq DepositIds
  BY DepositFacts DEF SystemInv, LoopPart
<1> USE DEF OneChainMoves, RollupStep, ContractStep
<1>1. CASE UNCHANGED systemVars
  BY <1>1 DEF systemVars
<1>2. CASE EthStep
  BY <1>2 DEF EthStep, EthNext
<1>3. CASE RelayerStep \/ RelayerPollFails
  BY <1>3 DEF RelayerStep, RelayerPollFails
<1>4. ASSUME NEW d \in DepositIds, ClaimAnswered(d) PROVE OneChainMoves
  <2>1. CASE ClaimRejected(d)
    BY <2>1 DEF ClaimRejected
  <2>2. CASE ClaimExecuted(d)
    <3>1. Head(todo) \in Events
      BY <2>2, <1>0, QueuedHead DEF ClaimExecuted, LoopType
    <3>2. ClaimTx(Head(todo)) \in RollupTxs
      BY <3>1 DEF RollupTxs
    <3> QED BY <3>2, <2>2 DEF ClaimExecuted
  <2> QED BY <2>1, <2>2, <1>4 DEF ClaimAnswered
<1>5. CASE ClaimFails
  BY <1>5 DEF ClaimFails
<1>6. ASSUME NEW tx \in net, LateExecution(tx) \/ Lost(tx) PROVE OneChainMoves
  BY <1>6, <1>0 DEF LateExecution, Lost, ServerPart
<1>7. ASSUME NEW h \in Handlers, NEW d \in DepositIds, NEW r \in Users, Request(h, d, r)
      PROVE  OneChainMoves
  BY <1>7 DEF Request
<1>8. ASSUME NEW h \in Handlers, Recorded(h) PROVE OneChainMoves
  <2>1. handlers[h].deposit_id \in DepositIds /\ handlers[h].recipient \in Users
    BY <1>8, <1>0 DEF Recorded, ServerPart, HandlersOk
  <2>2. WithdrawTx(handlers[h].deposit_id, handlers[h].recipient) \in RollupTxs
    BY <2>1 DEF RollupTxs
  <2> QED BY <2>2, <1>8 DEF Recorded
<1>9. ASSUME NEW h \in Handlers, NEW minute \in Minutes, releaseOnEthereum(h, minute)
      PROVE  OneChainMoves
  BY <1>9 DEF releaseOnEthereum
<1>10. ASSUME NEW tx \in mempool, ReleaseMined(tx) \/ ReleaseReverts(tx)
       PROVE  OneChainMoves
  <2>1. tx \in ReleaseTxs
    BY <1>0 DEF ServerPart
  <2>2. CASE ReleaseMined(tx)
    BY <2>1, <2>2, <1>0, ReleaseKind DEF ReleaseMined, EthNext
  <2>3. CASE ReleaseReverts(tx)
    BY <2>3 DEF ReleaseReverts
  <2> QED BY <2>2, <2>3, <1>10
<1>11. ASSUME NEW torn \in BOOLEAN, ProcessCrash(torn) PROVE OneChainMoves
  BY <1>11 DEF ProcessCrash
<1>12. CASE OtherCaller
  <2>1. PICK d \in Ids, r \in Users : \E tx \in {ClaimTx(event(d)), WithdrawTx(d, r)} : Execute(tx)
    BY <1>12 DEF OtherCaller, Ids
  <2>2. ClaimTx(event(d)) \in RollupTxs /\ WithdrawTx(d, r) \in RollupTxs
    BY <1>0 DEF RollupTxs, Events
  <2> QED BY <2>1, <2>2, <1>12 DEF OtherCaller
<1> QED BY <1>1, <1>2, <1>3, <1>4, <1>5, <1>6, <1>7, <1>8, <1>9, <1>10, <1>11, <1>12 DEF SystemNext
-----------------------------------------------------------------------------
\* Both chains only grow: deposits stay as they are, new ones are in blocks
\* nobody has read, and what is claimed stays claimed.
EthGrows ==
    /\ block_number <= block_number' /\ block_number' <= MaxBlock
    /\ nextDepositId <= nextDepositId'
    /\ \A d \in Ids : /\ deposit_block'[d] = deposit_block[d]
                      /\ deposits'[d].amount = deposits[d].amount
                      /\ deposits'[d].obscuraRecipient = deposits[d].obscuraRecipient
    /\ \A d \in Ids' : d \in Ids \/ (deposit_block'[d] > block_number /\ deposits'[d].amount > 0)
Grows == EthGrows /\ processed_deposits \subseteq processed_deposits'

LEMMA ContractGrows ==
    ASSUME ChainsPart, ContractStep
    PROVE  EthGrows
<1>0. /\ nextDepositId \in Nat /\ block_number \in Nat /\ block_number <= MaxBlock /\ MaxBlock \in Nat
      /\ DOMAIN deposits = Ids /\ \A d \in Ids : d \in Nat /\ d < nextDepositId
      /\ \A d \in Ids : deposits[d] \in DepositRecords
  BY DepositFacts, DeploymentAssumption DEF ChainsPart
<1>1. ASSUME UNCHANGED <<lockVars, deposits>> PROVE EthGrows
  BY <1>0, <1>1 DEF EthGrows, lockVars, Ids
<1>2. CASE MineBlock
  <2>1. block_number' = block_number + 1 /\ block_number < MaxBlock
        /\ UNCHANGED <<nextDepositId, deposits, deposit_block>>
    BY <1>2 DEF MineBlock
  <2> QED BY <1>0, <2>1 DEF EthGrows, Ids
<1>3. CASE Deposit
  <2>1. PICK u \in Users, a \in DepositSums, r \in ObscuraRecipients \cup {NoRecipient} : deposit(u, a, r)
    BY <1>3 DEF Deposit
  <2>2. /\ nextDepositId' = nextDepositId + 1 /\ block_number' = block_number
        /\ \A d \in 0 .. nextDepositId : d # nextDepositId =>
              deposits'[d] = deposits[d] /\ deposit_block'[d] = deposit_block[d]
        /\ deposit_block'[nextDepositId] = block_number + 1
        /\ deposits'[nextDepositId].amount = a /\ a >= MIN_DEPOSIT
    BY <2>1, <1>0 DEF deposit
  <2>3. \A d \in Ids : d \in 0 .. nextDepositId /\ d # nextDepositId
    BY <1>0 DEF Ids
  <2>4. \A d \in Ids' : d \in Ids \/ d = nextDepositId
    <3>1. Ids' = 0 .. (nextDepositId + 1) - 1
      BY <2>2 DEF Ids
    <3>2. \A n \in Nat : \A d \in 0 .. (n + 1) - 1 : d \in 0 .. n - 1 \/ d = n
      OBVIOUS
    <3>3. nextDepositId \in Nat
      BY <1>0
    <3> QED BY <3>1, <3>2, <3>3 DEF Ids
  <2>5. a > 0
    BY <2>2, DeploymentAssumption
  <2> QED BY <2>2, <2>3, <2>4, <2>5, <1>0 DEF EthGrows
<1>4. CASE ReleaseMultisig
  <2>1. PICK id \in 0 .. MaxDeposits - 1, r \in Users \cup {BridgeAddr, Zero}, nonce \in Nonces :
        \E signatures \in SignatureLists(releaseHash(id, r, nonce)) : releaseMultisig(id, r, nonce, signatures)
    BY <1>4 DEF ReleaseMultisig
  <2>2. UNCHANGED lockVars /\ deposits' = [deposits EXCEPT ![id].status = Released]
    BY <2>1 DEF releaseMultisig
  <2>3. \A d \in Ids : /\ deposits'[d].amount = deposits[d].amount
                       /\ deposits'[d].obscuraRecipient = deposits[d].obscuraRecipient
    BY <2>2, <1>0 DEF DepositRecords
  <2> QED BY <2>2, <2>3, <1>0 DEF EthGrows, lockVars, Ids
<1>5. CASE AddSigner \/ RemoveSigner \/ SetThreshold \/ TransferOwnership
  <2>1. UNCHANGED <<lockVars, deposits>>
    BY <1>5 DEF AddSigner, RemoveSigner, SetThreshold, TransferOwnership, addSigner, removeSigner,
                setThreshold, transferOwnership
  <2> QED BY <2>1, <1>1
<1>6. CASE UNCHANGED ethVars
  <2>1. UNCHANGED <<lockVars, deposits>>
    BY <1>6 DEF ethVars
  <2> QED BY <2>1, <1>1
<1> QED BY <1>2, <1>3, <1>4, <1>5, <1>6 DEF ContractStep, EthNext

LEMMA ChainsStep ==
    ASSUME ChainsPart, RollupStep, ContractStep
    PROVE  ChainsPart' /\ Grows
<1>1. EthInv' /\ EthGrows
  BY EthNextInv, ContractGrows DEF ChainsPart, ContractStep
<1>2. ClaimDeposit \/ WithdrawBridge \/ UNCHANGED rollupVars
  BY ExecuteKinds DEF RollupStep
<1>3. BridgeInv'
  BY <1>2, BridgeNextInv DEF ChainsPart, BridgeNext
<1>4. processed_deposits \subseteq processed_deposits'
  <2>1. ClaimDeposit => processed_deposits \subseteq processed_deposits'
    BY DEF ClaimDeposit, handle_claim_deposit
  <2>2. WithdrawBridge => processed_deposits \subseteq processed_deposits'
    BY DEF WithdrawBridge, handle_withdraw_bridge
  <2> QED BY <2>1, <2>2, <1>2 DEF rollupVars, bridgeVars
<1>5. ASSUME NEW c \in claims'
      PROVE  /\ c.deposit_id < nextDepositId'
             /\ c.amount = deposits'[c.deposit_id].amount
             /\ c.commitment = deposits'[c.deposit_id].obscuraRecipient
  <2>1. /\ c.deposit_id \in Ids
        /\ c.amount = deposits[c.deposit_id].amount
        /\ c.commitment = deposits[c.deposit_id].obscuraRecipient
    <3>1. CASE c \in claims
      <4>1. c.deposit_id \in DepositIds
        BY <3>1 DEF ChainsPart, BridgeInv, ClaimPart, Claims
      <4>2. c.deposit_id \in Ids
        BY <4>1, <3>1, DepositFacts, SystemAssumption DEF ChainsPart, CreditsMatch, Ids
      <4> QED BY <4>2, <3>1 DEF ChainsPart, CreditsMatch
    <3>2. CASE c \notin claims
      BY <3>2, ExecuteKinds DEF RollupStep, rollupVars, bridgeVars, claimVars
    <3> QED BY <3>1, <3>2
  <2>2. c.deposit_id < nextDepositId'
    <3>1. nextDepositId \in Nat /\ nextDepositId' \in Nat
      BY <1>1, DepositFacts DEF EthInv, EthTypeOK
    <3> QED BY <3>1, <2>1, <1>1, DepositFacts DEF EthGrows
  <2> QED BY <2>1, <2>2, <1>1 DEF EthGrows
<1>6. CreditsMatch'
  BY <1>5 DEF CreditsMatch
<1>7. \A d \in Ids' : deposits'[d].amount > 0
  BY <1>1 DEF ChainsPart, EthGrows
<1> QED BY <1>1, <1>3, <1>4, <1>6, <1>7 DEF ChainsPart, Grows, EthGrows
-----------------------------------------------------------------------------
\* A step of the chains, seen from the relayer.
Context == ChainsPart /\ LoopPart /\ ChainsPart' /\ Grows

\* The deposits there are stay, landed ones stay landed, and none appears
\* in a block that was read.
LEMMA IdsStay ==
    ASSUME Context
    PROVE  /\ Ids \subseteq Ids' /\ Landed \subseteq Landed'
           /\ Events \subseteq Events' /\ Seq(Events) \subseteq Seq(Events')
           /\ block_number \in Nat /\ block_number' \in Nat /\ block_number <= block_number'
           /\ \A lo, hi \in Int : hi <= block_number => Between(lo, hi)' = Between(lo, hi)
<1>1. /\ nextDepositId \in Nat /\ block_number \in Nat
      /\ \A d \in Ids : deposit_block[d] \in Nat
  BY DepositFacts DEF Context
<1>2. nextDepositId' \in Nat /\ block_number' \in Nat
  BY DEF Context, ChainsPart, EthInv, EthTypeOK
<1>3. Ids \subseteq Ids'
  <2>1. nextDepositId <= nextDepositId'
    BY DEF Context, Grows, EthGrows
  <2>2. nextDepositId \in Int /\ nextDepositId' \in Int
    BY <1>1, <1>2
  <2>3. \A m, n \in Int : m <= n => 0 .. m - 1 \subseteq 0 .. n - 1
    OBVIOUS
  <2> QED BY <2>1, <2>2, <2>3, Zenon DEF Ids
<1>4. Landed \subseteq Landed'
  BY <1>3 DEF Landed, on_rollup, Context, Grows, deposit_key
<1>5. ASSUME NEW lo \in Int, NEW hi \in Int, hi <= block_number
      PROVE  Between(lo, hi)' = Between(lo, hi)
  <2>1. ASSUME NEW d \in Ids PROVE d \in Ids' /\ deposit_block'[d] = deposit_block[d]
    BY <1>3 DEF Context, Grows, EthGrows
  <2>2. ASSUME NEW d \in Ids', deposit_block'[d] <= hi PROVE d \in Ids
    <3> SUFFICES ASSUME d \notin Ids PROVE FALSE
      OBVIOUS
    <3>1. deposit_block'[d] > block_number
      BY DEF Context, Grows, EthGrows
    <3>2. deposit_block' \in [Ids' -> 1 .. block_number' + 1]
      BY DEF Context, ChainsPart, EthInv, EthTypeOK, Ids
    <3>3. deposit_block'[d] \in Int
      BY <3>2, <1>2
    <3> QED BY <3>1, <3>3, <2>2, <1>5, <1>1
  <2> QED BY <2>1, <2>2 DEF Between
<1>6. Events \subseteq Events'
  <2> SUFFICES ASSUME NEW d \in Ids PROVE event(d) \in Events'
    BY DEF Events
  <2>1. event(d)' = event(d)
    BY DEF event, Context, Grows, EthGrows
  <2> QED BY <2>1, <1>3 DEF Events
<1>7. block_number <= block_number'
  BY DEF Context, Grows, EthGrows
<1>8. Seq(Events) \subseteq Seq(Events')
  BY <1>6
<1> QED BY <1>1, <1>2, <1>3, <1>4, <1>5, <1>6, <1>7, <1>8

\* A position stays one.
LEMMA PositionsStay ==
    ASSUME Context, UNCHANGED origin
    PROVE  Positions \subseteq Positions'
<1> SUFFICES ASSUME NEW s \in Positions PROVE s \in Positions'
  OBVIOUS
<1>1. /\ s \in [lastBlock : Int, claimed : SUBSET Landed, pendingRetry : Seq(Events)]
      /\ s.lastBlock <= block_number /\ s.lastBlock \in Int
      /\ Between(origin, s.lastBlock) \subseteq Landed \cup Queued(s.pendingRetry)
  BY DEF Positions
<1>2. s \in [lastBlock : Int, claimed : SUBSET Landed', pendingRetry : Seq(Events')]
  BY <1>1, IdsStay
<1>3. s.lastBlock <= block_number'
  BY <1>1, IdsStay
<1>4. origin \in Int
  BY DEF Context, LoopPart, LoopType
<1>5. \A lo \in Int : Between(lo, s.lastBlock)' = Between(lo, s.lastBlock)
  BY <1>1, IdsStay
<1>6. Between(origin, s.lastBlock)' = Between(origin, s.lastBlock)
  BY <1>4, <1>5 DEF Between
<1>7. Between(origin, s.lastBlock)' \subseteq Landed' \cup Queued(s.pendingRetry)
  BY <1>1, <1>6, IdsStay
<1>8. Queued(s.pendingRetry)' = Queued(s.pendingRetry)
  BY DEF Queued
<1> QED BY <1>2, <1>3, <1>7, <1>8 DEF Positions

\* The relayer's loop when only the chains move.
LEMMA LoopSame ==
    ASSUME Context, UNCHANGED relayerVars
    PROVE  LoopPart'
<1>1. UNCHANGED <<disk, mem, pc, todo, still, to_block, origin>>
  BY DEF relayerVars
<1>2. Positions \subseteq Positions'
  BY <1>1, PositionsStay
<1>3. PositionPart /\ LoopType /\ RetryPart /\ ScanPart
  BY DEF Context, LoopPart
<1>4. PositionPart'
  BY <1>1, <1>2, <1>3 DEF PositionPart
<1>5. LoopType'
  BY <1>1, <1>3, IdsStay DEF LoopType, Waiting
<1>6. /\ Queued(mem.pendingRetry)' = Queued(mem.pendingRetry)
      /\ Queued(still)' = Queued(still) /\ Queued(todo)' = Queued(todo)
  BY <1>1
<1>7. RetryPart'
  BY <1>1, <1>3, <1>6, IdsStay DEF RetryPart
<1>8. Between(mem.lastBlock, to_block)' = Between(mem.lastBlock, to_block)
  <2>1. mem.lastBlock \in Int /\ to_block \in Int /\ to_block <= block_number
    BY <1>3 DEF PositionPart, Positions, LoopType
  <2>2. \A lo, hi \in Int : hi <= block_number => Between(lo, hi)' = Between(lo, hi)
    BY IdsStay
  <2> QED BY <2>1, <2>2, <1>1 DEF Between
<1>9. ScanPart'
  BY <1>1, <1>3, <1>6, <1>8, IdsStay DEF ScanPart
<1> QED BY <1>4, <1>5, <1>7, <1>9 DEF LoopPart

\* Where the loop is between two rounds, only the positions matter.
LEMMA LoopAt ==
    ASSUME Context, PositionPart', origin' \in Int, pc' \in {"down", "top", "poll"},
           todo' \in Seq(Events'), still' \in Seq(Events'), to_block' \in Int, to_block' <= block_number'
    PROVE  LoopPart'
BY DEF LoopPart, LoopType, RetryPart, ScanPart, Waiting

\* A new process finds a position that was saved, or begins to look anew.
LEMMA BootInv ==
    ASSUME Context, Boot(block_number)
    PROVE  LoopPart'
<1>1. /\ UNCHANGED <<disk, todo, still, to_block>> /\ pc' = "top"
      /\ block_number \in Nat /\ block_number' \in Nat /\ block_number <= block_number'
  BY IdsStay DEF Boot
<1>2. /\ disk \in Positions /\ origin \in Int /\ to_block \in Int /\ to_block <= block_number
      /\ todo \in Seq(Events) /\ still \in Seq(Events)
  BY DEF Context, LoopPart, PositionPart, LoopType
<1>3. CASE disk.lastBlock # 0
  <2>1. mem' = disk /\ origin' = origin
    BY <1>3 DEF Boot, loadState
  <2>2. Positions \subseteq Positions'
    BY <2>1, PositionsStay
  <2>3. PositionPart'
    BY <2>1, <2>2, <1>1, <1>2 DEF PositionPart
  <2> QED BY <2>1, <2>3, <1>1, <1>2, LoopAt, IdsStay
<1>4. CASE disk.lastBlock = 0
  <2> DEFINE n == block_number - START_BACK
  <2>1. mem' = [disk EXCEPT !.lastBlock = n] /\ origin' = n
    BY <1>4 DEF Boot, loadState
  <2>2. n \in Int /\ n <= block_number'
    BY <1>1, RelayerAssumption
  <2> HIDE DEF n
  <2>3. \A d \in Ids' : deposit_block'[d] \in Int /\ deposit_block'[d] >= 1
    <3>1. deposit_block' \in [Ids' -> 1 .. block_number' + 1]
      BY DEF Context, ChainsPart, EthInv, EthTypeOK, Ids
    <3> QED BY <3>1, <1>1
  <2>4. Between(origin, disk.lastBlock)' = {} /\ Between(origin, mem.lastBlock)' = {}
    <3>1. mem'.lastBlock = origin' /\ disk'.lastBlock = 0 /\ origin' \in Int
      BY <2>1, <2>2, <1>1, <1>2, <1>4 DEF Positions
    <3>2. \A d \in Ids' : ~ (deposit_block'[d] <= 0) /\ ~ (origin' < deposit_block'[d] /\ deposit_block'[d] <= origin')
      BY <2>3, <3>1
    <3> QED BY <3>1, <3>2 DEF Between
  <2>5. /\ disk' \in [lastBlock : Int, claimed : SUBSET Landed', pendingRetry : Seq(Events')]
        /\ mem' \in [lastBlock : Int, claimed : SUBSET Landed', pendingRetry : Seq(Events')]
    BY <2>1, <2>2, <1>1, <1>2, IdsStay DEF Positions
  <2>6. disk'.lastBlock <= block_number' /\ mem'.lastBlock <= block_number'
    BY <2>1, <2>2, <1>1, <1>2, <1>4 DEF Positions
  <2>7. PositionPart'
    BY <2>4, <2>5, <2>6 DEF PositionPart, Positions
  <2> QED BY <2>1, <2>2, <2>7, <1>1, <1>2, LoopAt, IdsStay
<1> QED BY <1>3, <1>4

\* The steps of one process leave the block it began after alone.
LEMMA NewPosition ==
    ASSUME Context, UNCHANGED origin, NEW s,
           s \in [lastBlock : Int, claimed : SUBSET Landed', pendingRetry : Seq(Events')],
           s.lastBlock <= block_number,
           Between(origin, s.lastBlock) \subseteq Landed' \cup Queued(s.pendingRetry)
    PROVE  s \in Positions'
<1>1. s.lastBlock \in Int /\ origin \in Int /\ s.lastBlock <= block_number'
  BY IdsStay DEF Context, LoopPart, LoopType
<1>2. \A lo \in Int : Between(lo, s.lastBlock)' = Between(lo, s.lastBlock)
  BY <1>1, IdsStay
<1>3. Between(origin, s.lastBlock)' = Between(origin, s.lastBlock)
  BY <1>1, <1>2 DEF Between
<1>4. Queued(s.pendingRetry)' = Queued(s.pendingRetry)
  BY DEF Queued
<1> QED BY <1>1, <1>3, <1>4 DEF Positions

LEMMA LoopFacts ==
    ASSUME Context
    PROVE  /\ disk \in Positions /\ mem \in Positions
           /\ mem \in [lastBlock : Int, claimed : SUBSET Landed', pendingRetry : Seq(Events')]
           /\ mem.lastBlock \in Int /\ mem.lastBlock <= block_number
           /\ mem.claimed \subseteq Landed /\ mem.pendingRetry \in Seq(Events)
           /\ Between(origin, mem.lastBlock) \subseteq Landed \cup Queued(mem.pendingRetry)
           /\ todo \in Seq(Events) /\ todo \in Seq(Events') /\ still \in Seq(Events) /\ still \in Seq(Events')
           /\ to_block \in Int /\ to_block <= block_number /\ to_block <= block_number' /\ origin \in Int
           /\ pc \in Waiting => todo # << >>
           /\ RetryPart /\ ScanPart
           /\ Landed \subseteq Landed' /\ Ids \subseteq Ids'
<1>1. PositionPart /\ LoopType /\ RetryPart /\ ScanPart
  BY DEF Context, LoopPart
<1>2. mem \in Positions /\ disk \in Positions
  BY <1>1 DEF PositionPart
<1>3. /\ mem \in [lastBlock : Int, claimed : SUBSET Landed, pendingRetry : Seq(Events)]
      /\ mem.lastBlock <= block_number
      /\ Between(origin, mem.lastBlock) \subseteq Landed \cup Queued(mem.pendingRetry)
  BY <1>2 DEF Positions
<1>4. mem \in [lastBlock : Int, claimed : SUBSET Landed', pendingRetry : Seq(Events')]
  BY <1>3, IdsStay
<1> QED BY <1>1, <1>2, <1>3, <1>4, IdsStay DEF LoopType

LEMMA BeginIterationInv ==
    ASSUME Context, BeginIteration
    PROVE  LoopPart'
<1>1. UNCHANGED <<disk, mem, to_block, origin>> /\ pc = "top"
  BY DEF BeginIteration
<1>2. PositionPart'
  BY <1>1, PositionsStay, LoopFacts DEF PositionPart
<1>3. CASE mem.pendingRetry = << >>
  <2>1. pc' = "poll" /\ UNCHANGED <<todo, still>>
    BY <1>3 DEF BeginIteration
  <2> QED BY <2>1, <1>1, <1>2, LoopAt, LoopFacts
<1>4. CASE mem.pendingRetry # << >>
  <2>1. pc' = "retry" /\ todo' = mem.pendingRetry /\ still' = << >>
    BY <1>4 DEF BeginIteration
  <2>2. LoopType'
    BY <2>1, <1>1, LoopFacts DEF LoopType, Waiting
  <2>3. RetryPart'
    BY <2>1, <1>1 DEF RetryPart
  <2> QED BY <2>1, <2>2, <2>3, <1>2 DEF LoopPart, ScanPart
<1> QED BY <1>3, <1>4

LEMMA RetryCallInv ==
    ASSUME Context, RetryCall
    PROVE  LoopPart'
<1>1. /\ UNCHANGED <<disk, mem, todo, still, to_block, origin>>
      /\ pc = "retry" /\ pc' = "retry_wait" /\ todo # << >>
  BY DEF RetryCall
<1>2. PositionPart'
  BY <1>1, PositionsStay, LoopFacts DEF PositionPart
<1>3. LoopType'
  BY <1>1, LoopFacts DEF LoopType
<1>4. RetryPart'
  BY <1>1, LoopFacts DEF RetryPart
<1> QED BY <1>1, <1>2, <1>3, <1>4 DEF LoopPart, ScanPart

LEMMA RetryDoneInv ==
    ASSUME Context, NEW outcome, RetryDone(outcome),
           outcome \in {"claimed", "already"} => Head(todo).depositId \in Landed'
    PROVE  LoopPart'
<1>1. /\ UNCHANGED <<disk, to_block, origin>>
      /\ pc = "retry_wait" /\ pc' = "retry" /\ todo' = Tail(todo) /\ todo # << >>
  BY LoopFacts DEF RetryDone, Waiting
<1>2. /\ Head(todo) \in Events /\ Tail(todo) \in Seq(Events)
      /\ Queued(todo) = {Head(todo).depositId} \cup Queued(Tail(todo))
  BY <1>1, QueuedHead, LoopFacts
<1>3. disk' \in Positions'
  BY <1>1, PositionsStay, LoopFacts
<1>4. Queued(mem.pendingRetry) \subseteq Landed \cup Queued(still) \cup Queued(todo)
  BY <1>1, LoopFacts DEF RetryPart
<1>5. CASE outcome \in {"claimed", "already"}
  <2>1. mem' = [mem EXCEPT !.claimed = @ \cup {Head(todo).depositId}] /\ still' = still /\ Head(todo).depositId \in Landed'
    BY <1>5 DEF RetryDone
  <2>2. /\ mem' \in [lastBlock : Int, claimed : SUBSET Landed', pendingRetry : Seq(Events')]
        /\ mem'.lastBlock = mem.lastBlock /\ mem'.pendingRetry = mem.pendingRetry
    BY <2>1, LoopFacts
  <2>3. mem' \in Positions'
    BY <2>2, <1>1, NewPosition, LoopFacts
  <2>4. LoopType'
    BY <1>1, <1>2, <2>1, LoopFacts, IdsStay DEF LoopType, Waiting
  <2>5. RetryPart'
    BY <1>1, <1>2, <1>4, <2>1, <2>2, LoopFacts DEF RetryPart
  <2> QED BY <1>1, <1>3, <2>3, <2>4, <2>5 DEF LoopPart, PositionPart, ScanPart
<1>6. CASE outcome \notin {"claimed", "already"}
  <2>1. mem' = mem /\ still' = Append(still, Head(todo))
    BY <1>6 DEF RetryDone
  <2>2. mem' \in Positions'
    BY <2>1, <1>1, PositionsStay, LoopFacts
  <2>3. still' \in Seq(Events') /\ Queued(still') = Queued(still) \cup {Head(todo).depositId}
    BY <2>1, <1>2, QueuedAppend, LoopFacts
  <2>4. LoopType'
    BY <1>1, <1>2, <2>3, LoopFacts, IdsStay DEF LoopType, Waiting
  <2>5. RetryPart'
    BY <1>1, <1>2, <1>4, <2>1, <2>3, LoopFacts DEF RetryPart
  <2> QED BY <1>1, <1>3, <2>2, <2>4, <2>5 DEF LoopPart, PositionPart, ScanPart
<1> QED BY <1>5, <1>6

LEMMA EndRetryInv ==
    ASSUME Context, EndRetry
    PROVE  LoopPart'
<1>1. /\ UNCHANGED <<todo, still, to_block, origin>>
      /\ pc = "retry" /\ pc' = "poll" /\ todo = << >>
      /\ mem' = [mem EXCEPT !.pendingRetry = still] /\ disk' = mem'
  BY DEF EndRetry, saveState
<1>2. Queued(mem.pendingRetry) \subseteq Landed \cup Queued(still)
  BY <1>1, QueuedEmpty, LoopFacts DEF RetryPart
<1>3. /\ mem' \in [lastBlock : Int, claimed : SUBSET Landed', pendingRetry : Seq(Events')]
      /\ mem'.lastBlock = mem.lastBlock /\ mem'.pendingRetry = still
  BY <1>1, LoopFacts
<1>4. mem' \in Positions'
  BY <1>1, <1>2, <1>3, NewPosition, LoopFacts
<1>5. PositionPart'
  BY <1>1, <1>4 DEF PositionPart
<1> QED BY <1>1, <1>5, LoopAt, LoopFacts

LEMMA PollInv ==
    ASSUME Context, RelayerPolls, UNCHANGED lockVars
    PROVE  LoopPart'
<1> DEFINE from == mem.lastBlock + 1
           to == toBlock(block_number)
           logs == getLogs(from, to)
<1>1. UNCHANGED <<disk, mem, still, origin>> /\ pc = "poll"
  BY DEF RelayerPolls, Poll
<1>2. PositionPart'
  BY <1>1, PositionsStay, LoopFacts DEF PositionPart
<1>3. CASE block_number <= mem.lastBlock
  <2>1. pc' = "top" /\ UNCHANGED <<todo, to_block>>
    BY <1>3 DEF RelayerPolls, Poll
  <2> QED BY <2>1, <1>1, <1>2, LoopAt, LoopFacts
<1>4. CASE ~ (block_number <= mem.lastBlock)
  <2>1. pc' = "scan" /\ to_block' = to /\ todo' = logs
    BY <1>4 DEF RelayerPolls, Poll
  <2>2. to \in Int /\ to <= block_number /\ block_number \in Nat /\ from \in Int
    <3>1. mem.lastBlock \in Int /\ block_number \in Nat
      BY LoopFacts, IdsStay
    <3> QED BY <3>1, RelayerAssumption DEF toBlock
  <2> HIDE DEF from, to
  <2>3. /\ logs \in Seq(Events)
        /\ \A d \in Ids : from <= deposit_block[d] /\ deposit_block[d] <= to => d \in Queued(logs)
    BY LogFacts, DepositFacts DEF Context
  <2> HIDE DEF logs
  <2>4. LoopType'
    <3>1. todo' \in Seq(Events') /\ to_block' <= block_number' /\ block_number' \in Nat
      BY <2>1, <2>2, <2>3, IdsStay
    <3> QED BY <3>1, <1>1, <2>1, <2>2, LoopFacts DEF LoopType, Waiting
  <2>5. Between(mem.lastBlock, to) \subseteq Queued(logs)
    <3> SUFFICES ASSUME NEW d \in Ids, mem.lastBlock < deposit_block[d], deposit_block[d] <= to
                 PROVE  d \in Queued(logs)
      BY DEF Between
    <3>1. deposit_block[d] \in Nat
      BY DepositFacts DEF Context
    <3>2. from <= deposit_block[d]
      BY <3>1, LoopFacts DEF from
    <3> QED BY <3>2, <2>3
  <2>6. Between(mem.lastBlock, to_block)' = Between(mem.lastBlock, to)
    BY <1>1, <2>1 DEF Between, lockVars, Ids
  <2>7. ScanPart'
    BY <2>1, <2>5, <2>6 DEF ScanPart
  <2> QED BY <1>2, <2>1, <2>4, <2>7 DEF LoopPart, RetryPart
<1> QED BY <1>3, <1>4

LEMMA PollFailsInv ==
    ASSUME Context, PollFails
    PROVE  LoopPart'
<1>1. UNCHANGED <<disk, mem, todo, still, to_block, origin>> /\ pc' = "top"
  BY DEF PollFails
<1>2. PositionPart'
  BY <1>1, PositionsStay, LoopFacts DEF PositionPart
<1> QED BY <1>1, <1>2, LoopAt, LoopFacts

\* In the middle of a scan, no block appears in the range being scanned.
LEMMA ScanRange ==
    ASSUME Context, pc \in {"scan", "scan_wait"}, mem'.lastBlock = mem.lastBlock, to_block' = to_block
    PROVE  /\ Between(mem.lastBlock, to_block)' = Between(mem.lastBlock, to_block)
           /\ Between(mem.lastBlock, to_block)
                \subseteq Landed' \cup Queued(mem.pendingRetry) \cup Queued(todo)
<1>1. \A lo, hi \in Int : hi <= block_number => Between(lo, hi)' = Between(lo, hi)
  BY IdsStay
<1>2. mem.lastBlock \in Int /\ to_block \in Int /\ to_block <= block_number
  BY LoopFacts
<1>3. Between(mem.lastBlock, to_block)' = Between(mem.lastBlock, to_block)
  BY <1>1, <1>2 DEF Between
<1> QED BY <1>3, LoopFacts DEF ScanPart

LEMMA ScanCallInv ==
    ASSUME Context, ScanCall
    PROVE  LoopPart'
<1>1. UNCHANGED <<disk, mem, still, to_block, origin>> /\ pc = "scan" /\ todo # << >>
  BY DEF ScanCall
<1>2. PositionPart'
  BY <1>1, PositionsStay, LoopFacts DEF PositionPart
<1>3. /\ Head(todo) \in Events /\ Tail(todo) \in Seq(Events)
      /\ Queued(todo) = {Head(todo).depositId} \cup Queued(Tail(todo))
  BY <1>1, QueuedHead, LoopFacts
<1>4. /\ Between(mem.lastBlock, to_block)' = Between(mem.lastBlock, to_block)
      /\ Between(mem.lastBlock, to_block) \subseteq Landed' \cup Queued(mem.pendingRetry) \cup Queued(todo)
  BY <1>1, ScanRange
<1>5. CASE Head(todo).depositId \in mem.claimed \cup Queued(mem.pendingRetry)
  <2>1. todo' = Tail(todo) /\ pc' = pc
    BY <1>5 DEF ScanCall
  <2>2. LoopType'
    BY <2>1, <1>1, <1>3, LoopFacts, IdsStay DEF LoopType, Waiting
  <2>3. Head(todo).depositId \in Landed' \cup Queued(mem.pendingRetry)
    BY <1>5, LoopFacts
  <2>4. ScanPart'
    BY <2>1, <2>3, <1>1, <1>3, <1>4 DEF ScanPart
  <2> QED BY <1>1, <1>2, <2>1, <2>2, <2>4 DEF LoopPart, RetryPart
<1>6. CASE Head(todo).depositId \notin mem.claimed \cup Queued(mem.pendingRetry)
  <2>1. pc' = "scan_wait" /\ todo' = todo
    BY <1>6 DEF ScanCall
  <2>2. LoopType'
    BY <2>1, <1>1, LoopFacts, IdsStay DEF LoopType, Waiting
  <2>3. ScanPart'
    BY <2>1, <1>1, <1>4 DEF ScanPart
  <2> QED BY <1>1, <1>2, <2>1, <2>2, <2>3 DEF LoopPart, RetryPart
<1> QED BY <1>5, <1>6

LEMMA ScanDoneInv ==
    ASSUME Context, NEW outcome, ScanDone(outcome),
           outcome \in {"claimed", "already"} => Head(todo).depositId \in Landed'
    PROVE  LoopPart'
<1>1. /\ UNCHANGED <<still, to_block, origin>> /\ disk' = mem'
      /\ pc = "scan_wait" /\ pc' = "scan" /\ todo' = Tail(todo) /\ todo # << >>
  BY LoopFacts DEF ScanDone, saveState, Waiting
<1>2. /\ Head(todo) \in Events /\ Tail(todo) \in Seq(Events)
      /\ Queued(todo) = {Head(todo).depositId} \cup Queued(Tail(todo))
  BY <1>1, QueuedHead, LoopFacts
<1>3. LoopType'
  BY <1>1, <1>2, LoopFacts, IdsStay DEF LoopType, Waiting
<1>4. ASSUME mem'.lastBlock = mem.lastBlock,
             mem' \in [lastBlock : Int, claimed : SUBSET Landed', pendingRetry : Seq(Events')],
             Queued(mem.pendingRetry) \subseteq Queued(mem'.pendingRetry),
             Head(todo).depositId \in Landed' \cup Queued(mem'.pendingRetry)
      PROVE  LoopPart'
  <2>1. mem' \in Positions'
    BY <1>1, <1>4, NewPosition, LoopFacts
  <2>2. /\ Between(mem.lastBlock, to_block)' = Between(mem.lastBlock, to_block)
        /\ Between(mem.lastBlock, to_block) \subseteq Landed' \cup Queued(mem.pendingRetry) \cup Queued(todo)
    BY <1>1, <1>4, ScanRange
  <2>3. ScanPart'
    BY <2>2, <1>1, <1>2, <1>4 DEF ScanPart
  <2> QED BY <2>1, <2>3, <1>1, <1>3 DEF LoopPart, PositionPart, RetryPart
<1>5. CASE outcome \in {"claimed", "already"}
  <2>1. mem' = [mem EXCEPT !.claimed = @ \cup {Head(todo).depositId}] /\ Head(todo).depositId \in Landed'
    BY <1>5 DEF ScanDone
  <2>2. /\ mem' \in [lastBlock : Int, claimed : SUBSET Landed', pendingRetry : Seq(Events')]
        /\ mem'.lastBlock = mem.lastBlock /\ mem'.pendingRetry = mem.pendingRetry
    BY <2>1, LoopFacts
  <2> QED BY <2>1, <2>2, <1>4
<1>6. CASE outcome \notin {"claimed", "already"}
  <2> DEFINE queue == Append(mem.pendingRetry, Head(todo))
  <2>1. mem' = [mem EXCEPT !.pendingRetry = queue]
    BY <1>2, <1>6, EventFacts DEF ScanDone
  <2>2. queue \in Seq(Events') /\ Queued(queue) = Queued(mem.pendingRetry) \cup {Head(todo).depositId}
    BY <1>2, QueuedAppend, LoopFacts
  <2> HIDE DEF queue
  <2>3. /\ mem' \in [lastBlock : Int, claimed : SUBSET Landed', pendingRetry : Seq(Events')]
        /\ mem'.lastBlock = mem.lastBlock /\ mem'.pendingRetry = queue
    BY <2>1, <2>2, LoopFacts
  <2> QED BY <2>2, <2>3, <1>4
<1> QED BY <1>5, <1>6

LEMMA EndScanInv ==
    ASSUME Context, EndScan
    PROVE  LoopPart'
<1>1. /\ UNCHANGED <<todo, still, to_block, origin>> /\ disk' = mem'
      /\ pc = "scan" /\ pc' = "top" /\ todo = << >>
      /\ mem' = [mem EXCEPT !.lastBlock = to_block]
  BY DEF EndScan, saveState
<1>2. Between(mem.lastBlock, to_block) \subseteq Landed \cup Queued(mem.pendingRetry)
  BY <1>1, QueuedEmpty, LoopFacts DEF ScanPart
<1>3. Between(origin, to_block) \subseteq Between(origin, mem.lastBlock) \cup Between(mem.lastBlock, to_block)
  <2> SUFFICES ASSUME NEW d \in Ids, origin < deposit_block[d], deposit_block[d] <= to_block
               PROVE  deposit_block[d] <= mem.lastBlock \/ mem.lastBlock < deposit_block[d]
    BY DEF Between
  <2>1. deposit_block[d] \in Int /\ mem.lastBlock \in Int
    BY DepositFacts, LoopFacts DEF Context
  <2> QED BY <2>1
<1>4. Between(origin, to_block) \subseteq Landed' \cup Queued(mem.pendingRetry)
  BY <1>2, <1>3, LoopFacts
<1>5. /\ mem' \in [lastBlock : Int, claimed : SUBSET Landed', pendingRetry : Seq(Events')]
      /\ mem'.lastBlock = to_block /\ mem'.pendingRetry = mem.pendingRetry
  BY <1>1, LoopFacts
<1>6. mem' \in Positions'
  BY <1>1, <1>4, <1>5, NewPosition, LoopFacts
<1>7. PositionPart'
  BY <1>1, <1>6 DEF PositionPart
<1> QED BY <1>1, <1>7, LoopAt, LoopFacts

\* Without a file there is no position to be wrong about.
LEMMA NoStateOk ==
    ASSUME Context, UNCHANGED origin
    PROVE  NoState \in Positions'
<1>1. /\ NoState \in [lastBlock : Int, claimed : SUBSET Landed', pendingRetry : Seq(Events')]
      /\ NoState.lastBlock = 0 /\ NoState.pendingRetry = << >>
  BY DEF NoState
<1>2. \A d \in Ids : deposit_block[d] \in Nat \ {0}
  BY DepositFacts DEF Context
<1>3. \A d \in Ids : ~ (deposit_block[d] <= 0)
  BY <1>2
<1>4. Between(origin, NoState.lastBlock) = {}
  BY <1>1, <1>3 DEF Between
<1>5. NoState.lastBlock <= block_number
  BY <1>1, IdsStay
<1> HIDE DEF NoState
<1> QED BY <1>1, <1>4, <1>5, NewPosition

LEMMA CrashInv ==
    ASSUME Context, NEW torn \in BOOLEAN, Crash(torn)
    PROVE  LoopPart'
<1>1. /\ disk' = disk \/ disk' = NoState
      /\ mem' = NoState /\ pc' = "down" /\ todo' = << >> /\ still' = << >> /\ to_block' = 0
      /\ UNCHANGED origin
  BY DEF Crash
<1>2. PositionPart'
  BY <1>1, NoStateOk, PositionsStay, LoopFacts DEF PositionPart
<1>3. 0 <= block_number'
  BY IdsStay
<1> QED BY <1>1, <1>2, <1>3, LoopAt, LoopFacts

LEMMA LoopStep ==
    ASSUME SystemInv, ChainsPart', Grows, [SystemNext]_systemVars
    PROVE  LoopPart'
<1>0. Context
  BY DEF SystemInv, Context
<1>1. CASE UNCHANGED relayerVars
  BY <1>0, <1>1, LoopSame
<1>2. CASE RelayerStep
  <2>1. UNCHANGED lockVars
    BY <1>2 DEF RelayerStep, ethVars
  <2> QED BY <1>0, <1>2, <2>1, BootInv, BeginIterationInv, RetryCallInv, EndRetryInv, PollInv,
             ScanCallInv, EndScanInv DEF RelayerStep
<1>3. CASE RelayerPollFails
  BY <1>0, <1>3, PollFailsInv DEF RelayerPollFails
<1>4. ASSUME NEW outcome, Answered(outcome), pc \in Waiting,
             outcome \in {"claimed", "already"} => deposit_key(BridgeContract, Head(todo).depositId) \in processed_deposits'
      PROVE  LoopPart'
  <2>1. Head(todo).depositId \in Ids'
    BY <1>0, <1>4, QueuedHead, LoopFacts, EventFacts
  <2>2. outcome \in {"claimed", "already"} => Head(todo).depositId \in Landed'
    BY <2>1, <1>4 DEF Landed, on_rollup, deposit_key
  <2> QED BY <1>0, <1>4, <2>2, RetryDoneInv, ScanDoneInv DEF Answered
<1>5. ASSUME NEW d \in DepositIds, ClaimAnswered(d) PROVE LoopPart'
  <2>1. CASE ClaimExecuted(d)
    <3>1. /\ pc \in Waiting /\ Head(todo).depositId = d /\ Answered("claimed")
          /\ handle_claim_deposit("OBSbridge", public_inputs(Head(todo)))
      BY <2>1 DEF ClaimExecuted, Execute, ClaimTx
    <3>2. deposit_key(BridgeContract, d) \in processed_deposits'
      BY <3>1 DEF handle_claim_deposit, public_inputs
    <3> QED BY <3>1, <3>2, <1>4
  <2>2. CASE ClaimRejected(d)
    <3>1. /\ pc \in Waiting /\ Head(todo).depositId = d /\ Answered("already")
          /\ deposit_key(BridgeContract, d) \in processed_deposits
      BY <2>2 DEF ClaimRejected
    <3> QED BY <3>1, <1>4 DEF Grows
  <2> QED BY <2>1, <2>2, <1>5 DEF ClaimAnswered
<1>6. CASE ClaimFails
  <2>1. pc \in Waiting /\ Answered("failed") /\ "failed" \notin {"claimed", "already"}
    BY <1>6 DEF ClaimFails
  <2> QED BY <2>1, <1>4
<1>7. ASSUME NEW torn \in BOOLEAN, ProcessCrash(torn) PROVE LoopPart'
  BY <1>0, <1>7, CrashInv DEF ProcessCrash
<1>8. ASSUME NEW tx, LateExecution(tx) \/ Lost(tx) \/ ReleaseMined(tx) \/ ReleaseReverts(tx)
      PROVE  LoopPart'
  BY <1>1, <1>8 DEF LateExecution, Lost, ReleaseMined, ReleaseReverts
<1>9. ASSUME NEW h \in Handlers, \/ \E d \in DepositIds, r \in Users : Request(h, d, r)
                                 \/ Recorded(h)
                                 \/ \E minute \in Minutes : releaseOnEthereum(h, minute)
      PROVE  LoopPart'
  BY <1>1, <1>9 DEF Request, Recorded, releaseOnEthereum
<1>10. CASE EthStep \/ OtherCaller \/ UNCHANGED systemVars
  BY <1>1, <1>10 DEF EthStep, OtherCaller, systemVars
<1> QED BY <1>2, <1>3, <1>5, <1>6, <1>7, <1>8, <1>9, <1>10 DEF SystemNext
-----------------------------------------------------------------------------
\* No deposit is queued twice, or queued and claimed: the loop's steps.
LEMMA AnsweredExact ==
    ASSUME LoopPart, ExactPart, NEW outcome, Answered(outcome)
    PROVE  ExactPart'
<1>1. /\ todo \in Seq(Events) /\ still \in Seq(Events) /\ todo # << >>
      /\ mem \in [lastBlock : Int, claimed : SUBSET Landed, pendingRetry : Seq(Events)]
  BY DEF LoopPart, LoopType, PositionPart, Positions, Answered, RetryDone, ScanDone, Waiting
<1> DEFINE e == Head(todo)  d == e.depositId
<1>2. /\ e \in Events /\ pending(e) = e /\ Tail(todo) \in Seq(Events)
      /\ Queued(todo) = {d} \cup Queued(Tail(todo))
  BY <1>1, QueuedHead, EventFacts
<1>3. CASE RetryDone(outcome)
  <2>1. /\ disk' = disk /\ todo' = Tail(todo) /\ pc = "retry_wait" /\ pc' = "retry"
        /\ Apart(disk.pendingRetry, disk.claimed)
        /\ Apart(still, mem.claimed) /\ Apart(todo, mem.claimed)
        /\ Queued(still) \cap Queued(todo) = {}
    BY <1>3 DEF RetryDone, ExactPart
  <2>2. Apart(Tail(todo), mem.claimed) /\ d \notin Queued(Tail(todo)) \cup mem.claimed
    BY <1>1, <2>1, ApartTail
  <2>3. CASE outcome \in {"claimed", "already"}
    <3>1. mem'.claimed = mem.claimed \cup {d} /\ still' = still
      BY <1>1, <1>3, <2>3 DEF RetryDone
    <3>2. Apart(still', mem'.claimed) /\ Apart(todo', mem'.claimed)
      BY <3>1, <1>2, <2>1, <2>2 DEF Apart
    <3>3. Queued(still') \cap Queued(todo') = {}
      BY <3>1, <1>2, <2>1
    <3> QED BY <2>1, <3>2, <3>3 DEF ExactPart
  <2>4. CASE outcome \notin {"claimed", "already"}
    <3>1. mem' = mem /\ still' = Append(still, e)
      BY <1>3, <2>4 DEF RetryDone
    <3>2. Apart(still', mem.claimed)
      BY <3>1, <1>1, <1>2, <2>1, <2>2, ApartAppend
    <3>3. Queued(still') = Queued(still) \cup {d}
      BY <3>1, <1>1, QueuedAppend
    <3> QED BY <3>1, <3>2, <3>3, <1>2, <2>1, <2>2 DEF ExactPart
  <2> QED BY <2>3, <2>4
<1>4. CASE ScanDone(outcome)
  <2>1. /\ pc = "scan_wait" /\ pc' = "scan" /\ disk' = mem'
        /\ Apart(mem.pendingRetry, mem.claimed)
        /\ d \notin mem.claimed \cup Queued(mem.pendingRetry)
    BY <1>4 DEF ScanDone, saveState, ExactPart
  <2>2. CASE outcome \in {"claimed", "already"}
    <3>1. mem'.claimed = mem.claimed \cup {d} /\ mem'.pendingRetry = mem.pendingRetry
      BY <1>1, <1>4, <2>2 DEF ScanDone
    <3>2. Apart(mem'.pendingRetry, mem'.claimed)
      BY <3>1, <2>1 DEF Apart
    <3> QED BY <2>1, <3>2 DEF ExactPart
  <2>3. CASE outcome \notin {"claimed", "already"}
    <3>1. mem'.claimed = mem.claimed /\ mem'.pendingRetry = Append(mem.pendingRetry, e)
      BY <1>1, <1>2, <1>4, <2>3 DEF ScanDone
    <3>2. Apart(mem'.pendingRetry, mem'.claimed)
      BY <3>1, <1>1, <2>1, ApartAppend
    <3> QED BY <2>1, <3>2 DEF ExactPart
  <2> QED BY <2>2, <2>3
<1> QED BY <1>3, <1>4 DEF Answered

LEMMA LoopExact ==
    ASSUME LoopPart, ExactPart,
           \/ RelayerStep \/ PollFails \/ \E torn \in BOOLEAN : Crash(torn)
    PROVE  ExactPart'
<1>1. /\ todo \in Seq(Events) /\ still \in Seq(Events)
      /\ mem \in [lastBlock : Int, claimed : SUBSET Landed, pendingRetry : Seq(Events)]
      /\ disk \in [lastBlock : Int, claimed : SUBSET Landed, pendingRetry : Seq(Events)]
  BY DEF LoopPart, LoopType, PositionPart, Positions
<1> USE DEF ExactPart
<1>2. CASE Boot(block_number)
  <2>1. /\ disk' = disk /\ pc' = "top"
        /\ mem'.pendingRetry = disk.pendingRetry /\ mem'.claimed = disk.claimed
    BY <1>1, <1>2 DEF Boot, loadState
  <2> QED BY <2>1
<1>3. CASE BeginIteration
  <2>1. /\ pc = "top" /\ UNCHANGED <<disk, mem>>
        /\ \/ pc' = "poll" 
           \/ pc' = "retry" /\ todo' = mem.pendingRetry /\ still' = << >>
    BY <1>3 DEF BeginIteration
  <2> QED BY <2>1, ApartEmpty, QueuedEmpty
<1>4. CASE RetryCall
  BY <1>4 DEF RetryCall
<1>5. CASE EndRetry
  <2>1. /\ pc = "retry" /\ pc' = "poll" /\ disk' = mem'
        /\ mem'.pendingRetry = still /\ mem'.claimed = mem.claimed
    BY <1>1, <1>5 DEF EndRetry, saveState
  <2> QED BY <2>1
<1>6. CASE RelayerPolls \/ PollFails
  <2>1. pc = "poll" /\ pc' \in {"top", "scan"} /\ UNCHANGED <<disk, mem>>
    BY <1>6 DEF RelayerPolls, Poll, PollFails
  <2> QED BY <2>1
<1>7. CASE ScanCall
  <2>1. /\ pc = "scan" /\ UNCHANGED <<disk, mem>>
        /\ \/ pc' = "scan"
           \/ /\ pc' = "scan_wait" /\ todo' = todo
              /\ Head(todo).depositId \notin mem.claimed \cup Queued(mem.pendingRetry)
    BY <1>7 DEF ScanCall
  <2> QED BY <2>1
<1>8. CASE EndScan
  <2>1. /\ pc = "scan" /\ pc' = "top" /\ disk' = mem'
        /\ mem'.pendingRetry = mem.pendingRetry /\ mem'.claimed = mem.claimed
    BY <1>1, <1>8 DEF EndScan, saveState
  <2> QED BY <2>1
<1>9. ASSUME NEW torn \in BOOLEAN, Crash(torn) PROVE ExactPart'
  <2>1. (disk' = disk \/ disk' = NoState) /\ mem' = NoState /\ pc' = "down"
    BY <1>9 DEF Crash
  <2> QED BY <2>1, ApartEmpty DEF NoState
<1> QED BY <1>2, <1>3, <1>4, <1>5, <1>6, <1>7, <1>8, <1>9 DEF RelayerStep

LEMMA ExactStep ==
    ASSUME SystemInv, [SystemNext]_systemVars
    PROVE  ExactPart'
<1>1. LoopPart /\ ExactPart
  BY DEF SystemInv
<1>2. CASE UNCHANGED relayerVars
  BY <1>1, <1>2 DEF relayerVars, ExactPart
<1>3. CASE RelayerStep \/ RelayerPollFails
  BY <1>1, <1>3, LoopExact DEF RelayerPollFails
<1>4. ASSUME NEW torn \in BOOLEAN, ProcessCrash(torn) PROVE ExactPart'
  BY <1>1, <1>4, LoopExact DEF ProcessCrash
<1>5. CASE (\E d \in DepositIds : ClaimAnswered(d)) \/ ClaimFails
  BY <1>1, <1>5, AnsweredExact DEF ClaimAnswered, ClaimExecuted, ClaimRejected, ClaimFails
<1>6. CASE (\E tx \in net : LateExecution(tx) \/ Lost(tx)) \/ OtherCaller
  BY <1>2, <1>6 DEF LateExecution, Lost, OtherCaller
<1>7. ASSUME NEW h \in Handlers, \/ \E d \in DepositIds, r \in Users : Request(h, d, r)
                                 \/ Recorded(h)
                                 \/ \E minute \in Minutes : releaseOnEthereum(h, minute)
      PROVE  ExactPart'
  BY <1>2, <1>7 DEF Request, Recorded, releaseOnEthereum
<1>8. CASE EthStep \/ (\E tx \in mempool : ReleaseMined(tx) \/ ReleaseReverts(tx)) \/ UNCHANGED systemVars
  BY <1>2, <1>8 DEF EthStep, ReleaseMined, ReleaseReverts, systemVars
<1> QED BY <1>3, <1>4, <1>5, <1>6, <1>7, <1>8 DEF SystemNext
-----------------------------------------------------------------------------
\* What the process waits for are calls of the right shape.
LEMMA AwaitedTxs ==
    ASSUME LoopPart, ServerPart
    PROVE  /\ awaited \subseteq RollupTxs
           /\ pc \in Waiting => ClaimTx(Head(todo)) \in RollupTxs
           /\ \A h \in Handlers : handlers[h].at # "idle" =>
                 WithdrawTx(handlers[h].deposit_id, handlers[h].recipient) \in RollupTxs
<1>1. pc \in Waiting => Head(todo) \in Events
  BY QueuedHead DEF LoopPart, LoopType
<1>2. \A h \in Handlers : handlers[h].at # "idle" =>
         handlers[h].deposit_id \in DepositIds /\ handlers[h].recipient \in Users
  BY DEF ServerPart, HandlersOk
<1> QED BY <1>1, <1>2 DEF awaited, RollupTxs

\* What the process sends on the way.
LEMMA ServerStep ==
    ASSUME SystemInv, ChainsPart', Grows, [SystemNext]_systemVars
    PROVE  ServerPart'
<1>0. Context
  BY DEF SystemInv, Context
<1>1. RollupTxs \subseteq RollupTxs'
  BY <1>0, IdsStay DEF RollupTxs, ClaimTx, public_inputs, WithdrawTx
<1>2. ReleaseTxs' = ReleaseTxs
  BY DEF ReleaseTxs, withdrawal_nonce
<1>3. net \subseteq RollupTxs /\ mempool \subseteq ReleaseTxs /\ HandlersOk
  BY DEF SystemInv, ServerPart
<1> HIDE DEF RollupTxs, ReleaseTxs
<1>4. CASE UNCHANGED <<net, mempool, handlers>>
  BY <1>1, <1>2, <1>3, <1>4 DEF ServerPart, HandlersOk
<1>5. CASE EthStep \/ RelayerStep \/ RelayerPollFails \/ OtherCaller \/ UNCHANGED systemVars
  BY <1>4, <1>5 DEF EthStep, RelayerStep, RelayerPollFails, OtherCaller, systemVars, serverVars
<1>6. ASSUME NEW d \in DepositIds, ClaimAnswered(d) PROVE ServerPart'
  BY <1>4, <1>6 DEF ClaimAnswered, ClaimExecuted, ClaimRejected, serverVars
<1>7. /\ awaited \subseteq RollupTxs
      /\ pc \in Waiting => ClaimTx(Head(todo)) \in RollupTxs
      /\ \A h \in Handlers : handlers[h].at # "idle" =>
            WithdrawTx(handlers[h].deposit_id, handlers[h].recipient) \in RollupTxs
  BY AwaitedTxs DEF SystemInv
<1>9. CASE ClaimFails
  <2>1. /\ UNCHANGED <<mempool, handlers>>
        /\ net' \subseteq net \cup {ClaimTx(Head(todo))} /\ pc \in Waiting
    BY <1>9 DEF ClaimFails, MayLinger
  <2>2. HandlersOk'
    BY <2>1, <1>3 DEF HandlersOk
  <2> QED BY <2>1, <2>2, <1>1, <1>2, <1>3, <1>7 DEF ServerPart
<1>10. ASSUME NEW tx \in net, LateExecution(tx) \/ Lost(tx) PROVE ServerPart'
  <2>1. UNCHANGED <<mempool, handlers>> /\ net' \subseteq net
    BY <1>10 DEF LateExecution, Lost
  <2>2. HandlersOk'
    BY <2>1, <1>3 DEF HandlersOk
  <2> QED BY <2>1, <2>2, <1>1, <1>2, <1>3 DEF ServerPart
<1>11. ASSUME NEW h \in Handlers, NEW d \in DepositIds, NEW r \in Users, Request(h, d, r)
       PROVE  ServerPart'
  <2>1. /\ UNCHANGED <<net, mempool>>
        /\ handlers' = [handlers EXCEPT ![h] = [at |-> "record", deposit_id |-> d, recipient |-> r]]
    BY <1>11 DEF Request
  <2>2. HandlersOk'
    BY <2>1, <1>3 DEF HandlersOk
  <2> QED BY <2>1, <2>2, <1>1, <1>2, <1>3 DEF ServerPart
<1>12. ASSUME NEW h \in Handlers, Recorded(h) PROVE ServerPart'
  <2>1. /\ UNCHANGED mempool /\ handlers[h].at # "idle"
        /\ net' \subseteq net \cup {WithdrawTx(handlers[h].deposit_id, handlers[h].recipient)}
        /\ handlers' = [handlers EXCEPT ![h].at = "release"]
    BY <1>12 DEF Recorded, MayLinger
  <2>2. HandlersOk'
    BY <2>1, <1>3 DEF HandlersOk
  <2>3. WithdrawTx(handlers[h].deposit_id, handlers[h].recipient) \in RollupTxs
    BY <2>1, <1>7
  <2> QED BY <2>1, <2>2, <2>3, <1>1, <1>2, <1>3 DEF ServerPart
<1>13. ASSUME NEW h \in Handlers, NEW minute \in Minutes, releaseOnEthereum(h, minute)
       PROVE  ServerPart'
  <2> DEFINE d == handlers[h].deposit_id
             r == handlers[h].recipient
             tx == [deposit_id |-> d, recipient |-> r, nonce |-> withdrawal_nonce(d, r, minute)]
  <2>1. /\ UNCHANGED net /\ handlers[h].at = "release"
        /\ mempool' \subseteq mempool \cup {tx}
        /\ handlers' = [handlers EXCEPT ![h].at = "done"]
    BY <1>13 DEF releaseOnEthereum
  <2>2. HandlersOk'
    BY <2>1, <1>3 DEF HandlersOk
  <2>3. d \in DepositIds /\ r \in Users
    BY <2>1, <1>3 DEF HandlersOk
  <2>4. tx \in ReleaseTxs
    BY <2>3 DEF ReleaseTxs
  <2> QED BY <2>1, <2>2, <2>4, <1>1, <1>2, <1>3 DEF ServerPart
<1>14. ASSUME NEW tx \in mempool, ReleaseMined(tx) \/ ReleaseReverts(tx) PROVE ServerPart'
  <2>1. UNCHANGED <<net, handlers>> /\ mempool' \subseteq mempool
    BY <1>14 DEF ReleaseMined, ReleaseReverts
  <2>2. HandlersOk'
    BY <2>1, <1>3 DEF HandlersOk
  <2> QED BY <2>1, <2>2, <1>1, <1>2, <1>3 DEF ServerPart
<1>15. ASSUME NEW torn \in BOOLEAN, ProcessCrash(torn) PROVE ServerPart'
  <2>1. /\ UNCHANGED mempool
        /\ \E some \in SUBSET awaited : net' = net \cup some
        /\ handlers' = [h \in Handlers |-> IF handlers[h].at = "idle" THEN idle
                                           ELSE [handlers[h] EXCEPT !.at = "done"]]
    BY <1>15 DEF ProcessCrash
  <2>2. HandlersOk'
    BY <2>1, <1>3 DEF HandlersOk, idle
  <2> QED BY <2>1, <2>2, <1>7, <1>1, <1>2, <1>3 DEF ServerPart
<1> QED BY <1>5, <1>6, <1>9, <1>10, <1>11, <1>12, <1>13, <1>14, <1>15 DEF SystemNext
-----------------------------------------------------------------------------
LEMMA SystemInitInv == SystemInit => SystemInv
<1> SUFFICES ASSUME SystemInit PROVE SystemInv
  OBVIOUS
<1>1. BridgeInv /\ EthInv
  BY BridgeInitInv, EthInitInv DEF SystemInit
<1>2. nextDepositId = 0 /\ block_number = 0 /\ claims = {} /\ MaxBlock \in Nat
  BY DeploymentAssumption DEF SystemInit, EthInit, BridgeInit
<1>3. Ids = {}
  BY <1>2 DEF Ids
<1>4. ChainsPart
  BY <1>1, <1>2, <1>3 DEF ChainsPart, CreditsMatch
<1>5. NoState \in Positions
  BY <1>2, <1>3 DEF Positions, NoState, Between
<1>6. LoopPart
  BY <1>2, <1>5 DEF SystemInit, RelayerInit, LoopPart, PositionPart, LoopType, RetryPart, ScanPart, Waiting
<1>7. ExactPart
  BY ApartEmpty DEF SystemInit, RelayerInit, NoState, ExactPart
<1>8. ServerPart
  BY DEF SystemInit, ServerPart, HandlersOk, idle
<1> QED BY <1>4, <1>6, <1>7, <1>8 DEF SystemInv

LEMMA SystemNextInv == SystemInv /\ [SystemNext]_systemVars => SystemInv'
<1> SUFFICES ASSUME SystemInv, [SystemNext]_systemVars PROVE SystemInv'
  OBVIOUS
<1>1. ChainsPart' /\ Grows
  <2>1. RollupStep /\ ContractStep
    BY StepKinds DEF OneChainMoves, RollupStep, ContractStep
  <2> QED BY <2>1, ChainsStep DEF SystemInv
<1> QED BY <1>1, LoopStep, ExactStep, ServerStep DEF SystemInv

LEMMA SystemInvariant == SystemSpec => []SystemInv
BY SystemInitInv, SystemNextInv, PTL DEF SystemSpec

\* What relayer.mjs keeps to retry, and every claim it has on the way, is of
\* a deposit as the contract logged it; no deposit is queued twice, or after
\* it was claimed, wherever the process dies and whatever it misses.
THEOREM RetriesAlwaysExact == SystemSpec => []RetriesExact
<1>1. SystemInv => RetriesExact
  <2> SUFFICES ASSUME SystemInv PROVE RetriesExact
    OBVIOUS
  <2> DEFINE queue == disk.pendingRetry
  <2>1. queue \in Seq(Events) /\ Apart(queue, disk.claimed)
    BY DEF SystemInv, LoopPart, PositionPart, Positions, ExactPart
  <2>2. ASSUME NEW i \in 1 .. Len(queue)
        PROVE  /\ queue[i] \in Events /\ queue[i].depositId \notin disk.claimed
               /\ \A j \in 1 .. i - 1 : queue[j].depositId # queue[i].depositId
    <3>1. queue[i] \in Events
      BY <2>1
    <3>2. queue[i].depositId \notin disk.claimed
      BY <2>1 DEF Apart, Queued
    <3>3. ASSUME NEW j \in 1 .. i - 1 PROVE queue[j].depositId # queue[i].depositId
      <4>1. Len(queue) \in Nat
        BY <2>1
      <4>2. j \in 1 .. Len(queue) /\ j # i
        BY <4>1
      <4> QED BY <4>2, <2>1 DEF Apart, Distinct
    <3> QED BY <3>1, <3>2, <3>3
  <2>3. ASSUME NEW tx \in net \cup awaited, tx.call = "claim"
        PROVE  tx \in {ClaimTx(e) : e \in Events}
    <3>1. tx \in RollupTxs
      BY AwaitedTxs DEF SystemInv, ServerPart
    <3>2. \A d, r : WithdrawTx(d, r).call # "claim"
      BY DEF WithdrawTx
    <3> QED BY <3>1, <3>2, <2>3 DEF RollupTxs
  <2> QED BY <2>2, <2>3 DEF RetriesExact, Events, Ids
<1> QED BY <1>1, SystemInvariant, PTL

\* The relayer's file never runs ahead of the rollup, however the main loop
\* of relayer.mjs is interrupted, and whatever answers it misses.
THEOREM NothingEverSkipped == SystemSpec => []NothingSkipped
<1>1. SystemInv => NothingSkipped
  <2> SUFFICES ASSUME SystemInv PROVE NothingSkipped
    OBVIOUS
  <2>1. /\ disk.claimed \subseteq Landed
        /\ Between(origin, disk.lastBlock) \subseteq Landed \cup Queued(disk.pendingRetry)
    BY DEF SystemInv, LoopPart, PositionPart, Positions
  <2> QED BY <2>1 DEF NothingSkipped, Between, Landed, Ids
<1> QED BY <1>1, SystemInvariant, PTL

\* Composed with the relayer and the rollup, the contract does only what
\* ObscuraBridgeV2 allows, so it stays solvent and pays a deposit once.
THEOREM SystemKeepsContract == SystemSpec => EthSpec
<1>1. SystemInit => EthInit
  BY DEF SystemInit
<1>2. SystemInv /\ [SystemNext]_systemVars => [EthNext]_ethVars
  BY StepKinds DEF OneChainMoves, ContractStep
<1> QED BY <1>1, <1>2, SystemInvariant, PTL DEF SystemSpec, EthSpec

\* Composed with the relayer, the rollup executes only its own calls, each
\* with inputs of the right shape, so what was proved of it holds here.
THEOREM SystemKeepsRollup == SystemSpec => BridgeSpec
<1>1. SystemInit => BridgeInit
  BY DEF SystemInit
<1>2. SystemInv /\ [SystemNext]_systemVars => [BridgeNext]_rollupVars
  <2> SUFFICES ASSUME SystemInv, [SystemNext]_systemVars PROVE [BridgeNext]_rollupVars
    OBVIOUS
  <2>1. RollupStep
    BY StepKinds DEF OneChainMoves, RollupStep
  <2> QED BY <2>1, ExecuteKinds DEF RollupStep, SystemInv, BridgeNext
<1> QED BY <1>1, <1>2, SystemInvariant, PTL DEF SystemSpec, BridgeSpec
-----------------------------------------------------------------------------
\* The four amounts of a deposit, read off the maps of the two chains.
Locks     == [d \in DepositIds |-> IF d \in Ids THEN deposits[d].amount ELSE 0]
Credits   == [d \in DepositIds |-> IF on_rollup(d) THEN deposits[d].amount ELSE 0]
Withdraws == [d \in DepositIds |-> IF withdrawal_key(d) \in processed_deposits THEN deposits[d].amount ELSE 0]
Pays      == [d \in DepositIds |-> IF d \in Ids /\ deposits[d].status = Released THEN deposits[d].amount ELSE 0]

LEMMA LocksForm == ChainsPart => life_locked = Locks
<1> SUFFICES ASSUME ChainsPart, NEW d \in DepositIds PROVE d < nextDepositId <=> d \in Ids
  BY DEF life_locked, Locks
<1> QED BY DepositFacts, SystemAssumption DEF Ids

\* A claim is on the rollup for a deposit that is there.
LEMMA ClaimFacts ==
    ASSUME ChainsPart, NEW c \in claims
    PROVE  /\ c.deposit_id \in Ids /\ c.deposit_id \in DepositIds
           /\ c.amount = deposits[c.deposit_id].amount /\ c.amount \in Nat
           /\ claim_amounts[c] = c.amount
<1>1. c.deposit_id \in DepositIds
  BY DEF ChainsPart, BridgeInv, ClaimPart, Claims
<1>2. c.deposit_id < nextDepositId /\ c.amount = deposits[c.deposit_id].amount
  BY DEF ChainsPart, CreditsMatch
<1>3. c.deposit_id \in Ids
  BY <1>1, <1>2, DepositFacts, SystemAssumption DEF Ids
<1>4. claim_amounts[c] = c.amount /\ claim_amounts[c] \in Nat
  BY AmountsNat DEF ChainsPart, BridgeInv, ClaimPart
<1> QED BY <1>1, <1>2, <1>3, <1>4

LEMMA CreditsForm == ChainsPart => life_credited = Credits
<1> SUFFICES ASSUME ChainsPart, NEW d \in DepositIds
             PROVE  SumOver(claim_amounts, {c \in claims : c.deposit_id = d})
                      = IF on_rollup(d) THEN deposits[d].amount ELSE 0
  BY DEF life_credited, Credits
<1> DEFINE S == {c \in claims : c.deposit_id = d}
<1>1. on_rollup(d) <=> \E c \in claims : c.deposit_id = d
  BY DEF on_rollup, ChainsPart, BridgeInv, ClaimPart, DepositsLandOnce
<1>2. CASE on_rollup(d)
  <2>1. PICK c \in claims : c.deposit_id = d
    BY <1>1, <1>2
  <2>2. S = {c}
    BY <2>1 DEF ChainsPart, BridgeInv, ClaimPart, DepositsLandOnce
  <2>3. claim_amounts[c] = deposits[d].amount /\ claim_amounts[c] \in Nat
    BY <2>1, ClaimFacts
  <2>4. SumOver(claim_amounts, {c}) = claim_amounts[c]
    BY <2>3, SumSingle
  <2> QED BY <2>2, <2>3, <2>4, <1>2
<1>3. CASE ~ on_rollup(d)
  <2>1. S = {}
    BY <1>1, <1>3
  <2> QED BY <2>1, <1>3, SumEmpty
<1> QED BY <1>2, <1>3

LEMMA WithdrawsForm == ChainsPart => life_withdrawn = Withdraws
<1> SUFFICES ASSUME ChainsPart, NEW d \in DepositIds
             PROVE  SumOver(withdrawal_amounts, {w \in DOMAIN withdrawals : withdrawals[w].deposit_id = d})
                      = IF withdrawal_key(d) \in processed_deposits THEN deposits[d].amount ELSE 0
  BY DEF life_withdrawn, Withdraws
<1> DEFINE S == {w \in DOMAIN withdrawals : withdrawals[w].deposit_id = d}
<1>1. withdrawal_key(d) \in processed_deposits <=> \E w \in DOMAIN withdrawals : withdrawals[w].deposit_id = d
  BY DEF ChainsPart, BridgeInv, WithdrawPart
<1>2. CASE withdrawal_key(d) \in processed_deposits
  <2>1. PICK w \in DOMAIN withdrawals : withdrawals[w].deposit_id = d
    BY <1>1, <1>2
  <2>2. S = {w}
    BY <2>1 DEF ChainsPart, BridgeInv, WithdrawPart, WithdrawalsBacked
  <2>3. PICK c \in claims : c.deposit_id = d /\ c.amount = withdrawals[w].amount
    BY <2>1 DEF ChainsPart, BridgeInv, WithdrawPart, WithdrawalsBacked
  <2>4. withdrawal_amounts[w] = deposits[d].amount /\ withdrawal_amounts[w] \in Nat
    BY <2>1, <2>3, ClaimFacts DEF withdrawal_amounts
  <2>5. SumOver(withdrawal_amounts, {w}) = withdrawal_amounts[w]
    BY <2>4, SumSingle
  <2> QED BY <2>2, <2>4, <2>5, <1>2
<1>3. CASE withdrawal_key(d) \notin processed_deposits
  <2>1. S = {}
    BY <1>1, <1>3
  <2> QED BY <2>1, <1>3, SumEmpty
<1> QED BY <1>2, <1>3

LEMMA PaysForm == ChainsPart => life_paid = Pays
<1> SUFFICES ASSUME ChainsPart, NEW d \in DepositIds
             PROVE  SumOver(released_amounts, {i \in 1 .. Len(releases) : releases[i].depositId = d})
                      = IF d \in Ids /\ deposits[d].status = Released THEN deposits[d].amount ELSE 0
  BY DEF life_paid, Pays
<1> DEFINE S == {i \in 1 .. Len(releases) : releases[i].depositId = d}
<1>0. /\ \A i \in 1 .. Len(releases) :
            /\ releases[i].depositId \in Ids
            /\ releases[i].amount = deposits[releases[i].depositId].amount
            /\ deposits[releases[i].depositId].status = Released
      /\ \A i, j \in 1 .. Len(releases) : releases[i].depositId = releases[j].depositId => i = j
      /\ \A id \in Ids : deposits[id].status = Released => \E i \in 1 .. Len(releases) : releases[i].depositId = id
  BY DEF ChainsPart, EthInv, PayoutPart, ReleasedOnce, Ids
<1>1. CASE d \in Ids /\ deposits[d].status = Released
  <2>1. PICK i \in 1 .. Len(releases) : releases[i].depositId = d
    BY <1>0, <1>1
  <2>2. S = {i}
    BY <2>1, <1>0
  <2>3. deposits[d].amount \in Nat
    BY <1>1, DepositFacts, DeploymentAssumption
  <2>4. released_amounts[i] = deposits[d].amount /\ released_amounts[i] \in Nat
    BY <2>1, <2>3, <1>0 DEF released_amounts
  <2>5. SumOver(released_amounts, {i}) = released_amounts[i]
    BY <2>4, SumSingle
  <2> QED BY <2>2, <2>4, <2>5, <1>1
<1>2. CASE ~ (d \in Ids /\ deposits[d].status = Released)
  <2>1. S = {}
    BY <1>0, <1>2
  <2> QED BY <2>1, <1>2, SumEmpty
<1> QED BY <1>1, <1>2

LEMMA LifeForm ==
    ChainsPart => life_locked = Locks /\ life_credited = Credits
                  /\ life_withdrawn = Withdraws /\ life_paid = Pays
BY LocksForm, CreditsForm, WithdrawsForm, PaysForm

LEMMA LifeFormNext ==
    ChainsPart' => life_locked' = Locks' /\ life_credited' = Credits'
                   /\ life_withdrawn' = Withdraws' /\ life_paid' = Pays'
<1>1. (ChainsPart => life_locked = Locks /\ life_credited = Credits
                     /\ life_withdrawn = Withdraws /\ life_paid = Pays)'
  BY LifeForm, PTL
<1> QED BY <1>1

\* Only a deposit that is there is on the rollup, and only one that is on
\* the rollup is withdrawn.
LEMMA AmountFacts ==
    ASSUME ChainsPart, NEW d \in DepositIds
    PROVE  /\ on_rollup(d) => d \in Ids
           /\ withdrawal_key(d) \in processed_deposits => on_rollup(d)
           /\ d \in Ids => deposits[d].amount \in Nat /\ deposits[d].amount > 0
<1>1. on_rollup(d) <=> \E c \in claims : c.deposit_id = d
  BY DEF on_rollup, ChainsPart, BridgeInv, ClaimPart, DepositsLandOnce
<1>2. on_rollup(d) => d \in Ids
  BY <1>1, ClaimFacts
<1>3. withdrawal_key(d) \in processed_deposits => \E c \in claims : c.deposit_id = d
  BY DEF ChainsPart, BridgeInv, WithdrawPart, WithdrawalsBacked
<1>4. d \in Ids => deposits[d].amount \in Nat /\ deposits[d].amount > 0
  BY DepositFacts, DeploymentAssumption DEF ChainsPart
<1> QED BY <1>1, <1>2, <1>3, <1>4

\* What a step may do to the four amounts.
Locking(d, a)   == /\ Locks[d] = 0 /\ a > 0 /\ Locks' = [Locks EXCEPT ![d] = a]
                   /\ UNCHANGED <<Credits, Withdraws, Pays>>
Crediting(d)    == /\ Locks[d] > 0 /\ Credits[d] = 0 /\ Credits' = [Credits EXCEPT ![d] = Locks[d]]
                   /\ UNCHANGED <<Locks, Withdraws, Pays>>
Withdrawing(d)  == /\ Credits[d] > 0 /\ Withdraws[d] = 0 /\ Withdraws' = [Withdraws EXCEPT ![d] = Credits[d]]
                   /\ UNCHANGED <<Locks, Credits, Pays>>
Paying(d)       == /\ Locks[d] > 0 /\ Pays[d] = 0 /\ Pays' = [Pays EXCEPT ![d] = Locks[d]]
                   /\ UNCHANGED <<Locks, Credits, Withdraws>>
NothingMoves    == UNCHANGED <<Locks, Credits, Withdraws, Pays>>

LEMMA ExecuteMoves ==
    ASSUME ChainsPart, NEW tx \in RollupTxs, Execute(tx), UNCHANGED ethVars
    PROVE  \E d \in DepositIds : Crediting(d) \/ Withdrawing(d)
<1>0. UNCHANGED <<nextDepositId, deposits>>
  BY DEF ethVars, lockVars
<1>1. Ids' = Ids /\ Locks' = Locks /\ Pays' = Pays
  BY <1>0 DEF Ids, Locks, Pays
<1>2. CASE tx.call = "claim" /\ handle_claim_deposit("OBSbridge", tx.inputs)
  <2>0. PICK d \in Ids : tx.inputs = public_inputs(event(d))
    BY <1>2 DEF RollupTxs, ClaimTx, WithdrawTx, Events
  <2>1. d \in Ids /\ d \in DepositIds
    BY DepositFacts
  <2>2. /\ ~ on_rollup(d)
        /\ processed_deposits' = processed_deposits \cup {deposit_key(BridgeContract, d)}
    BY <1>2, <2>0 DEF handle_claim_deposit, public_inputs, event, on_rollup
  <2>3. \A e \in DepositIds : on_rollup(e)' <=> on_rollup(e) \/ e = d
    BY <2>1, <2>2, KeysDistinct DEF on_rollup
  <2>4. \A e \in DepositIds : withdrawal_key(e)' \in processed_deposits' <=> withdrawal_key(e) \in processed_deposits
    BY <2>1, <2>2, KeysDistinct DEF withdrawal_key
  <2>5. Withdraws' = Withdraws
    BY <2>4, <1>0 DEF Withdraws
  <2>6. Locks[d] = deposits[d].amount /\ Locks[d] > 0 /\ Credits[d] = 0
    BY <2>1, <2>2, AmountFacts DEF Locks, Credits
  <2>7. Credits' = [Credits EXCEPT ![d] = Locks[d]]
    <3>1. Credits' = [e \in DepositIds |-> IF on_rollup(e)' THEN deposits[e].amount ELSE 0]
      BY <1>0 DEF Credits
    <3>2. [Credits EXCEPT ![d] = Locks[d]]
            = [e \in DepositIds |-> IF e = d THEN deposits[d].amount
                                    ELSE IF on_rollup(e) THEN deposits[e].amount ELSE 0]
      BY <2>1, <2>6 DEF Credits
    <3>3. \A e \in DepositIds : (IF on_rollup(e)' THEN deposits[e].amount ELSE 0)
            = (IF e = d THEN deposits[d].amount ELSE IF on_rollup(e) THEN deposits[e].amount ELSE 0)
      BY <2>3
    <3> QED BY <3>1, <3>2, <3>3
  <2>8. Crediting(d)
    BY <1>1, <2>5, <2>6, <2>7 DEF Crediting
  <2> QED BY <2>1, <2>8
<1>3. CASE tx.call = "withdraw" /\ handle_withdraw_bridge(tx.deposit_id, tx.recipient)
  <2> DEFINE d == tx.deposit_id
  <2>1. d \in DepositIds
    BY <1>3 DEF RollupTxs, ClaimTx, WithdrawTx
  <2>2. /\ on_rollup(d) /\ withdrawal_key(d) \notin processed_deposits
        /\ processed_deposits' = processed_deposits \cup {withdrawal_key(d)}
    BY <1>3 DEF handle_withdraw_bridge, on_rollup
  <2> HIDE DEF d
  <2>3. \A e \in DepositIds : on_rollup(e)' <=> on_rollup(e)
    BY <2>1, <2>2, KeysDistinct DEF on_rollup
  <2>4. \A e \in DepositIds : withdrawal_key(e)' \in processed_deposits'
                                <=> withdrawal_key(e) \in processed_deposits \/ e = d
    BY <2>1, <2>2, KeysDistinct DEF withdrawal_key
  <2>5. Credits' = Credits
    BY <2>3, <1>0 DEF Credits
  <2>6. Credits[d] = deposits[d].amount /\ Credits[d] > 0 /\ Withdraws[d] = 0
    BY <2>1, <2>2, AmountFacts DEF Credits, Withdraws
  <2>7. Withdraws' = [Withdraws EXCEPT ![d] = Credits[d]]
    <3>1. Withdraws' = [e \in DepositIds |-> IF withdrawal_key(e)' \in processed_deposits'
                                             THEN deposits[e].amount ELSE 0]
      BY <1>0 DEF Withdraws
    <3>2. [Withdraws EXCEPT ![d] = Credits[d]]
            = [e \in DepositIds |-> IF e = d THEN deposits[d].amount
                                    ELSE IF withdrawal_key(e) \in processed_deposits THEN deposits[e].amount ELSE 0]
      BY <2>1, <2>6 DEF Withdraws
    <3>3. \A e \in DepositIds :
            (IF withdrawal_key(e)' \in processed_deposits' THEN deposits[e].amount ELSE 0)
            = (IF e = d THEN deposits[d].amount
               ELSE IF withdrawal_key(e) \in processed_deposits THEN deposits[e].amount ELSE 0)
      BY <2>4
    <3> QED BY <3>1, <3>2, <3>3
  <2>8. Withdrawing(d)
    BY <1>1, <2>5, <2>6, <2>7 DEF Withdrawing
  <2> QED BY <2>1, <2>8
<1> QED BY <1>2, <1>3 DEF Execute

LEMMA ContractMoves ==
    ASSUME ChainsPart, ChainsPart', EthGrows, ContractStep, UNCHANGED rollupVars
    PROVE  \/ NothingMoves
           \/ \E d \in DepositIds : (\E a \in DepositSums : Locking(d, a)) \/ Paying(d)
<1>0. processed_deposits' = processed_deposits
  BY DEF rollupVars, bridgeVars
<1>1. \A d \in DepositIds : /\ on_rollup(d)' <=> on_rollup(d)
                            /\ withdrawal_key(d)' \in processed_deposits'
                                 <=> withdrawal_key(d) \in processed_deposits
  BY <1>0 DEF on_rollup, deposit_key, withdrawal_key
<1>2. \A d \in Ids : deposits'[d].amount = deposits[d].amount
  BY DEF EthGrows
<1>3. Credits' = Credits /\ Withdraws' = Withdraws
  BY <1>1, <1>2, AmountFacts DEF Credits, Withdraws
<1>4. /\ nextDepositId \in Nat /\ DOMAIN deposits = Ids /\ Ids \subseteq DepositIds
      /\ \A d \in Ids : deposits[d] \in DepositRecords
  BY DepositFacts
<1>5. CASE UNCHANGED <<nextDepositId, deposits>>
  BY <1>3, <1>5 DEF NothingMoves, Locks, Pays, Ids
<1>6. CASE Deposit
  <2>1. PICK u \in Users, a \in DepositSums, r \in ObscuraRecipients \cup {NoRecipient} : deposit(u, a, r)
    BY <1>6 DEF Deposit
  <2> DEFINE d == nextDepositId
  <2>2. d \in DepositIds /\ d \notin Ids /\ Ids' = Ids \cup {d}
    <3>1. nextDepositId < MaxDeposits /\ MaxDeposits \in Nat /\ nextDepositId' = nextDepositId + 1
      BY <1>6, <2>1, DeploymentAssumption DEF Deposit, deposit
    <3> QED BY <3>1, <1>4, SystemAssumption DEF Ids
  <2>3. /\ a >= MIN_DEPOSIT
        /\ deposits' = [id \in Ids \cup {d} |->
                          IF id = d THEN [sender |-> u, obscuraRecipient |-> r, amount |-> a, status |-> Locked]
                          ELSE deposits[id]]
    <3>1. 0 .. nextDepositId = Ids \cup {d}
      BY <1>4 DEF Ids
    <3> QED BY <2>1, <3>1 DEF deposit
  <2>4. a > 0
    BY <2>3, DeploymentAssumption
  <2> HIDE DEF d
  <2>5. /\ deposits'[d].amount = a /\ deposits'[d].status = Locked
        /\ \A e \in Ids : deposits'[e] = deposits[e]
    BY <2>2, <2>3
  <2>6. Locks[d] = 0 /\ Locks' = [Locks EXCEPT ![d] = a]
    BY <2>2, <2>5 DEF Locks
  <2>7. Pays' = Pays
    BY <2>2, <2>5 DEF Pays, Locked, Released
  <2> QED BY <2>2, <2>4, <2>6, <2>7, <1>3 DEF Locking
<1>7. CASE ReleaseMultisig
  <2>1. PICK d \in 0 .. MaxDeposits - 1, r \in Users \cup {BridgeAddr, Zero}, nonce \in Nonces :
        \E signatures \in SignatureLists(releaseHash(d, r, nonce)) : releaseMultisig(d, r, nonce, signatures)
    BY <1>7 DEF ReleaseMultisig
  <2>2. /\ status(d) = Locked /\ nextDepositId' = nextDepositId
        /\ deposits' = [deposits EXCEPT ![d].status = Released]
    BY <2>1 DEF releaseMultisig, lockVars
  <2>3. d \in Ids /\ d \in DepositIds /\ deposits[d].status = Locked
    BY <2>2, <1>4 DEF status, Locked
  <2>4. Ids' = Ids
    BY <2>2 DEF Ids
  <2>5. /\ deposits'[d].status = Released
        /\ \A e \in Ids : e # d => deposits'[e] = deposits[e]
    BY <2>2, <2>3, <1>4 DEF DepositRecords
  <2>6. Locks' = Locks
    BY <2>4, <1>2 DEF Locks
  <2>7. Locks[d] = deposits[d].amount /\ Locks[d] > 0 /\ Pays[d] = 0
    BY <2>3, AmountFacts DEF Locks, Pays, Locked, Released
  <2>8. Pays' = [Pays EXCEPT ![d] = Locks[d]]
    BY <2>3, <2>4, <2>5, <2>7, <1>2 DEF Pays
  <2> QED BY <2>3, <2>6, <2>7, <2>8, <1>3 DEF Paying
<1>8. CASE AddSigner \/ RemoveSigner \/ SetThreshold \/ TransferOwnership \/ MineBlock \/ UNCHANGED ethVars
  <2>1. UNCHANGED <<nextDepositId, deposits>>
    BY <1>8 DEF AddSigner, RemoveSigner, SetThreshold, TransferOwnership, addSigner, removeSigner,
                setThreshold, transferOwnership, MineBlock, ethVars, lockVars
  <2> QED BY <2>1, <1>5
<1> QED BY <1>6, <1>7, <1>8 DEF ContractStep, EthNext

\* Every step of the system is a step of the lifecycle of one deposit, or
\* none.
LEMMA LifeStep ==
    ASSUME SystemInv, [SystemNext]_systemVars
    PROVE  [Life!LifeNext]_(Life!lifeVars)
<1>1. ChainsPart' /\ EthGrows /\ ChainsPart
  <2>1. RollupStep /\ ContractStep
    BY StepKinds DEF OneChainMoves, RollupStep, ContractStep
  <2> QED BY <2>1, ChainsStep DEF SystemInv, Grows
<1>2. /\ life_locked = Locks /\ life_credited = Credits
      /\ life_withdrawn = Withdraws /\ life_paid = Pays
  BY <1>1, LifeForm
<1>3. /\ life_locked' = Locks' /\ life_credited' = Credits'
      /\ life_withdrawn' = Withdraws' /\ life_paid' = Pays'
  BY <1>1, LifeFormNext
<1>4. NothingMoves => UNCHANGED Life!lifeVars
  BY <1>2, <1>3 DEF NothingMoves, Life!lifeVars
<1>5. ASSUME NEW d \in DepositIds, NEW a \in DepositSums, Locking(d, a) PROVE Life!LifeNext
  BY <1>2, <1>3, <1>5 DEF Locking, Life!LifeNext, Life!Lock
<1>6. ASSUME NEW d \in DepositIds, Crediting(d) PROVE Life!LifeNext
  BY <1>2, <1>3, <1>6 DEF Crediting, Life!LifeNext, Life!CreditDeposit
<1>7. ASSUME NEW d \in DepositIds, Withdrawing(d) PROVE Life!LifeNext
  BY <1>2, <1>3, <1>7 DEF Withdrawing, Life!LifeNext, Life!WithdrawDeposit
<1>8. ASSUME NEW d \in DepositIds, Paying(d) PROVE Life!LifeNext
  BY <1>2, <1>3, <1>8 DEF Paying, Life!LifeNext, Life!PayDeposit
<1>9. CASE RollupStep /\ UNCHANGED ethVars
  <2>1. CASE UNCHANGED rollupVars
    <3>1. ContractStep
      BY <1>9 DEF ContractStep
    <3> QED BY <3>1, <2>1, <1>1, <1>4, <1>5, <1>8, ContractMoves
  <2>2. CASE \E tx \in RollupTxs : Execute(tx)
    BY <2>2, <1>1, <1>6, <1>7, <1>9, ExecuteMoves
  <2> QED BY <2>1, <2>2, <1>9 DEF RollupStep
<1>10. CASE ContractStep /\ UNCHANGED rollupVars
  BY <1>10, <1>1, <1>4, <1>5, <1>8, ContractMoves
<1> QED BY <1>9, <1>10, StepKinds DEF OneChainMoves

\* The bridge end to end implements the lifecycle of a deposit: whatever is
\* lost, repeated, executed late or interrupted by a crash of relayer.mjs,
\* each deposit is credited, withdrawn and paid at most once, and for what
\* was locked.
THEOREM SystemImplementsLifecycle == SystemSpec => Lifecycle
<1>1. SystemInit => Life!LifeInit
  <2> SUFFICES ASSUME SystemInit PROVE Life!LifeInit
    OBVIOUS
  <2>1. ChainsPart /\ nextDepositId = 0 /\ processed_deposits = {}
    BY SystemInitInv DEF SystemInv, SystemInit, EthInit, BridgeInit
  <2>2. Ids = {}
    BY <2>1 DEF Ids
  <2>3. Locks = [d \in DepositIds |-> 0] /\ Pays = [d \in DepositIds |-> 0]
    BY <2>2 DEF Locks, Pays
  <2>4. Credits = [d \in DepositIds |-> 0] /\ Withdraws = [d \in DepositIds |-> 0]
    BY <2>1 DEF Credits, Withdraws, on_rollup
  <2> QED BY <2>1, <2>3, <2>4, LifeForm DEF Life!LifeInit
<1>2. SystemInv /\ [SystemNext]_systemVars => [Life!LifeNext]_(Life!lifeVars)
  BY LifeStep
<1> QED BY <1>1, <1>2, SystemInvariant, PTL DEF SystemSpec, Lifecycle, Life!LifeSpec
=============================================================================
